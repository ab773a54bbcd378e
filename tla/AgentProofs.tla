----------------------------- MODULE AgentProofs -----------------------------
(***************************************************************************)
(* The agent tries every line both ways and keeps the order of each file,  *)
(* for any files, any number of starts and of attempts per message, and a  *)
(* service that takes, refuses, forgets or delays requests as it likes.    *)
(***************************************************************************)
EXTENDS Agent, TLAPS

Phases ==
    \A f \in Files : /\ phase[f] # "await" => answer[f] = "none"
                     /\ phase[f] # "read" => pos[f] >= 1

\* What HTTP did with the line in hand is known before Kafka is tried.
InHand ==
    \A f \in Files :
        /\ answer[f] = "taken" => Arrived(f, pos[f])
        /\ phase[f] = "produce" => Arrived(f, pos[f]) \/ Send(f, "http") \in failed

\* The line in hand cannot have reached the service over HTTP.
Unsent(f) == phase[f] = "send" \/ answer[f] = "open"

\* Line i was sent over HTTP by this agent.
Posted(f, i) == i <= pos[f] /\ (Unsent(f) => i < pos[f])

\* Nothing arrives from an agent that was not started yet, and of this one only
\* lines that it has sent.
StreamsSoFar ==
    \A f \in Files :
        /\ \A b \in 1..MaxBoots : \A way \in Ways :
               b > boot => arrived[<<f, b, way>>] = <<>>
        /\ \A x \in ToSet(arrived[<<f, boot, "http">>]) : Posted(f, x)
        /\ \A x \in ToSet(arrived[<<f, boot, "kafka">>]) : x <= pos[f]

\* A late request was given up and has not arrived.
LateOnes ==
    \A s \in late :
        /\ s.way = "http" /\ s \in failed /\ s.boot <= boot
        /\ s.line \notin ToSet(arrived[<<s.file, s.boot, s.way>>])
        /\ s.boot = boot => Posted(s.file, s.line)

IInv ==
    /\ TypeOK /\ Phases /\ InHand /\ StreamsSoFar /\ LateOnes
    /\ LostForAReason /\ OvertakenOnlyIfLate

USE LogAssumption, BoundAssumption
-----------------------------------------------------------------------------
\* Appending to a sequence: its elements, place by place and as a set.
LEMMA AppendLemma ==
    ASSUME NEW S, NEW q \in Seq(S), NEW e \in S
    PROVE  /\ Len(q) \in Nat /\ Len(Append(q, e)) = Len(q) + 1
           /\ Append(q, e)[Len(q) + 1] = e
           /\ \A i \in 1..Len(q) : Append(q, e)[i] = q[i] /\ q[i] \in ToSet(q)
           /\ ToSet(Append(q, e)) = ToSet(q) \cup {e}
<1>1. /\ DOMAIN q = 1..Len(q) /\ Len(q) \in Nat
      /\ DOMAIN Append(q, e) = 1..(Len(q) + 1) /\ Len(Append(q, e)) = Len(q) + 1
      /\ \A i \in 1..Len(q) : Append(q, e)[i] = q[i]
      /\ Append(q, e)[Len(q) + 1] = e
  OBVIOUS
<1> QED BY <1>1 DEF ToSet

LEMMA LinesAreNumbers ==
    /\ \A f \in Files : MaxSize(f) \in Nat /\ 1..MaxSize(f) \subseteq LineNumbers
    /\ \A i \in LineNumbers : i \in Int
<1>1. \A f \in Files : MaxSize(f) \in Nat
  BY DEF MaxSize
<1>2. \A f \in Files : 1..MaxSize(f) \subseteq LineNumbers
  BY DEF LineNumbers
<1>3. \A i \in LineNumbers : i \in Int
  <2> SUFFICES ASSUME NEW i \in LineNumbers PROVE i \in Int
    OBVIOUS
  <2>1. PICK f \in Files : i \in 1..MaxSize(f)
    BY DEF LineNumbers
  <2> QED BY <1>1, <2>1
<1> QED BY <1>1, <1>2, <1>3

\* What arrived are lines.
LEMMA ElementsAreLines ==
    ASSUME TypeOK, NEW f \in Files, NEW b \in 1..MaxBoots, NEW way \in Ways
    PROVE  \A x \in ToSet(arrived[<<f, b, way>>]) : x \in Int
<1>1. arrived[<<f, b, way>>] \in Seq(LineNumbers)
  BY DEF TypeOK, Streams
<1> SUFFICES ASSUME NEW i \in DOMAIN arrived[<<f, b, way>>]
             PROVE  arrived[<<f, b, way>>][i] \in Int
  BY DEF ToSet
<1>2. arrived[<<f, b, way>>][i] \in LineNumbers
  BY <1>1
<1> QED BY <1>2, LinesAreNumbers

\* What is appended to a stream, and that nothing else changes.
LEMMA ArrivedGrows ==
    ASSUME TypeOK, NEW s \in Sends, arrived' = WithArrived(s)
    PROVE  /\ arrived' \in [Streams -> Seq(LineNumbers)]
           /\ <<s.file, s.boot, s.way>> \in Streams
           /\ LET old == arrived[<<s.file, s.boot, s.way>>]
                  new == arrived'[<<s.file, s.boot, s.way>>]
              IN  /\ Len(old) \in Nat /\ Len(new) = Len(old) + 1
                  /\ new[Len(old) + 1] = s.line
                  /\ \A i \in 1..Len(old) : new[i] = old[i] /\ old[i] \in ToSet(old)
           /\ ToSet(arrived'[<<s.file, s.boot, s.way>>]) =
                  ToSet(arrived[<<s.file, s.boot, s.way>>]) \cup {s.line}
           /\ \A st \in Streams :
                  st # <<s.file, s.boot, s.way>> => arrived'[st] = arrived[st]
           /\ \A st \in Streams : ToSet(arrived[st]) \subseteq ToSet(arrived'[st])
<1> DEFINE at == <<s.file, s.boot, s.way>>
<1>1. at \in Streams /\ s.line \in LineNumbers
  BY DEF Sends, Streams
<1>2. arrived[at] \in Seq(LineNumbers) /\ arrived \in [Streams -> Seq(LineNumbers)]
  BY <1>1 DEF TypeOK
<1>3. Append(arrived[at], s.line) \in Seq(LineNumbers)
  BY <1>1, <1>2
<1>4. arrived' = [arrived EXCEPT ![at] = Append(arrived[at], s.line)]
  BY DEF WithArrived
<1> HIDE DEF at
<1>5. /\ arrived' \in [Streams -> Seq(LineNumbers)]
      /\ arrived'[at] = Append(arrived[at], s.line)
      /\ \A st \in Streams : st # at => arrived'[st] = arrived[st]
  BY <1>1, <1>2, <1>3, <1>4
<1>6. /\ ToSet(arrived'[at]) = ToSet(arrived[at]) \cup {s.line}
      /\ Len(arrived[at]) \in Nat /\ Len(arrived'[at]) = Len(arrived[at]) + 1
      /\ arrived'[at][Len(arrived[at]) + 1] = s.line
      /\ \A i \in 1..Len(arrived[at]) :
             arrived'[at][i] = arrived[at][i] /\ arrived[at][i] \in ToSet(arrived[at])
  BY <1>1, <1>2, <1>5, AppendLemma
<1>7. \A st \in Streams : ToSet(arrived[st]) \subseteq ToSet(arrived'[st])
  BY <1>5, <1>6
<1> QED BY <1>1, <1>5, <1>6, <1>7 DEF at

\* What has arrived or failed remains so.
LEMMA NothingForgotten ==
    ASSUME TypeOK, boot <= boot', boot' \in 1..MaxBoots, failed \subseteq failed',
           \A st \in Streams : ToSet(arrived[st]) \subseteq ToSet(arrived'[st]),
           NEW f \in Files, NEW i
    PROVE  /\ Arrived(f, i) => Arrived(f, i)'
           /\ FailedBothWays(f, i) => FailedBothWays(f, i)'
<1>1. \A b \in 1..boot : b \in 1..boot' /\ b \in 1..MaxBoots
  BY DEF TypeOK
<1>2. Arrived(f, i) => Arrived(f, i)'
  BY <1>1 DEF Arrived, Streams
<1>3. FailedBothWays(f, i) => FailedBothWays(f, i)'
  BY <1>1 DEF FailedBothWays
<1> QED BY <1>2, <1>3

\* Each stream keeps its order when the line that arrives is new to it and the later
\* ones that it follows were not waited for.
LEMMA OrderGrows ==
    ASSUME TypeOK, OvertakenOnlyIfLate, NEW s \in Sends, arrived' = WithArrived(s),
           failed \subseteq failed',
           \A x \in ToSet(arrived[<<s.file, s.boot, s.way>>]) :
               \/ x < s.line
               \/ s.way = "kafka" /\ x = s.line
               \/ s.way = "http" /\ s.line < x /\ s \in failed'
    PROVE  OvertakenOnlyIfLate'
<1> SUFFICES ASSUME NEW f \in Files, NEW b \in 1..MaxBoots, NEW way \in Ways,
                    NEW k \in 1..Len(arrived'[<<f, b, way>>]), NEW j \in 1..(k - 1)
             PROVE  LET lines == arrived'[<<f, b, way>>] IN
                    \/ lines[j] < lines[k]
                    \/ way = "kafka" /\ lines[j] = lines[k]
                    \/ /\ way = "http" /\ lines[k] < lines[j]
                       /\ [file |-> f, line |-> lines[k], boot |-> b, way |-> way] \in failed'
  BY DEF OvertakenOnlyIfLate
<1>1. <<f, b, way>> \in Streams
  BY DEF Streams
<1>2. arrived[<<f, b, way>>] \in Seq(LineNumbers)
  BY <1>1 DEF TypeOK
<1>3. CASE <<f, b, way>> # <<s.file, s.boot, s.way>>
  <2>1. arrived'[<<f, b, way>>] = arrived[<<f, b, way>>]
    BY <1>1, <1>3, ArrivedGrows
  <2> QED BY <2>1 DEF OvertakenOnlyIfLate
<1>4. CASE <<f, b, way>> = <<s.file, s.boot, s.way>>
  <2> DEFINE old == arrived[<<f, b, way>>]
             new == arrived'[<<f, b, way>>]
  <2>2. f = s.file /\ b = s.boot /\ way = s.way
    BY <1>4
  <2>3. s = [file |-> f, line |-> s.line, boot |-> b, way |-> way]
    BY <2>2 DEF Sends
  <2>4. /\ Len(old) \in Nat /\ Len(new) = Len(old) + 1 /\ new[Len(old) + 1] = s.line
        /\ \A i \in 1..Len(old) : new[i] = old[i] /\ old[i] \in ToSet(old)
    BY <1>4, ArrivedGrows
  <2>a. k \in 1..Len(new) /\ j \in 1..(k - 1)
    OBVIOUS
  <2> HIDE DEF old, new
  <2>5. CASE k <= Len(old)
    <3>1. k \in 1..Len(old) /\ j \in 1..Len(old) /\ new[k] = old[k] /\ new[j] = old[j]
      BY <2>4, <2>5, <2>a
    <3> QED BY <3>1 DEF old, new, OvertakenOnlyIfLate
  <2>6. CASE k > Len(old)
    <3>1. k = Len(old) + 1 /\ j \in 1..Len(old)
      BY <2>4, <2>6, <2>a
    <3>2. new[k] = s.line /\ new[j] = old[j] /\ old[j] \in ToSet(old)
      BY <2>4, <3>1
    <3>3. \/ new[j] < s.line
          \/ s.way = "kafka" /\ new[j] = s.line
          \/ s.way = "http" /\ s.line < new[j] /\ s \in failed'
      BY <2>2, <3>2 DEF old
    <3> QED BY <2>2, <2>3, <3>2, <3>3 DEF new
  <2> QED BY <2>4, <2>5, <2>6, <2>a
<1> QED BY <1>3, <1>4

\* No line becomes done without having arrived or failed both ways.
LEMMA LostStep ==
    ASSUME TypeOK, LostForAReason, boot' = boot, failed \subseteq failed',
           \A st \in Streams : ToSet(arrived[st]) \subseteq ToSet(arrived'[st]),
           \A f \in Files : \A i \in 1..pos'[f] :
               Log[f][i] = "event" /\ (i < pos'[f] \/ phase'[f] = "read") =>
                   \/ i \in 1..pos[f] /\ (i < pos[f] \/ phase[f] = "read")
                   \/ Arrived(f, i)' \/ FailedBothWays(f, i)'
    PROVE  LostForAReason'
<1>1. boot <= boot' /\ boot' \in 1..MaxBoots
  BY DEF TypeOK
<1>2. \A f \in Files : \A i \in 1..pos[f] :
          /\ Arrived(f, i) => Arrived(f, i)'
          /\ FailedBothWays(f, i) => FailedBothWays(f, i)'
  BY <1>1, NothingForgotten
<1> QED BY <1>2 DEF LostForAReason

\* The order is kept when nothing arrives.
LEMMA OrderSame ==
    ASSUME OvertakenOnlyIfLate, arrived' = arrived, failed \subseteq failed'
    PROVE  OvertakenOnlyIfLate'
<1> SUFFICES ASSUME NEW f \in Files, NEW b \in 1..MaxBoots, NEW way \in Ways,
                    NEW k \in 1..Len(arrived'[<<f, b, way>>]), NEW j \in 1..(k - 1)
             PROVE  LET lines == arrived'[<<f, b, way>>] IN
                    \/ lines[j] < lines[k]
                    \/ way = "kafka" /\ lines[j] = lines[k]
                    \/ /\ way = "http" /\ lines[k] < lines[j]
                       /\ [file |-> f, line |-> lines[k], boot |-> b, way |-> way] \in failed'
  BY DEF OvertakenOnlyIfLate
<1> DEFINE lines == arrived[<<f, b, way>>]
<1>1. \/ lines[j] < lines[k]
      \/ way = "kafka" /\ lines[j] = lines[k]
      \/ /\ way = "http" /\ lines[k] < lines[j]
         /\ [file |-> f, line |-> lines[k], boot |-> b, way |-> way] \in failed
  BY DEF OvertakenOnlyIfLate
<1> QED BY <1>1
-----------------------------------------------------------------------------
LEMMA AgentInit == Init => IInv
<1> SUFFICES ASSUME Init PROVE IInv
  OBVIOUS
<1>1. /\ <<>> \in Seq(LineNumbers) /\ ToSet(<<>>) = {} /\ Len(<<>>) = 0
      /\ \A f \in Files : MaxSize(f) \in Nat
  BY DEF ToSet, MaxSize
<1>2. TypeOK
  BY <1>1 DEF Init, TypeOK
<1>3. Phases /\ InHand /\ LateOnes
  BY DEF Init, Phases, InHand, LateOnes
<1>4. \A f \in Files : \A b \in 1..MaxBoots : \A way \in Ways :
          arrived[<<f, b, way>>] = <<>>
  BY DEF Init, Streams
<1>5. StreamsSoFar
  <2>1. boot \in 1..MaxBoots /\ "http" \in Ways /\ "kafka" \in Ways
    BY DEF Init, Ways
  <2> QED BY <1>1, <1>4, <2>1 DEF StreamsSoFar
<1>6. LostForAReason
  BY <1>1 DEF Init, LostForAReason
<1>7. OvertakenOnlyIfLate
  BY <1>1, <1>4 DEF OvertakenOnlyIfLate
<1> QED BY <1>2, <1>3, <1>5, <1>6, <1>7 DEF IInv

\* The line in hand has a number of its file.
LEMMA SendTyped ==
    ASSUME IInv, NEW f \in Files, phase[f] # "read", NEW way \in Ways
    PROVE  Send(f, way) \in Sends /\ pos[f] \in 1..MaxSize(f) /\ pos[f] \in LineNumbers
<1>1. /\ pos[f] \in Int /\ pos[f] >= 1 /\ pos[f] <= MaxSize(f) /\ MaxSize(f) \in Nat
      /\ boot \in 1..MaxBoots
  BY LinesAreNumbers DEF IInv, TypeOK, Phases
<1>2. pos[f] \in 1..MaxSize(f)
  BY <1>1
<1>3. pos[f] \in LineNumbers
  BY <1>2, LinesAreNumbers
<1> QED BY <1>1, <1>2, <1>3 DEF Send, Sends

LEMMA WriteStep ==
    ASSUME IInv, NEW f \in Files, WriteLine(f) PROVE IInv'
<1> USE DEF WriteLine
<1>1. TypeOK'
  BY LinesAreNumbers DEF IInv, TypeOK, MaxSize
<1>2. Phases' /\ InHand' /\ StreamsSoFar' /\ LateOnes'
  BY DEF IInv, Phases, InHand, StreamsSoFar, LateOnes, Posted, Unsent, Send, Arrived
<1>3. LostForAReason'
  BY DEF IInv, LostForAReason, Arrived, FailedBothWays
<1>4. OvertakenOnlyIfLate'
  BY OrderSame DEF IInv
<1> QED BY <1>1, <1>2, <1>3, <1>4 DEF IInv

\* What was sent before stays before the line that is read.
LEMMA ReadStep ==
    ASSUME IInv, NEW f \in Files, ReadLine(f) PROVE IInv'
<1> USE DEF ReadLine
<1>0. /\ pos[f] \in Nat /\ size[f] \in Nat /\ answer[f] = "none"
      /\ pos'[f] = pos[f] + 1 /\ phase'[f] \in {"send", "read"} /\ phase[f] = "read"
      /\ Log[f][pos[f] + 1] = "event" => phase'[f] = "send"
      /\ \A g \in Files : g # f => pos'[g] = pos[g] /\ phase'[g] = phase[g]
      /\ \A g \in Files : pos'[g] <= size[g] /\ pos[g] \in Nat
  BY DEF IInv, TypeOK, Phases
<1>1. TypeOK'
  BY <1>0 DEF IInv, TypeOK
<1>2. Phases' /\ InHand'
  <2>1. Phases'
    BY <1>0 DEF IInv, Phases
  <2>2. ASSUME NEW g \in Files, g # f
        PROVE  /\ answer'[g] = "taken" => Arrived(g, pos[g])'
               /\ phase'[g] = "produce" =>
                      Arrived(g, pos[g])' \/ Send(g, "http")' \in failed'
    <3>1. /\ answer[g] = "taken" => Arrived(g, pos[g])
          /\ phase[g] = "produce" => Arrived(g, pos[g]) \/ Send(g, "http") \in failed
      BY DEF IInv, InHand
    <3>2. /\ pos'[g] = pos[g] /\ phase'[g] = phase[g] /\ answer'[g] = answer[g]
          /\ Send(g, "http")' = Send(g, "http") /\ Arrived(g, pos[g])' = Arrived(g, pos[g])
      BY <1>0, <2>2 DEF Send, Arrived
    <3> QED BY <3>1, <3>2
  <2>3. answer'[f] = "none" /\ phase'[f] # "produce"
    BY <1>0
  <2> QED BY <2>1, <2>2, <2>3 DEF InHand
<1>3. \A g \in Files : \A i \in Int : Posted(g, i) => Posted(g, i)'
  BY <1>0 DEF Posted, Unsent
<1>4. StreamsSoFar'
  <2>1. ASSUME NEW g \in Files, NEW x \in ToSet(arrived[<<g, boot, "http">>])
        PROVE  Posted(g, x)'
    <3>1. x \in Int
      BY ElementsAreLines DEF IInv, TypeOK, Ways
    <3> QED BY <1>3, <3>1 DEF IInv, StreamsSoFar
  <2>2. ASSUME NEW g \in Files, NEW x \in ToSet(arrived[<<g, boot, "kafka">>])
        PROVE  x <= pos'[g]
    <3>1. x \in Int
      BY ElementsAreLines DEF IInv, TypeOK, Ways
    <3>2. x <= pos[g]
      BY DEF IInv, StreamsSoFar
    <3> QED BY <1>0, <3>1, <3>2
  <2> QED BY <2>1, <2>2 DEF IInv, StreamsSoFar
<1>5. LateOnes'
  <2>1. \A s \in late : s.line \in Int /\ s.file \in Files
    BY LinesAreNumbers DEF IInv, TypeOK, Sends
  <2> QED BY <1>3, <2>1 DEF IInv, LateOnes
<1>6. LostForAReason'
  <2>1. ASSUME NEW g \in Files, NEW i \in 1..pos'[g], Log[g][i] = "event",
               i < pos'[g] \/ phase'[g] = "read"
        PROVE  i \in 1..pos[g] /\ (i < pos[g] \/ phase[g] = "read")
    <3>1. CASE g = f
      <4>1. i \in Int /\ i <= pos[f] + 1 /\ i # pos[f] + 1
        BY <1>0, <2>1, <3>1
      <4> QED BY <1>0, <3>1, <4>1
    <3>2. CASE g # f
      BY <1>0, <2>1, <3>2
    <3> QED BY <3>1, <3>2
  <2> QED BY <2>1, LostStep DEF IInv
<1>7. OvertakenOnlyIfLate'
  BY OrderSame DEF IInv
<1> QED BY <1>1, <1>2, <1>4, <1>5, <1>6, <1>7 DEF IInv

\* A step of f between reading a line and the next: pos stays, and nothing arrives.
\* What becomes of the line in hand is left to the caller.
LEMMA SameLine ==
    ASSUME IInv, TypeOK', NEW f \in Files,
           UNCHANGED <<boot, size, pos, arrived>>, failed \subseteq failed',
           \A g \in Files : g # f => phase'[g] = phase[g] /\ answer'[g] = answer[g],
           Phases', Unsent(f)' => Unsent(f), phase'[f] # "read", phase[f] # "read",
           answer'[f] = "taken" => Arrived(f, pos[f]),
           phase'[f] = "produce" => Arrived(f, pos[f]) \/ Send(f, "http") \in failed',
           \A s \in late' : s \in late \/
               /\ s = Send(f, "http") /\ s \in failed'
               /\ Unsent(f) /\ ~ Unsent(f)'
    PROVE  IInv'
<1>1. \A g \in Files : \A i : Arrived(g, i)' <=> Arrived(g, i)
  BY DEF Arrived
<1>2. InHand'
  BY <1>1 DEF IInv, InHand, Send
<1>3. \A g \in Files : \A i : Posted(g, i) => Posted(g, i)'
  BY DEF Posted, Unsent
<1>4. StreamsSoFar'
  BY <1>3 DEF IInv, StreamsSoFar
<1>5. ASSUME NEW s \in late'
      PROVE  /\ s.way = "http" /\ s \in failed' /\ s.boot <= boot
             /\ s.line \notin ToSet(arrived[<<s.file, s.boot, s.way>>])
             /\ s.boot = boot => Posted(s.file, s.line)'
  <2>1. CASE s \in late
    <3>1. s.file \in Files
      BY <2>1 DEF IInv, TypeOK, Sends
    <3> QED BY <1>3, <2>1, <3>1 DEF IInv, LateOnes
  <2>2. CASE s = Send(f, "http") /\ s \in failed' /\ Unsent(f) /\ ~ Unsent(f)'
    <3>1. /\ s.file = f /\ s.line = pos[f] /\ s.boot = boot /\ s.way = "http"
          /\ boot \in Int /\ pos[f] \in Int
      BY <2>2 DEF Send, IInv, TypeOK
    <3>2. \A x \in ToSet(arrived[<<f, boot, "http">>]) : x < pos[f]
      BY <2>2 DEF IInv, StreamsSoFar, Posted
    <3>3. pos[f] \notin ToSet(arrived[<<f, boot, "http">>])
      <4> SUFFICES ASSUME pos[f] \in ToSet(arrived[<<f, boot, "http">>]) PROVE FALSE
        OBVIOUS
      <4>1. pos[f] < pos[f]
        BY <3>2
      <4> QED BY <3>1, <4>1
    <3>4. Posted(f, pos[f])'
      BY <2>2, <3>1 DEF Posted
    <3>5. /\ s.line \notin ToSet(arrived[<<s.file, s.boot, s.way>>])
          /\ Posted(s.file, s.line)'
      BY <3>1, <3>3, <3>4
    <3> QED BY <2>2, <3>1, <3>5
  <2> QED BY <1>5, <2>1, <2>2
<1>6. LateOnes'
  BY <1>5 DEF LateOnes
<1>7. LostForAReason'
  <2>1. \A g \in Files : \A i \in 1..pos'[g] :
            Log[g][i] = "event" /\ (i < pos'[g] \/ phase'[g] = "read") =>
                i \in 1..pos[g] /\ (i < pos[g] \/ phase[g] = "read")
    OBVIOUS
  <2> QED BY <2>1, LostStep DEF IInv
<1>8. OvertakenOnlyIfLate'
  BY OrderSame DEF IInv
<1> QED BY <1>2, <1>4, <1>6, <1>7, <1>8 DEF IInv

LEMMA SendStep ==
    ASSUME IInv, NEW f \in Files, SendLog(f) \/ Refused(f) PROVE IInv'
<1>1. /\ phase \in [Files -> {"read", "send", "await", "produce"}]
      /\ answer \in [Files -> {"none", "open", "taken", "refused"}]
      /\ answer[f] = "open" => phase[f] = "await"
  BY DEF IInv, TypeOK, Phases
<1>2. /\ UNCHANGED <<boot, size, pos, arrived, tries, late, failed>>
      /\ \A g \in Files : g # f => phase'[g] = phase[g] /\ answer'[g] = answer[g]
      /\ Unsent(f) /\ phase[f] # "read"
      /\ phase'[f] = "await" /\ answer'[f] \in {"open", "refused"}
      /\ phase' \in [Files -> {"read", "send", "await", "produce"}]
      /\ answer' \in [Files -> {"none", "open", "taken", "refused"}]
  BY <1>1 DEF SendLog, Refused, Unsent
<1>3. TypeOK'
  BY <1>2 DEF IInv, TypeOK, MaxSize
<1>4. Phases'
  BY <1>2 DEF IInv, Phases
<1> QED BY <1>2, <1>3, <1>4, SameLine

LEMMA AnsweredStep ==
    ASSUME IInv, NEW f \in Files, Answered(f) \/ GiveUp(f) PROVE IInv'
<1>0. /\ phase \in [Files -> {"read", "send", "await", "produce"}]
      /\ answer \in [Files -> {"none", "open", "taken", "refused"}]
      /\ phase[f] = "await"
  BY DEF IInv, TypeOK, Answered, GiveUp
<1>1. Send(f, "http") \in Sends
  BY <1>0, SendTyped DEF Ways
<1>2. /\ UNCHANGED <<boot, size, pos, arrived, tries>>
      /\ \A g \in Files : g # f => phase'[g] = phase[g] /\ answer'[g] = answer[g]
      /\ phase'[f] = "produce" /\ answer'[f] = "none"
      /\ phase' \in [Files -> {"read", "send", "await", "produce"}]
      /\ answer' \in [Files -> {"none", "open", "taken", "refused"}]
  BY <1>0 DEF Answered, GiveUp
<1>3. /\ failed \subseteq failed' /\ failed' \subseteq failed \cup {Send(f, "http")}
      /\ answer[f] = "taken" \/ Send(f, "http") \in failed'
  BY <1>0 DEF Answered, GiveUp
<1>4. late' \subseteq late \cup Abandoned(f) /\ (late' = late \/ Send(f, "http") \in failed')
  BY DEF Answered, GiveUp
<1>5. \A s \in late' : s \in late \/
          /\ s = Send(f, "http") /\ s \in failed'
          /\ Unsent(f) /\ ~ Unsent(f)'
  <2> SUFFICES ASSUME NEW s \in late', s \notin late
               PROVE  /\ s = Send(f, "http") /\ s \in failed'
                      /\ Unsent(f) /\ ~ Unsent(f)'
    BY Zenon
  <2>1. s \in Abandoned(f) /\ Send(f, "http") \in failed'
    BY <1>4
  <2>2. answer[f] = "open" /\ s = Send(f, "http")
    BY <2>1 DEF Abandoned
  <2>3. ~ Unsent(f)'
    BY <1>2 DEF Unsent
  <2> QED BY <2>1, <2>2, <2>3 DEF Unsent
<1>6. TypeOK'
  <2>1. late' \subseteq Sends /\ failed' \subseteq Sends
    BY <1>1, <1>3, <1>5 DEF IInv, TypeOK
  <2> QED BY <1>2, <2>1 DEF IInv, TypeOK, MaxSize
<1>7. Phases'
  BY <1>2, <1>0 DEF IInv, Phases
<1>8. Arrived(f, pos[f]) \/ Send(f, "http") \in failed'
  BY <1>3 DEF IInv, InHand
<1>9. Unsent(f)' => Unsent(f)
  BY <1>2 DEF Unsent
<1> QED BY <1>0, <1>2, <1>3, <1>5, <1>6, <1>7, <1>8, <1>9, SameLine

LEMMA LateLostStep ==
    ASSUME IInv, NEW s \in late, LateLost(s) PROVE IInv'
<1> USE DEF LateLost
<1>1. TypeOK' /\ Phases'
  BY DEF IInv, TypeOK, Phases, MaxSize
<1>2. InHand' /\ StreamsSoFar' /\ LateOnes'
  BY DEF IInv, InHand, StreamsSoFar, LateOnes, Posted, Unsent, Send, Arrived
<1>3. LostForAReason'
  BY DEF IInv, LostForAReason, Arrived, FailedBothWays
<1>4. OvertakenOnlyIfLate'
  BY OrderSame DEF IInv
<1> QED BY <1>1, <1>2, <1>3, <1>4 DEF IInv

\* A line arrives over HTTP, in time or late.
LEMMA ArriveStep ==
    ASSUME IInv, NEW s \in Sends, s.way = "http", s.boot <= boot,
           arrived' = WithArrived(s), Phases',
           UNCHANGED <<boot, size, pos, phase, tries, failed>>,
           late' \subseteq late, s \notin late',
           answer' \in [Files -> {"none", "open", "taken", "refused"}],
           \A f \in Files : /\ Unsent(f)' => Unsent(f)
                            /\ answer'[f] = "taken" => answer[f] = "taken" \/
                                   /\ s.file = f /\ s.line = pos[f] /\ s.boot = boot,
           s.boot = boot => Posted(s.file, s.line)',
           \A x \in ToSet(arrived[<<s.file, s.boot, s.way>>]) :
               x < s.line \/ (s.line < x /\ s \in failed),
           \A t \in late' : t.file = s.file /\ t.boot = s.boot => t.line # s.line
    PROVE  IInv'
<1>0. TypeOK /\ boot' \in 1..MaxBoots /\ boot <= boot'
  BY DEF IInv, TypeOK
<1>1. TypeOK'
  BY ArrivedGrows DEF IInv, TypeOK, MaxSize
<1> DEFINE at == <<s.file, s.boot, s.way>>
<1>a. /\ at \in Streams
      /\ ToSet(arrived'[at]) = ToSet(arrived[at]) \cup {s.line}
      /\ \A st \in Streams : st # at => arrived'[st] = arrived[st]
      /\ \A st \in Streams : ToSet(arrived[st]) \subseteq ToSet(arrived'[st])
  BY <1>0, ArrivedGrows
<1>2. \A f \in Files : \A i : Arrived(f, i) => Arrived(f, i)'
  BY <1>0, ArrivedGrows, NothingForgotten
<1>3. Arrived(s.file, s.line)'
  <2>1. s.boot \in 1..boot' /\ s.way \in Ways /\ s.file \in Files
    BY <1>0 DEF Sends, TypeOK
  <2>2. s.line \in ToSet(arrived'[<<s.file, s.boot, s.way>>])
    BY <1>a
  <2> QED BY <2>1, <2>2 DEF Arrived
<1>4. InHand'
  BY <1>2, <1>3 DEF IInv, InHand, Send
<1>5. \A f \in Files : \A i : Posted(f, i) => Posted(f, i)'
  BY DEF Posted, Unsent
<1>6. StreamsSoFar'
  <2>1. ASSUME NEW f \in Files, NEW b \in 1..MaxBoots, NEW way \in Ways, b > boot
        PROVE  arrived'[<<f, b, way>>] = <<>>
    <3>1. <<f, b, way>> # <<s.file, s.boot, s.way>> /\ <<f, b, way>> \in Streams
      BY <1>0, <2>1 DEF Sends, Streams
    <3>2. arrived[<<f, b, way>>] = <<>>
      BY <2>1 DEF IInv, StreamsSoFar
    <3> HIDE DEF at
    <3> QED BY <1>a, <3>1, <3>2 DEF at
  <2>2. ASSUME NEW f \in Files
        PROVE  \A x \in ToSet(arrived'[<<f, boot, "http">>]) : Posted(f, x)'
    <3>1. <<f, boot, "http">> \in Streams
      BY <1>0 DEF Streams, Ways
    <3>2. CASE <<f, boot, "http">> = <<s.file, s.boot, s.way>>
      <4>1. f = s.file /\ boot = s.boot /\ s.way = "http"
        BY <3>2
      <4>2. ASSUME NEW x \in ToSet(arrived'[<<f, boot, "http">>]) PROVE Posted(f, x)'
        <5>1. x \in ToSet(arrived[<<f, boot, "http">>]) \/ x = s.line
          BY <1>a, <3>2
        <5>2. x \in ToSet(arrived[<<f, boot, "http">>]) => Posted(f, x)
          BY DEF IInv, StreamsSoFar
        <5>3. Posted(f, s.line)'
          BY <4>1
        <5> QED BY <1>5, <5>1, <5>2, <5>3
      <4> QED BY <4>2
    <3>3. CASE <<f, boot, "http">> # <<s.file, s.boot, s.way>>
      BY <1>0, <1>5, <3>1, <3>3, ArrivedGrows DEF IInv, StreamsSoFar
    <3> QED BY <3>2, <3>3
  <2>3. ASSUME NEW f \in Files
        PROVE  \A x \in ToSet(arrived'[<<f, boot, "kafka">>]) : x <= pos[f]
    <3>1. <<f, boot, "kafka">> \in Streams /\ <<f, boot, "kafka">> # <<s.file, s.boot, s.way>>
      BY <1>0 DEF Streams, Ways
    <3> QED BY <1>0, <3>1, ArrivedGrows DEF IInv, StreamsSoFar
  <2> QED BY <2>1, <2>2, <2>3 DEF StreamsSoFar
<1>7. LateOnes'
  <2>1. ASSUME NEW t \in late'
        PROVE  /\ t.way = "http" /\ t \in failed /\ t.boot <= boot
               /\ t.line \notin ToSet(arrived'[<<t.file, t.boot, t.way>>])
               /\ t.boot = boot => Posted(t.file, t.line)'
    <3>1. t \in late /\ t \in Sends /\ t.file \in Files /\ <<t.file, t.boot, t.way>> \in Streams
      BY DEF IInv, TypeOK, Sends, Streams
    <3>2. /\ t.way = "http" /\ t \in failed /\ t.boot <= boot
          /\ t.line \notin ToSet(arrived[<<t.file, t.boot, t.way>>])
          /\ t.boot = boot => Posted(t.file, t.line)
      BY <3>1 DEF IInv, LateOnes
    <3>3. CASE <<t.file, t.boot, t.way>> = <<s.file, s.boot, s.way>>
      <4>1. t.line # s.line
        BY <3>3
      <4>2. t.line \notin ToSet(arrived'[<<t.file, t.boot, t.way>>])
        BY <1>a, <3>2, <3>3, <4>1
      <4> QED BY <1>5, <3>1, <3>2, <4>2
    <3>4. CASE <<t.file, t.boot, t.way>> # <<s.file, s.boot, s.way>>
      BY <1>0, <1>5, <3>1, <3>2, <3>4, ArrivedGrows
    <3> QED BY <3>3, <3>4
  <2> QED BY <2>1 DEF LateOnes
<1>8. LostForAReason'
  <2>1. \A st \in Streams : ToSet(arrived[st]) \subseteq ToSet(arrived'[st])
    BY <1>0, ArrivedGrows
  <2> QED BY <2>1, LostStep DEF IInv
<1>9. OvertakenOnlyIfLate'
  BY <1>0, OrderGrows DEF IInv
<1> QED BY <1>1, <1>4, <1>6, <1>7, <1>8, <1>9 DEF IInv

LEMMA EnqueuedStep ==
    ASSUME IInv, NEW f \in Files, Enqueued(f) PROVE IInv'
<1>1. /\ TypeOK /\ phase[f] = "await" /\ answer[f] = "open" /\ Unsent(f)
      /\ boot \in Int /\ pos[f] \in Int
  BY DEF IInv, TypeOK, Phases, Enqueued, Unsent
<1>s. PICK s \in Sends : s = Send(f, "http")
  BY <1>1, SendTyped DEF Ways
<1>2. s.way = "http" /\ s.boot = boot /\ s.file = f /\ s.line = pos[f]
  BY <1>s DEF Send
<1>3. /\ arrived' = WithArrived(s) /\ late' = late
      /\ UNCHANGED <<boot, size, pos, phase, tries, failed>>
  BY <1>s DEF Enqueued
<1>4. /\ answer' \in [Files -> {"none", "open", "taken", "refused"}]
      /\ \A g \in Files : g # f => answer'[g] = answer[g]
      /\ answer'[f] = "taken"
  BY <1>1 DEF Enqueued, TypeOK
<1>5. Phases'
  BY <1>1, <1>3, <1>4 DEF IInv, Phases
<1>6. \A x \in ToSet(arrived[<<f, boot, "http">>]) : x < pos[f]
  BY <1>1 DEF IInv, StreamsSoFar, Posted
<1>7. ASSUME NEW t \in late, t.file = f, t.boot = boot PROVE t.line # pos[f]
  <2>1. t.line < pos[f]
    BY <1>1, <1>7 DEF IInv, LateOnes, Posted
  <2> QED BY <1>1, <2>1
<1>8. s \notin late
  BY <1>2, <1>7
<1>9. Posted(f, pos[f])' /\ \A g \in Files : Unsent(g)' => Unsent(g)
  BY <1>1, <1>3, <1>4 DEF Posted, Unsent
<1>10. s.boot <= boot
  BY <1>1, <1>2
<1>11. \A g \in Files : answer'[g] = "taken" => answer[g] = "taken" \/
           /\ s.file = g /\ s.line = pos[g] /\ s.boot = boot
  BY <1>2, <1>4
<1>12. Posted(s.file, s.line)'
  BY <1>2, <1>3, <1>9 DEF Posted, Unsent
<1>13. \A x \in ToSet(arrived[<<s.file, s.boot, s.way>>]) : x < s.line
  BY <1>2, <1>6
<1>14. \A t \in late' : t.file = s.file /\ t.boot = s.boot => t.line # s.line
  BY <1>2, <1>3, <1>7
<1> QED BY <1>2, <1>3, <1>4, <1>5, <1>8, <1>9, <1>10, <1>11, <1>12, <1>13, <1>14, ArriveStep

LEMMA LateEnqueuedStep ==
    ASSUME IInv, NEW s \in late, LateEnqueued(s) PROVE IInv'
<1>1. /\ TypeOK /\ s \in Sends /\ s.way = "http" /\ s \in failed /\ s.boot <= boot
      /\ s.line \notin ToSet(arrived[<<s.file, s.boot, s.way>>])
      /\ s.boot = boot => Posted(s.file, s.line)
  BY DEF IInv, TypeOK, LateOnes
<1>2. /\ arrived' = WithArrived(s) /\ late' = late \ {s}
      /\ UNCHANGED <<boot, size, pos, phase, answer, tries, failed>>
  BY DEF LateEnqueued
<1>3. /\ Phases' /\ \A f \in Files : Unsent(f)' => Unsent(f)
      /\ s.boot = boot => Posted(s.file, s.line)'
      /\ answer' \in [Files -> {"none", "open", "taken", "refused"}]
  BY <1>1, <1>2 DEF IInv, TypeOK, Phases, Posted, Unsent
<1>4. ASSUME NEW x \in ToSet(arrived[<<s.file, s.boot, s.way>>])
      PROVE  x < s.line \/ (s.line < x /\ s \in failed)
  <2>1. s.file \in Files /\ s.boot \in 1..MaxBoots /\ s.way \in Ways /\ s.line \in Int
    BY <1>1, LinesAreNumbers DEF Sends
  <2>2. x \in Int /\ x # s.line
    BY <1>1, <2>1, ElementsAreLines
  <2> QED BY <1>1, <2>1, <2>2
<1>5. ASSUME NEW t \in late', t.file = s.file, t.boot = s.boot, t.line = s.line PROVE FALSE
  <2>1. t \in Sends /\ t.way = "http" /\ t # s
    BY <1>2, <1>5 DEF IInv, TypeOK, LateOnes
  <2> QED BY <1>1, <1>5, <2>1 DEF Sends
<1> QED BY <1>1, <1>2, <1>3, <1>4, <1>5, ArriveStep

\* With the last attempt of WriteMessages the line in hand is done with.
LEMMA ProduceStep ==
    ASSUME IInv, NEW f \in Files, ProduceLog(f) PROVE IInv'
<1>0. /\ TypeOK /\ boot' = boot /\ boot \in 1..MaxBoots /\ boot \in Int
      /\ phase[f] = "produce" /\ pos[f] \in Int
  BY DEF IInv, TypeOK, ProduceLog
<1>s. PICK s \in Sends : s = Send(f, "kafka")
  BY <1>0, SendTyped DEF Ways
<1>1. s.way = "kafka" /\ s.boot = boot /\ s.file = f /\ s.line = pos[f]
  BY <1>s DEF Send
<1>2. /\ UNCHANGED <<boot, size, pos, answer, late>>
      /\ phase' \in [Files -> {"read", "send", "await", "produce"}]
      /\ phase'[f] \in {"read", "produce"}
      /\ \A g \in Files : g # f => phase'[g] = phase[g]
  BY <1>0 DEF ProduceLog, TypeOK
<1>3. tries' \in [Files -> 0..(MaxAttempts - 1)]
  <2>1. tries \in [Files -> 0..(MaxAttempts - 1)] /\ MaxAttempts \in Nat \ {0}
    BY <1>0 DEF TypeOK
  <2>2. CASE tries' = [tries EXCEPT ![f] = 0]
    BY <2>1, <2>2
  <2>3. CASE tries[f] + 1 < MaxAttempts /\ tries' = [tries EXCEPT ![f] = @ + 1]
    <3>1. tries[f] + 1 \in 0..(MaxAttempts - 1)
      BY <2>1, <2>3
    <3> QED BY <2>1, <2>3, <3>1
  <2> QED BY <2>2, <2>3 DEF ProduceLog
<1>4. \/ arrived' = WithArrived(s) /\ failed' = failed
      \/ arrived' = arrived /\ failed' = failed \cup {s}
  BY <1>s DEF ProduceLog
<1>5. /\ arrived' \in [Streams -> Seq(LineNumbers)]
      /\ failed \subseteq failed' /\ failed' \subseteq Sends
      /\ \A st \in Streams : ToSet(arrived[st]) \subseteq ToSet(arrived'[st])
      /\ \A st \in Streams : st # <<f, boot, "kafka">> => arrived'[st] = arrived[st]
      /\ ToSet(arrived'[<<f, boot, "kafka">>]) \subseteq
             ToSet(arrived[<<f, boot, "kafka">>]) \cup {pos[f]}
      /\ pos[f] \in ToSet(arrived'[<<f, boot, "kafka">>]) \/ s \in failed'
  <2>1. CASE arrived' = WithArrived(s) /\ failed' = failed
    <3>1. <<s.file, s.boot, s.way>> = <<f, boot, "kafka">>
      BY <1>1
    <3>2. /\ arrived' \in [Streams -> Seq(LineNumbers)]
          /\ \A st \in Streams : ToSet(arrived[st]) \subseteq ToSet(arrived'[st])
          /\ \A st \in Streams :
                 st # <<s.file, s.boot, s.way>> => arrived'[st] = arrived[st]
          /\ ToSet(arrived'[<<s.file, s.boot, s.way>>]) =
                 ToSet(arrived[<<s.file, s.boot, s.way>>]) \cup {s.line}
      BY <1>0, <2>1, ArrivedGrows
    <3>3. failed \subseteq failed' /\ failed' \subseteq Sends
      BY <1>0, <2>1 DEF TypeOK
    <3> QED BY <1>1, <3>1, <3>2, <3>3
  <2>2. CASE arrived' = arrived /\ failed' = failed \cup {s}
    BY <1>0, <1>1, <2>2 DEF TypeOK
  <2> QED BY <1>4, <2>1, <2>2
<1>6. TypeOK' /\ Phases'
  BY <1>0, <1>2, <1>3, <1>5 DEF IInv, TypeOK, Phases, MaxSize
<1>7. \A g \in Files : \A i : Arrived(g, i) => Arrived(g, i)'
  <2>1. boot <= boot' /\ boot' \in 1..MaxBoots
    BY <1>0
  <2> QED BY <1>0, <1>5, <2>1, NothingForgotten
<1>8. InHand'
  BY <1>0, <1>2, <1>5, <1>7 DEF IInv, InHand, Send
<1>9. \A g \in Files : \A i : Posted(g, i) => Posted(g, i)'
  BY <1>2 DEF Posted, Unsent
<1>10. StreamsSoFar'
  <2>1. ASSUME NEW g \in Files, NEW b \in 1..MaxBoots, NEW way \in Ways, b > boot
        PROVE  arrived'[<<g, b, way>>] = <<>>
    <3>1. <<g, b, way>> \in Streams /\ <<g, b, way>> # <<f, boot, "kafka">>
      BY <1>0, <2>1 DEF Streams
    <3> QED BY <1>5, <2>1, <3>1 DEF IInv, StreamsSoFar
  <2>2. ASSUME NEW g \in Files
        PROVE  \A x \in ToSet(arrived'[<<g, boot, "http">>]) : Posted(g, x)'
    <3>1. <<g, boot, "http">> \in Streams /\ <<g, boot, "http">> # <<f, boot, "kafka">>
      BY <1>0 DEF Streams, Ways
    <3> QED BY <1>5, <1>9, <3>1 DEF IInv, StreamsSoFar
  <2>3. ASSUME NEW g \in Files
        PROVE  \A x \in ToSet(arrived'[<<g, boot, "kafka">>]) : x <= pos[g]
    <3>1. \A x \in ToSet(arrived[<<g, boot, "kafka">>]) : x <= pos[g]
      BY DEF IInv, StreamsSoFar
    <3>2. <<g, boot, "kafka">> \in Streams
      BY <1>0 DEF Streams, Ways
    <3>3. CASE g = f
      <4>1. \A x \in ToSet(arrived'[<<f, boot, "kafka">>]) :
                x \in ToSet(arrived[<<f, boot, "kafka">>]) \/ x = pos[f]
        BY <1>5
      <4>2. \A x \in ToSet(arrived[<<f, boot, "kafka">>]) : x <= pos[f]
        BY <3>1, <3>3
      <4>3. pos[f] <= pos[f]
        BY <1>0
      <4>4. \A x \in ToSet(arrived'[<<f, boot, "kafka">>]) : x <= pos[f]
        BY <4>1, <4>2, <4>3
      <4> QED BY <3>3, <4>4
    <3>4. CASE g # f
      <4>1. <<g, boot, "kafka">> # <<f, boot, "kafka">>
        BY <3>4
      <4> QED BY <1>5, <3>1, <3>2, <4>1
    <3> QED BY <3>3, <3>4
  <2> QED BY <1>2, <2>1, <2>2, <2>3 DEF StreamsSoFar
<1>11. LateOnes'
  <2>1. ASSUME NEW t \in late
        PROVE  /\ t.way = "http" /\ t \in failed' /\ t.boot <= boot
               /\ t.line \notin ToSet(arrived'[<<t.file, t.boot, t.way>>])
               /\ t.boot = boot => Posted(t.file, t.line)'
    <3>1. /\ t.way = "http" /\ t.file \in Files /\ <<t.file, t.boot, t.way>> \in Streams
          /\ <<t.file, t.boot, t.way>> # <<f, boot, "kafka">>
      BY DEF IInv, TypeOK, LateOnes, Sends, Streams
    <3> QED BY <1>5, <1>9, <3>1 DEF IInv, LateOnes
  <2> QED BY <1>2, <2>1 DEF LateOnes
<1>12. phase'[f] = "read" => Arrived(f, pos[f])' \/ FailedBothWays(f, pos[f])'
  <2>1. CASE pos[f] \in ToSet(arrived'[<<f, boot, "kafka">>])
    <3>1. boot \in 1..boot' /\ "kafka" \in Ways /\ pos'[f] = pos[f]
      BY <1>0, <1>2 DEF Ways
    <3> QED BY <2>1, <3>1 DEF Arrived
  <2>2. CASE s \in failed' /\ Arrived(f, pos[f])
    BY <1>2, <1>7, <2>2
  <2>3. CASE s \in failed' /\ Send(f, "http") \in failed
    <3>1. \A way \in Ways :
              [file |-> f, line |-> pos[f], boot |-> boot, way |-> way] \in failed'
      BY <1>5, <1>s, <2>3 DEF Ways, Send
    <3>2. boot \in 1..boot'
      BY <1>0
    <3> QED BY <1>2, <3>1, <3>2 DEF FailedBothWays
  <2> QED BY <1>0, <1>5, <2>1, <2>2, <2>3 DEF IInv, InHand
<1>13. LostForAReason'
  <2>1. ASSUME NEW g \in Files, NEW i \in 1..pos'[g],
               i < pos'[g] \/ phase'[g] = "read"
        PROVE  \/ i \in 1..pos[g] /\ (i < pos[g] \/ phase[g] = "read")
               \/ Arrived(g, i)' \/ FailedBothWays(g, i)'
    <3>1. CASE g = f /\ i = pos[f]
      BY <1>0, <1>2, <1>12, <2>1, <3>1
    <3>2. CASE g # f \/ i # pos[f]
      <4>1. i \in 1..pos[g]
        BY <1>2
      <4>2. pos[g] \in Int
        BY <1>0 DEF TypeOK
      <4> QED BY <1>2, <2>1, <3>2, <4>1, <4>2
    <3> QED BY <3>1, <3>2
  <2> QED BY <1>0, <1>5, <2>1, LostStep DEF IInv
<1>14. OvertakenOnlyIfLate'
  <2>1. CASE arrived' = WithArrived(s) /\ failed' = failed
    <3>1. ASSUME NEW x \in ToSet(arrived[<<s.file, s.boot, s.way>>])
          PROVE  x < s.line \/ (s.way = "kafka" /\ x = s.line)
      <4>1. x \in ToSet(arrived[<<f, boot, "kafka">>])
        BY <1>1
      <4>2. x \in Int
        BY <1>0, <4>1, ElementsAreLines DEF Ways
      <4>3. x <= pos[f]
        BY <4>1 DEF IInv, StreamsSoFar
      <4> QED BY <1>0, <1>1, <4>2, <4>3
    <3> QED BY <1>0, <1>1, <2>1, <3>1, OrderGrows DEF IInv
  <2>2. CASE arrived' = arrived /\ failed' = failed \cup {s}
    BY <2>2, OrderSame DEF IInv
  <2> QED BY <1>4, <2>1, <2>2
<1> QED BY <1>6, <1>8, <1>10, <1>11, <1>13, <1>14 DEF IInv

\* An agent that starts again knows nothing; what it had sent may still arrive.
LEMMA RestartStep ==
    ASSUME IInv, Restart PROVE IInv'
<1> DEFINE given == UNION {Abandoned(f) : f \in Files}
<1>0. /\ TypeOK /\ boot \in 1..MaxBoots /\ boot' = boot + 1 /\ boot' \in 1..MaxBoots
      /\ late' = late \cup given /\ failed' = failed \cup given
      /\ UNCHANGED <<size, arrived>>
      /\ pos' = [f \in Files |-> 0] /\ phase' = [f \in Files |-> "read"]
      /\ answer' = [f \in Files |-> "none"] /\ tries' = [f \in Files |-> 0]
  BY DEF IInv, TypeOK, Restart
<1>1. ASSUME NEW s \in given
      PROVE  /\ s \in Sends /\ s.way = "http" /\ s.boot = boot
             /\ s.line \notin ToSet(arrived[<<s.file, s.boot, s.way>>])
  <2>1. PICK f \in Files : s \in Abandoned(f)
    OBVIOUS
  <2>2. answer[f] = "open" /\ s = Send(f, "http") /\ phase[f] # "read"
    BY <2>1 DEF Abandoned, IInv, Phases
  <2>3. s \in Sends /\ pos[f] \in Int
    BY <1>0, <2>2, SendTyped DEF Ways, TypeOK
  <2>4. s.way = "http" /\ s.boot = boot /\ s.file = f /\ s.line = pos[f]
    BY <2>2 DEF Send
  <2>5. \A x \in ToSet(arrived[<<f, boot, "http">>]) : x < pos[f]
    BY <2>2 DEF IInv, StreamsSoFar, Posted, Unsent
  <2>6. pos[f] \notin ToSet(arrived[<<f, boot, "http">>])
    <3> SUFFICES ASSUME pos[f] \in ToSet(arrived[<<f, boot, "http">>]) PROVE FALSE
      OBVIOUS
    <3>1. pos[f] < pos[f]
      BY <2>5
    <3> QED BY <2>3, <3>1
  <2> QED BY <2>3, <2>4, <2>6
<1> HIDE DEF given
<1>2. TypeOK'
  <2>1. late' \subseteq Sends /\ failed' \subseteq Sends
    BY <1>0, <1>1 DEF TypeOK
  <2>2. \A f \in Files : 0 <= size[f] /\ size[f] <= MaxSize(f)
    BY <1>0 DEF TypeOK
  <2> QED BY <1>0, <2>1, <2>2 DEF TypeOK, MaxSize
<1>3. Phases' /\ InHand'
  BY <1>0 DEF Phases, InHand
<1>4. StreamsSoFar'
  <2>1. \A f \in Files : \A b \in 1..MaxBoots : \A way \in Ways :
            b > boot => arrived[<<f, b, way>>] = <<>>
    BY DEF IInv, StreamsSoFar
  <2>2. \A f \in Files : \A b \in 1..MaxBoots : \A way \in Ways :
            b >= boot + 1 => arrived[<<f, b, way>>] = <<>>
    BY <1>0, <2>1
  <2>3. ToSet(<<>>) = {}
    BY DEF ToSet
  <2>4. \A f \in Files : \A way \in Ways : ToSet(arrived[<<f, boot + 1, way>>]) = {}
    <3>1. boot + 1 \in 1..MaxBoots /\ boot + 1 >= boot + 1
      BY <1>0
    <3> QED BY <2>2, <2>3, <3>1
  <2>5. \A b \in 1..MaxBoots : b > boot' => b >= boot + 1
    BY <1>0
  <2> QED BY <1>0, <2>2, <2>4, <2>5 DEF StreamsSoFar, Ways
<1>5. LateOnes'
  <2>1. ASSUME NEW s \in late'
        PROVE  /\ s.way = "http" /\ s \in failed' /\ s.boot <= boot
               /\ s.line \notin ToSet(arrived[<<s.file, s.boot, s.way>>])
               /\ s.boot \in Int
    <3>1. CASE s \in late
      BY <1>0, <3>1 DEF IInv, TypeOK, LateOnes, Sends
    <3>2. CASE s \in given
      BY <1>0, <1>1, <3>2
    <3> QED BY <1>0, <2>1, <3>1, <3>2
  <2>2. ASSUME NEW s \in late' PROVE s.boot <= boot' /\ s.boot # boot'
    <3>1. s.boot <= boot /\ s.boot \in Int
      BY <2>1
    <3> QED BY <1>0, <3>1
  <2> QED BY <1>0, <2>1, <2>2 DEF LateOnes
<1>6. LostForAReason'
  BY <1>0 DEF LostForAReason
<1>7. OvertakenOnlyIfLate'
  BY <1>0, OrderSame DEF IInv
<1> QED BY <1>2, <1>3, <1>4, <1>5, <1>6, <1>7 DEF IInv

LEMMA AgentStep == IInv /\ [Next]_vars => IInv'
<1> SUFFICES ASSUME IInv, [Next]_vars PROVE IInv'
  OBVIOUS
<1>1. CASE UNCHANGED vars
  <2>1. TypeOK' /\ Phases' /\ InHand' /\ StreamsSoFar' /\ LateOnes'
    BY <1>1 DEF vars, IInv, TypeOK, Phases, InHand, StreamsSoFar, LateOnes, Posted, Unsent,
                Send, Arrived, MaxSize
  <2>2. LostForAReason'
    BY <1>1 DEF vars, IInv, LostForAReason, Arrived, FailedBothWays
  <2>3. OvertakenOnlyIfLate'
    BY <1>1, OrderSame DEF vars, IInv
  <2> QED BY <2>1, <2>2, <2>3 DEF IInv
<1>2. ASSUME NEW f \in Files, WriteLine(f) \/ Monitor(f) \/ Enqueued(f) \/ Refused(f)
      PROVE  IInv'
  BY <1>2, WriteStep, ReadStep, SendStep, AnsweredStep, ProduceStep, EnqueuedStep DEF Monitor
<1>3. ASSUME NEW s \in late, LateEnqueued(s) \/ LateLost(s)
      PROVE  IInv'
  BY <1>3, LateEnqueuedStep, LateLostStep
<1> QED BY <1>1, <1>2, <1>3, RestartStep DEF Next, Service
-----------------------------------------------------------------------------
\* The agent has its types in every reachable state.
THEOREM AgentTyped == Spec => []TypeOK
<1>1. IInv => TypeOK
  BY DEF IInv
<1> QED BY <1>1, AgentInit, AgentStep, PTL DEF Spec

\* A line that the agent is done with arrived, or failed over HTTP and to Kafka in
\* one and the same run of the agent.
THEOREM LinesAreTriedBothWays == Spec => []LostForAReason
<1>1. IInv => LostForAReason
  BY DEF IInv
<1> QED BY <1>1, AgentInit, AgentStep, PTL DEF Spec

\* The lines of a file arrive in order on each way, except for requests that the
\* agent gave up, each of which arrives at most once.
THEOREM OnlyLateOnesAreOvertaken == Spec => []OvertakenOnlyIfLate
<1>1. IInv => OvertakenOnlyIfLate
  BY DEF IInv
<1> QED BY <1>1, AgentInit, AgentStep, PTL DEF Spec
=============================================================================
