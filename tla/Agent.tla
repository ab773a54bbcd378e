------------------------------- MODULE Agent -------------------------------
(***************************************************************************)
(* The log agent: one goroutine per log file follows the file and sends    *)
(* each line that its parser accepts over HTTP and then to Kafka.  Errors  *)
(* are printed; no position is kept, so that an agent that is started      *)
(* again begins with the first line of every file.                         *)
(*                                                                         *)
(* The HTTP client gives up after five seconds.  The handler of the        *)
(* service does not notice: it stays in EnqueueLog until the channel has   *)
(* room and its event is taken late.                                       *)
(***************************************************************************)
EXTENDS Integers, Sequences, SequencesExt

CONSTANTS
    Files,        \* the files that are followed, one goroutine each
    Log,          \* Log[f]: the lines ever written to f: an event for the parser, or not
    MaxAttempts,  \* Writer.MaxAttempts of kafka-go
    MaxBoots      \* bound on the starts of the agent

ASSUME LogAssumption == Log \in [Files -> Seq({"event", "other"})]
ASSUME BoundAssumption == MaxAttempts \in Nat \ {0} /\ MaxBoots \in Nat \ {0}

VARIABLES
    boot,     \* how often the agent was started
    size,     \* size[f]: lines in the file
    pos,      \* pos[f]: lines that this agent took from the file
    phase,    \* phase[f]: where the goroutine of f is
    answer,   \* answer[f]: what the service did with the request that f waits for
    tries,    \* tries[f]: attempts of WriteMessages so far
    late,     \* requests that nobody waits for any more and the service still has
    arrived,  \* history: the lines that reached the service's channel and the topic,
              \* in order, for each file, start of the agent and way
    failed    \* history: sends that failed, or that the agent gave up

vars == <<boot, size, pos, phase, answer, tries, late, arrived, failed>>

MaxSize(f) == Len(Log[f])
LineNumbers == UNION {1..MaxSize(f) : f \in Files}
Ways == {"http", "kafka"}
Sends == [file : Files, line : LineNumbers, boot : 1..MaxBoots, way : Ways]
Streams == Files \X (1..MaxBoots) \X Ways

\* What f is sending, one way.
Send(f, way) == [file |-> f, line |-> pos[f], boot |-> boot, way |-> way]

TypeOK ==
    /\ boot \in 1..MaxBoots
    /\ size \in [Files -> Nat] /\ pos \in [Files -> Nat]
    /\ \A f \in Files : pos[f] <= size[f] /\ size[f] <= MaxSize(f)
    /\ phase \in [Files -> {"read", "send", "await", "produce"}]
    /\ answer \in [Files -> {"none", "open", "taken", "refused"}]
    /\ tries \in [Files -> 0..(MaxAttempts - 1)]
    /\ late \subseteq Sends
    /\ arrived \in [Streams -> Seq(LineNumbers)]
    /\ failed \subseteq Sends

Init ==
    /\ boot = 1
    /\ size = [f \in Files |-> 0] /\ pos = [f \in Files |-> 0]
    /\ phase = [f \in Files |-> "read"] /\ answer = [f \in Files |-> "none"]
    /\ tries = [f \in Files |-> 0]
    /\ late = {} /\ arrived = [s \in Streams |-> <<>>] /\ failed = {}

\* arrived once the line of s has arrived.
WithArrived(s) ==
    [arrived EXCEPT ![<<s.file, s.boot, s.way>>] = Append(@, s.line)]

\* The request of f if the service still has it.
Abandoned(f) == IF answer[f] = "open" THEN {Send(f, "http")} ELSE {}

-----------------------------------------------------------------------------
(* Plausible mistakes, not part of Next.                                    *)

\* An error of the HTTP send goes on with the next line.
AnsweredOrSkipped(f) ==
    /\ phase[f] = "await" /\ answer[f] \in {"taken", "refused"}
    /\ answer' = [answer EXCEPT ![f] = "none"]
    /\ IF answer[f] = "refused"
       THEN /\ failed' = failed \cup {Send(f, "http")}
            /\ phase' = [phase EXCEPT ![f] = "read"]
       ELSE /\ phase' = [phase EXCEPT ![f] = "produce"] /\ UNCHANGED failed
    /\ UNCHANGED <<boot, size, pos, tries, late, arrived>>

\* A request that timed out is sent again.
GiveUpRetried(f) ==
    /\ phase[f] = "await"
    /\ phase' = [phase EXCEPT ![f] = "send"] /\ answer' = [answer EXCEPT ![f] = "none"]
    /\ late' = late \cup Abandoned(f)
    /\ failed' = failed \cup {Send(f, "http")}
    /\ UNCHANGED <<boot, size, pos, tries, arrived>>

\* A client without a timeout.
GiveUpIfAnswered(f) ==
    /\ phase[f] = "await" /\ answer[f] # "open"
    /\ phase' = [phase EXCEPT ![f] = "produce"] /\ answer' = [answer EXCEPT ![f] = "none"]
    /\ failed' = failed \cup {Send(f, "http")}
    /\ UNCHANGED <<boot, size, pos, tries, late, arrived>>

\* A writer that never stops trying.
ProduceForever(f) ==
    /\ phase[f] = "produce"
    /\ \/ arrived' = WithArrived(Send(f, "kafka")) /\ UNCHANGED failed
       \/ failed' = failed \cup {Send(f, "kafka")} /\ UNCHANGED arrived
    /\ \/ phase' = [phase EXCEPT ![f] = "read"] /\ tries' = [tries EXCEPT ![f] = 0]
       \/ tries[f] < MaxAttempts /\ tries' = [tries EXCEPT ![f] = @ + 1] /\ UNCHANGED phase
    /\ UNCHANGED <<boot, size, pos, answer, late>>

-----------------------------------------------------------------------------
\* The program that is watched writes a line.
WriteLine(f) ==
    /\ size[f] < MaxSize(f)
    /\ size' = [size EXCEPT ![f] = @ + 1]
    /\ UNCHANGED <<boot, pos, phase, answer, tries, late, arrived, failed>>

(* monitorAuthLogs and monitorNginxLogs.                                    *)

\* A line that the parser does not accept is passed over.
ReadLine(f) ==
    /\ phase[f] = "read" /\ pos[f] < size[f]
    /\ pos' = [pos EXCEPT ![f] = @ + 1]
    /\ phase' = [phase EXCEPT ![f] = IF Log[f][pos[f] + 1] = "event" THEN "send" ELSE "read"]
    /\ UNCHANGED <<boot, size, answer, tries, late, arrived, failed>>

SendLog(f) ==
    /\ phase[f] = "send"
    /\ phase' = [phase EXCEPT ![f] = "await"] /\ answer' = [answer EXCEPT ![f] = "open"]
    /\ UNCHANGED <<boot, size, pos, tries, late, arrived, failed>>

\* 202, or any other status, which is an error.  Either way Kafka is next.
Answered(f) ==
    /\ phase[f] = "await" /\ answer[f] \in {"taken", "refused"}
    /\ failed' = IF answer[f] = "refused" THEN failed \cup {Send(f, "http")} ELSE failed
    /\ phase' = [phase EXCEPT ![f] = "produce"] /\ answer' = [answer EXCEPT ![f] = "none"]
    /\ UNCHANGED <<boot, size, pos, tries, late, arrived>>

\* client.Do returns an error: the timeout, or a connection that broke before the
\* answer came back.  The request may have been taken, or may still be.
GiveUp(f) ==
    /\ phase[f] = "await"
    /\ phase' = [phase EXCEPT ![f] = "produce"] /\ answer' = [answer EXCEPT ![f] = "none"]
    /\ late' = late \cup Abandoned(f)
    /\ failed' = failed \cup {Send(f, "http")}
    /\ UNCHANGED <<boot, size, pos, tries, arrived>>

\* One attempt of WriteMessages.  The writer asks for no acknowledgement, so that a
\* message may be lost without an error and an attempt that failed may have written
\* it.  After an error there is another attempt, or ProduceLog returns the error.
ProduceLog(f) ==
    /\ phase[f] = "produce"
    /\ \/ arrived' = WithArrived(Send(f, "kafka")) /\ UNCHANGED failed
       \/ failed' = failed \cup {Send(f, "kafka")} /\ UNCHANGED arrived
    /\ \/ phase' = [phase EXCEPT ![f] = "read"] /\ tries' = [tries EXCEPT ![f] = 0]
       \/ /\ tries[f] + 1 < MaxAttempts
          /\ tries' = [tries EXCEPT ![f] = @ + 1] /\ UNCHANGED phase
    /\ UNCHANGED <<boot, size, pos, answer, late>>

(* The service: IngestLog puts the event into the channel, however long that *)
(* takes; or the request is turned away, or never gets there.                *)

Enqueued(f) ==
    /\ answer[f] = "open"
    /\ arrived' = WithArrived(Send(f, "http"))
    /\ answer' = [answer EXCEPT ![f] = "taken"]
    /\ UNCHANGED <<boot, size, pos, phase, tries, late, failed>>

Refused(f) ==
    /\ answer[f] = "open"
    /\ answer' = [answer EXCEPT ![f] = "refused"]
    /\ UNCHANGED <<boot, size, pos, phase, tries, late, arrived, failed>>

LateEnqueued(s) ==
    /\ s \in late
    /\ arrived' = WithArrived(s) /\ late' = late \ {s}
    /\ UNCHANGED <<boot, size, pos, phase, answer, tries, failed>>

LateLost(s) ==
    /\ s \in late
    /\ late' = late \ {s}
    /\ UNCHANGED <<boot, size, pos, phase, answer, tries, arrived, failed>>

\* The agent ends and is started again.  TailFile is given no Location: it begins
\* with the first line of the file.
Restart ==
    /\ boot < MaxBoots /\ boot' = boot + 1
    /\ pos' = [f \in Files |-> 0] /\ phase' = [f \in Files |-> "read"]
    /\ answer' = [f \in Files |-> "none"] /\ tries' = [f \in Files |-> 0]
    /\ late' = late \cup UNION {Abandoned(f) : f \in Files}
    /\ failed' = failed \cup UNION {Abandoned(f) : f \in Files}
    /\ UNCHANGED <<size, arrived>>

-----------------------------------------------------------------------------
Monitor(f) == ReadLine(f) \/ SendLog(f) \/ Answered(f) \/ GiveUp(f) \/ ProduceLog(f)

Service ==
    \/ \E f \in Files : Enqueued(f) \/ Refused(f)
    \/ \E s \in late : LateEnqueued(s) \/ LateLost(s)

Next == Restart \/ Service \/ \E f \in Files : WriteLine(f) \/ Monitor(f)

Spec == Init /\ [][Next]_vars

\* The goroutines keep running; client.Do returns after its timeout, WriteMessages
\* after the deadlines of its attempts.  Nothing is assumed of the service.
FairSpec == Spec /\ \A f \in Files : WF_vars(Monitor(f))

-----------------------------------------------------------------------------
Arrived(f, i) ==
    \E b \in 1..boot : \E way \in Ways : i \in ToSet(arrived[<<f, b, way>>])

\* Sending the line failed both ways, in one run of the agent.
FailedBothWays(f, i) ==
    \E b \in 1..boot : \A way \in Ways :
        [file |-> f, line |-> i, boot |-> b, way |-> way] \in failed

\* A line the agent is done with arrived or failed both ways in one run: an error of
\* the first way does not keep the line from the second.
LostForAReason ==
    \A f \in Files : \A i \in 1..pos[f] :
        Log[f][i] = "event" /\ (i < pos[f] \/ phase[f] = "read") =>
            Arrived(f, i) \/ FailedBothWays(f, i)

\* In one run of the agent the lines of a file arrive in their order, each once over
\* HTTP, although it goes on while the service may still take requests it gave up:
\* only such a request is overtaken.  The topic may have a line twice in a row.
OvertakenOnlyIfLate ==
    \A f \in Files : \A b \in 1..MaxBoots : \A way \in Ways :
        LET lines == arrived[<<f, b, way>>] IN
        \A k \in 1..Len(lines) : \A j \in 1..(k - 1) :
            \/ lines[j] < lines[k]
            \/ way = "kafka" /\ lines[j] = lines[k]
            \/ /\ way = "http" /\ lines[k] < lines[j]
               /\ [file |-> f, line |-> lines[k], boot |-> b, way |-> way] \in failed

\* Every line that the parser accepts is sent until it arrives or has failed both
\* ways, even if the service never answers again.
EveryLineIsTried ==
    \A f \in Files : \A i \in {n \in 1..MaxSize(f) : Log[f][n] = "event"} :
        size[f] >= i ~> Arrived(f, i) \/ FailedBothWays(f, i)
=============================================================================
