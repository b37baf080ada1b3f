---------------------------- MODULE FunctionTop ----------------------------
(***************************************************************************)
(* kubeless function top (cmd/kubeless/function/top.go): one goroutine per *)
(* function scrapes its metrics and sends them on a buffered channel; the  *)
(* command collects them until all have arrived or a timer expires, and    *)
(* prints them.  pkg/utils/metrics.go turns a scrape into rows.            *)
(*                                                                         *)
(* A scrape fails, cannot be parsed, or holds for each of the three        *)
(* metrics of interest a map from methods to values; it may take for ever. *)
(* The rows of a function are a set: a map is iterated in any order and    *)
(* the rows are sorted by function alone.  Time is counted in ticks, and   *)
(* the command reacts to a result within the tick.                         *)
(***************************************************************************)
EXTENDS Integers, Sequences, FiniteSets

CONSTANTS
    Functions,  \* names of functions
    Scrapes,    \* answers of a metrics endpoint: maps by metric
    Timeout     \* ticks of the timer (five seconds)

ASSUME TopAssumption == Timeout \in Nat \ {0} /\ IsFiniteSet(Functions)

VARIABLES
    listed,   \* the functions to report on
    pc,       \* "list", "wait", "done" (printed) or "error"
    gor,      \* each function's goroutine: "none", "scrape", "send", "ended"
    result,   \* the rows it has to send
    at,       \* when it had them, 0 if not yet
    ch,       \* the channel
    i,        \* results counted
    metrics,  \* rows collected
    now,      \* the clock
    timer     \* when the timer of the current select expires

vars == <<listed, pc, gor, result, at, ch, i, metrics, now, timer>>

Init ==
    /\ listed = {} /\ pc = "list" /\ i = 0 /\ metrics = {} /\ ch = <<>>
    /\ gor = [f \in Functions |-> "none"]
    /\ result = [f \in Functions |-> {}]
    /\ at = [f \in Functions |-> 0]
    /\ now = 1 /\ timer = 1

-----------------------------------------------------------------------------
(* The rows of one function.                                               *)

Metric(f, method) ==
    [function |-> f, method |-> method, message |-> "", dur |-> 0, calls |-> 0, fails |-> 0, avg |-> <<>>]

\* Mutant: the calls are read before the durations they divide.
metricsOfInterestCallsFirst == <<"calls", "dur", "fails">>

metricsOfInterest == <<"dur", "calls", "fails">>

\* Reading metric m of a scrape into row r; the average is a fraction.
Read(r, m, value) ==
    CASE m = "fails" -> [r EXCEPT !.fails = value]
      [] m = "dur" -> [r EXCEPT !.dur = value]
      [] m = "calls" -> [r EXCEPT !.calls = value, !.avg = IF value > 0 THEN <<r.dur, value>> ELSE @]

\* Metric m of the scrape is read into the rows collected so far, one for each method.
Family(f, raw, tmp, m) ==
    [k \in DOMAIN tmp \union DOMAIN raw[m] |->
        LET r == IF k \in DOMAIN tmp THEN tmp[k] ELSE Metric(f, k)
        IN  IF k \in DOMAIN raw[m] THEN Read(r, m, raw[m][k]) ELSE r]

\* The three metrics in turn; a function nobody called yet has one empty row.
parseMetrics(f, raw) ==
    LET first == Family(f, raw, [k \in {} |-> 0], metricsOfInterest[1])
        second == Family(f, raw, first, metricsOfInterest[2])
        tmp == Family(f, raw, second, metricsOfInterest[3])
    IN  IF DOMAIN tmp = {} THEN {Metric(f, "")} ELSE {tmp[k] : k \in DOMAIN tmp}

Message(f, text) == {[Metric(f, "") EXCEPT !.message = text]}

\* What GetFunctionMetrics may return: the scrape failed, did not parse, or
\* was read.
GetFunctionMetrics(f) ==
    {Message(f, "Function does not expose metrics"), Message(f, "Unable to get function metrics")}
        \union {parseMetrics(f, raw) : raw \in Scrapes}

-----------------------------------------------------------------------------
(* doTop.                                                                  *)

\* Mutant: room for one result.
CapacityOne == 1

\* make(chan []*utils.Metric, len(functions))
Capacity == Cardinality(listed)

\* Mutant: the last function is not waited for.
LastResultEarly == i >= Cardinality(listed) - 1

\* The loop's condition.
LastResult == i >= Cardinality(listed)

\* getFunctions fails, or lists the functions; a goroutine starts for each.
ListFails ==
    /\ pc = "list"
    /\ pc' = "error"
    /\ UNCHANGED <<listed, gor, result, at, ch, i, metrics, now, timer>>

Lists(fs) ==
    /\ pc = "list"
    /\ listed' = fs
    /\ gor' = [f \in Functions |-> IF f \in fs THEN "scrape" ELSE "none"]
    /\ pc' = "wait"
    /\ timer' = now + Timeout
    /\ UNCHANGED <<result, at, ch, i, metrics, now>>

\* The goroutine of f has its rows...
Scraped(f) ==
    /\ gor[f] = "scrape"
    /\ \E rows \in GetFunctionMetrics(f) : result' = [result EXCEPT ![f] = rows]
    /\ at' = [at EXCEPT ![f] = now]
    /\ gor' = [gor EXCEPT ![f] = "send"]
    /\ UNCHANGED <<listed, pc, ch, i, metrics, now, timer>>

\* ... and sends them, if the channel has room.
Sends(f) ==
    /\ gor[f] = "send"
    /\ Len(ch) < Capacity
    /\ ch' = Append(ch, result[f])
    /\ gor' = [gor EXCEPT ![f] = "ended"]
    /\ UNCHANGED <<listed, pc, result, at, i, metrics, now, timer>>

\* Mutant: the new timer allows for all functions anew.
ReceivesLateTimer ==
    /\ pc = "wait" /\ ~LastResult /\ ch # <<>>
    /\ metrics' = metrics \union Head(ch)
    /\ ch' = Tail(ch)
    /\ i' = i + 1
    /\ timer' = now + Timeout * (Cardinality(listed) + 1)
    /\ UNCHANGED <<listed, pc, gor, result, at, now>>

\* A result is collected; the next select makes a new timer.
Receives ==
    /\ pc = "wait" /\ ~LastResult /\ ch # <<>>
    /\ metrics' = metrics \union Head(ch)
    /\ ch' = Tail(ch)
    /\ i' = i + 1
    /\ timer' = now + Timeout
    /\ UNCHANGED <<listed, pc, gor, result, at, now>>

\* Mutant: the select goes on waiting.
ExpiresAndWaits ==
    /\ pc = "wait" /\ ~LastResult /\ now = timer
    /\ timer' = now
    /\ UNCHANGED <<listed, pc, gor, result, at, ch, i, metrics, now>>

\* The timer expired, perhaps together with a result; it ends the loop.
Expires ==
    /\ pc = "wait" /\ ~LastResult /\ now = timer
    /\ i' = Cardinality(listed)
    /\ UNCHANGED <<listed, pc, gor, result, at, ch, metrics, now, timer>>

Prints ==
    /\ pc = "wait" /\ LastResult
    /\ pc' = "done"
    /\ UNCHANGED <<listed, gor, result, at, ch, i, metrics, now, timer>>

\* External: time passes while the command has nothing to react to.
Tick ==
    /\ pc = "wait" /\ ~LastResult /\ now < timer /\ ch = <<>>
    /\ \A f \in listed : gor[f] # "send"
    /\ now' = now + 1
    /\ UNCHANGED <<listed, pc, gor, result, at, ch, i, metrics, timer>>

doTop == Receives \/ Expires \/ Prints

Next ==
    \/ ListFails
    \/ \E fs \in SUBSET Functions : Lists(fs)
    \/ \E f \in Functions : Scraped(f) \/ Sends(f)
    \/ doTop \/ Tick

Spec == Init /\ [][Next]_vars

\* The command and the clock run; a goroutine that can send does, but a scrape
\* may never end.
Fairness == WF_vars(doTop) /\ WF_vars(Tick) /\ \A f \in Functions : WF_vars(Sends(f))

FairSpec == Spec /\ Fairness /\ WF_vars(ListFails \/ \E fs \in SUBSET Functions : Lists(fs))

-----------------------------------------------------------------------------
(* Properties.                                                             *)

\* Type invariant.
TypeOK ==
    /\ listed \subseteq Functions /\ pc \in {"list", "wait", "done", "error"}
    /\ gor \in [Functions -> {"none", "scrape", "send", "ended"}]
    /\ i \in 0..Cardinality(listed) /\ now \in Nat /\ timer \in now..(now + Timeout)
    /\ Len(ch) <= Cardinality(listed)

\* No goroutine is left blocked on the channel, also after the command stopped
\* receiving (top.go:82).
SendNeverBlocks == \A f \in listed : gor[f] = "send" => Len(ch) < Capacity

\* The output lacks a function only if it had no answer when the last timer
\* expired (top.go:92-101).
MissingOnlyIfLate ==
    pc = "done" =>
        \A f \in listed : (\E r \in metrics : r.function = f) \/ at[f] = 0 \/ at[f] >= timer

\* Each row's average is that of the durations and calls in the same row, for
\* any set of methods of each metric (metrics.go:57-86).
AverageOfRow == \A r \in metrics : r.avg = (IF r.calls > 0 THEN <<r.dur, r.calls>> ELSE <<>>)

\* Whatever the endpoints do, the command ends (top.go:97-99), although every
\* result starts the timer again.
TopEnds == <>(pc \in {"done", "error"})

=============================================================================
