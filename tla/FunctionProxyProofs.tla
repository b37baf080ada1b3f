------------------------- MODULE FunctionProxyProofs -------------------------
(***************************************************************************)
(* Proofs about the function proxy for any set of requests and probes: the *)
(* counters agree with the answers, and an accepted request goes           *)
(* unanswered only for the causes the code knows.                          *)
(***************************************************************************)
EXTENDS FunctionProxy, FiniteSetTheorems, SequenceTheorems, TLAPS

\* The requests whose goroutine has incremented function_calls_total.
Called == {r \in Requests : call[r] \in {"calling", "returned", "ended"}}

\* The requests whose client was told of a failure.
Failed == {r \in Requests : status[r] \in {408, 500}}

\* Each counter counts the requests it is about.
CountersExact ==
    /\ funcCalls = Cardinality(Called)
    /\ funcErrors = Cardinality(Failed)

\* How far the handler of a request and its goroutine can be from one another: the
\* handler may be done with a 408 while the goroutine is anywhere, and with any
\* other answer only once the goroutine has ended.
HandlerInStep ==
    \A r \in Requests :
        /\ conn[r] = "idle" => call[r] = "none"
        /\ conn[r] # "closed" => status[r] = 0
        /\ status[r] \in {200, 500} => call[r] = "ended"
        /\ call[r] = "returned" => result[r] # "none"
        /\ funcChannel[r] # << >> => call[r] = "ended"
        /\ r \in exiting => status[r] = 408

\* What must have been the case for the process to end as it did.
CauseJustified ==
    /\ cause # "none" <=> proc = "gone"
    /\ cause = "native" => native = "failed"
    /\ cause = "listen" => listener = "failed"
    /\ cause = "timeout" => \E q \in Requests : status[q] = 408
    /\ cause = "stopped" => \A c \in Clients : conn[c] # "open"

\* The inductive invariant.
ProxyInv ==
    /\ TypeOK
    /\ CountersExact
    /\ HandlerInStep
    /\ CauseJustified

-----------------------------------------------------------------------------
(* Counting                                                                *)

\* A set of requests is finite and has no more elements than there are requests.
LEMMA RequestsCount ==
    ASSUME NEW S, S \subseteq Requests
    PROVE  IsFiniteSet(S) /\ Cardinality(S) \in 0..Cardinality(Requests)
  BY ClientsAssumption, FS_Subset, FS_CardinalityType

\* One more request is one more.
LEMMA OneMore ==
    ASSUME NEW S, S \subseteq Requests, NEW r \in Requests, r \notin S
    PROVE  Cardinality(S \cup {r}) = Cardinality(S) + 1
  BY RequestsCount, FS_AddElement

\* Updating a function with a value of its range.
LEMMA Updated ==
    ASSUME NEW A, NEW B, NEW f \in [A -> B], NEW a \in A, NEW b \in B
    PROVE  [f EXCEPT ![a] = b] \in [A -> B]
  OBVIOUS

\* Receiving the only pack of a channel empties it.
LEMMA OnlyPack ==
    ASSUME NEW x
    PROVE  Head(<<x>>) = x /\ Tail(<<x>>) = << >>
<1>1. Len(Tail(<<x>>)) = 0 /\ Tail(<<x>>) \in Seq({x})
  BY <<x>> \in Seq({x})
<1> QED
  BY <1>1, EmptySeq

-----------------------------------------------------------------------------
(* Initially                                                               *)

LEMMA InitProxyInv == Init => ProxyInv
<1> SUFFICES ASSUME Init PROVE ProxyInv
  OBVIOUS
<1>1. Called = {} /\ Failed = {}
  BY DEF Init, Called, Failed, Clients
<1>2. CountersExact
  BY <1>1, FS_EmptySet DEF Init, CountersExact
<1>3. Cardinality(Requests) \in Nat
  BY ClientsAssumption, FS_CardinalityType
<1>4. TypeOK
  BY <1>3 DEF Init, TypeOK, Clients
<1>5. HandlerInStep /\ CauseJustified
  BY DEF Init, HandlerInStep, CauseJustified, Clients
<1> QED
  BY <1>2, <1>4, <1>5 DEF ProxyInv

-----------------------------------------------------------------------------
(* The steps.  A step that leaves the counted sets alone leaves the        *)
(* counters alone too; three steps count.                                  *)

\* The types that do not count anything.
ShapeOK ==
    /\ proc \in {"up", "draining", "gone"}
    /\ cause \in {"none", "native", "listen", "timeout", "stopped", "drain"}
    /\ native \in {"starting", "running", "ended", "failed"}
    /\ listener \in {"binding", "open", "failed"}
    /\ conn \in [Clients -> {"idle", "open", "closed"}]
    /\ status \in [Clients -> {0, 200, 408, 500}]
    /\ call \in [Requests -> {"none", "created", "calling", "returned", "ended"}]
    /\ result \in [Requests -> {"none", "ok", "err"}]
    /\ funcChannel \in [Requests -> {<< >>, <<"ok">>, <<"err">>}]
    /\ overdue \subseteq Requests
    /\ exiting \subseteq Requests

\* With exact counters the rest of the type invariant is a matter of cardinality.
LEMMA ShapeIsEnough == ShapeOK /\ CountersExact => TypeOK
<1>1. Called \subseteq Requests /\ Failed \subseteq Requests
  BY DEF Called, Failed
<1> QED
  BY <1>1, RequestsCount DEF ShapeOK, CountersExact, TypeOK

LEMMA ShapeIsEnoughNext == ShapeOK' /\ CountersExact' => TypeOK'
  BY ShapeIsEnough, PTL

\* A step that counts nothing keeps the counters exact.
LEMMA NothingCounted ==
    ASSUME CountersExact, UNCHANGED <<funcCalls, funcErrors>>,
           Called' = Called, Failed' = Failed
    PROVE  CountersExact'
  BY DEF CountersExact

\* The process ends: nothing else changes.
LEMMA ExitStep ==
    ASSUME ProxyInv, proc # "gone",
           NEW why \in {"native", "listen", "timeout", "stopped", "drain"}, Exit(why),
           why = "native" => native = "failed",
           why = "listen" => listener = "failed",
           why = "timeout" => \E q \in Requests : status[q] = 408,
           why = "stopped" => \A c \in Clients : conn[c] # "open"
    PROVE  ProxyInv'
<1> USE DEF ProxyInv, Exit, goroutine
<1>1. ShapeOK'
  BY DEF TypeOK, ShapeOK
<1>2. CountersExact'
  BY NothingCounted DEF Called, Failed
<1>3. HandlerInStep'
  BY DEF HandlerInStep
<1>4. CauseJustified'
  BY DEF CauseJustified
<1> QED
  BY <1>1, <1>2, <1>3, <1>4, ShapeIsEnoughNext

\* The process is told to end, or the native server or the listener changes: no request
\* is touched.
LEMMA OutsideStep ==
    ASSUME ProxyInv,
           \/ NativeListens
           \/ \E how \in {"ended", "failed"} : NativeEnds(how)
           \/ \E how \in {"open", "failed"} : ListenReturns(how)
           \/ Signal
    PROVE  ProxyInv'
<1> USE DEF ProxyInv, NativeListens, NativeEnds, ListenReturns, Signal, goroutine
<1>1. ShapeOK'
  BY DEF TypeOK, ShapeOK
<1>2. CountersExact'
  BY NothingCounted DEF Called, Failed
<1>3. HandlerInStep'
  BY DEF HandlerInStep
<1>4. CauseJustified'
  BY DEF CauseJustified
<1> QED
  BY <1>1, <1>2, <1>3, <1>4, ShapeIsEnoughNext

LEMMA AcceptStep ==
    ASSUME ProxyInv, NEW c \in Clients, Accept(c)
    PROVE  ProxyInv'
<1> USE DEF ProxyInv, Accept
<1>1. ShapeOK'
  BY DEF TypeOK, ShapeOK
<1>2. CountersExact'
  <2>1. Called' = Called
    BY DEF Called, TypeOK, HandlerInStep
  <2>2. Failed' = Failed
    BY DEF Failed
  <2> QED
    BY <2>1, <2>2, NothingCounted
<1>3. HandlerInStep'
  BY DEF HandlerInStep, TypeOK, Clients
<1>4. CauseJustified'
  BY DEF CauseJustified, TypeOK
<1> QED
  BY <1>1, <1>2, <1>3, <1>4, ShapeIsEnoughNext

LEMMA InvokeStep ==
    ASSUME ProxyInv, NEW r \in Requests, Invoke(r)
    PROVE  ProxyInv'
<1> USE DEF ProxyInv, Invoke
<1>1. ShapeOK'
  BY DEF TypeOK, ShapeOK
<1>2. CountersExact'
  <2>1. Called' = Called \cup {r} /\ r \notin Called /\ Called \subseteq Requests
    BY DEF Called, TypeOK
  <2>2. Failed' = Failed
    BY DEF Failed
  <2> QED
    BY <2>1, <2>2, OneMore DEF CountersExact
<1>3. HandlerInStep'
  BY DEF HandlerInStep, TypeOK, Clients
<1>4. CauseJustified'
  BY DEF CauseJustified
<1> QED
  BY <1>1, <1>2, <1>3, <1>4, ShapeIsEnoughNext

LEMMA HandleReturnsStep ==
    ASSUME ProxyInv, NEW r \in Requests, NEW res \in {"ok", "err"}, HandleReturns(r, res)
    PROVE  ProxyInv'
<1> USE DEF ProxyInv, HandleReturns
<1>1. ShapeOK'
  BY DEF TypeOK, ShapeOK
<1>2. CountersExact'
  <2>1. Called' = Called
    BY DEF Called, TypeOK
  <2>2. Failed' = Failed
    BY DEF Failed
  <2> QED
    BY <2>1, <2>2, NothingCounted
<1>3. HandlerInStep'
  BY DEF HandlerInStep, TypeOK, Clients
<1>4. CauseJustified'
  BY DEF CauseJustified
<1> QED
  BY <1>1, <1>2, <1>3, <1>4, ShapeIsEnoughNext

LEMMA SendStep ==
    ASSUME ProxyInv, NEW r \in Requests, Send(r)
    PROVE  ProxyInv'
<1> USE DEF ProxyInv, Send
<1>1. ShapeOK'
  <2>1. result[r] \in {"ok", "err"} /\ funcChannel[r] = << >>
    BY DEF TypeOK, HandlerInStep
  <2>2. funcChannel'[r] \in {<< >>, <<"ok">>, <<"err">>}
    BY <2>1 DEF TypeOK
  <2> QED
    BY <2>2 DEF TypeOK, ShapeOK
<1>2. CountersExact'
  <2>1. Called' = Called
    BY DEF Called, TypeOK
  <2>2. Failed' = Failed
    BY DEF Failed
  <2> QED
    BY <2>1, <2>2, NothingCounted
<1>3. HandlerInStep'
  BY DEF HandlerInStep, TypeOK, Clients
<1>4. CauseJustified'
  BY DEF CauseJustified
<1> QED
  BY <1>1, <1>2, <1>3, <1>4, ShapeIsEnoughNext

\* First arm of the select: a pack can only come from a goroutine that has ended, so
\* the answer belongs to a call that was counted.
LEMMA ReceiveResultStep ==
    ASSUME ProxyInv, NEW r \in Requests, ReceiveResult(r)
    PROVE  ProxyInv'
<1>0. /\ status[r] = 0
      /\ call[r] = "ended"
      /\ funcChannel' = [funcChannel EXCEPT ![r] = << >>]
  <2>1. funcChannel[r] = <<"ok">> \/ funcChannel[r] = <<"err">>
    BY DEF ProxyInv, TypeOK, ReceiveResult
  <2>2. Tail(funcChannel[r]) = << >>
    BY <2>1, OnlyPack, Zenon
  <2>3. funcChannel' = [funcChannel EXCEPT ![r] = << >>]
    BY <2>2, Zenon DEF ReceiveResult
  <2> QED
    BY <2>3 DEF ProxyInv, HandlerInStep, ReceiveResult
<1>1. ShapeOK'
  <2>1. funcChannel' \in [Requests -> {<< >>, <<"ok">>, <<"err">>}]
    <3> DEFINE Packs == {<< >>, <<"ok">>, <<"err">>}
    <3>1. funcChannel \in [Requests -> Packs] /\ << >> \in Packs
      BY DEF ProxyInv, TypeOK
    <3> HIDE DEF Packs
    <3>2. funcChannel' \in [Requests -> Packs]
      BY <1>0, <3>1, Updated, Zenon
    <3> QED
      BY <3>2 DEF Packs
  <2>2. /\ \E code \in {200, 500} : Answer(r, code)
        /\ UNCHANGED <<call, result, overdue>>
    BY DEF ReceiveResult
  <2>3. PICK code \in {200, 500} : Answer(r, code)
    BY <2>2
  <2>4. /\ status' \in [Clients -> {0, 200, 408, 500}]
        /\ conn' \in [Clients -> {"idle", "open", "closed"}]
        /\ UNCHANGED <<proc, cause, native, listener, exiting>>
    BY <2>3 DEF ProxyInv, TypeOK, Clients, Answer
  <2> QED
    BY <2>1, <2>2, <2>4 DEF ProxyInv, TypeOK, ShapeOK
<1> USE DEF ProxyInv, ReceiveResult, Answer
<1>2. CountersExact'
  <2>1. Called' = Called
    BY DEF Called
  <2>2. CASE Head(funcChannel[r]) = "err"
    <3>1. Failed' = Failed \cup {r} /\ r \notin Failed /\ Failed \subseteq Requests
      BY <1>0, <2>2 DEF Failed, TypeOK, Clients
    <3> QED
      BY <2>1, <2>2, <3>1, OneMore DEF CountersExact
  <2>3. CASE Head(funcChannel[r]) # "err"
    <3>1. Failed' = Failed
      BY <1>0, <2>3 DEF Failed, TypeOK, Clients
    <3> QED
      BY <2>1, <2>3, <3>1, NothingCounted
  <2> QED
    BY <2>2, <2>3
<1>3. HandlerInStep'
  BY <1>0 DEF HandlerInStep, TypeOK, Clients
<1>4. CauseJustified'
  BY <1>0 DEF CauseJustified, TypeOK, Clients
<1> QED
  BY <1>1, <1>2, <1>3, <1>4, ShapeIsEnoughNext

LEMMA DeadlineStep ==
    ASSUME ProxyInv, NEW r \in Requests, Deadline(r)
    PROVE  ProxyInv'
<1> USE DEF ProxyInv, Deadline, goroutine
<1>1. ShapeOK'
  BY DEF TypeOK, ShapeOK
<1>2. CountersExact'
  BY NothingCounted DEF Called, Failed
<1>3. HandlerInStep'
  BY DEF HandlerInStep
<1>4. CauseJustified'
  BY DEF CauseJustified
<1> QED
  BY <1>1, <1>2, <1>3, <1>4, ShapeIsEnoughNext

\* Second arm: a failure is counted while the goroutine may be anywhere.
LEMMA TimeoutArmStep ==
    ASSUME ProxyInv, NEW r \in Requests, TimeoutArm(r)
    PROVE  ProxyInv'
<1> USE DEF ProxyInv, TimeoutArm, Answer, goroutine
<1>0. status[r] = 0
  BY DEF HandlerInStep
<1>1. ShapeOK'
  BY DEF TypeOK, ShapeOK, Clients
<1>2. CountersExact'
  <2>1. Called' = Called
    BY DEF Called
  <2>2. Failed' = Failed \cup {r} /\ r \notin Failed /\ Failed \subseteq Requests
    BY <1>0 DEF Failed, TypeOK, Clients
  <2> QED
    BY <2>1, <2>2, OneMore DEF CountersExact
<1>3. HandlerInStep'
  BY DEF HandlerInStep, TypeOK, Clients
<1>4. CauseJustified'
  BY DEF CauseJustified, TypeOK, Clients
<1> QED
  BY <1>1, <1>2, <1>3, <1>4, ShapeIsEnoughNext

LEMMA HealthStep ==
    ASSUME ProxyInv, NEW p \in Probes, health(p)
    PROVE  ProxyInv'
<1> USE DEF ProxyInv, health, Answer, goroutine
<1>0. p \notin Requests
  BY ClientsAssumption
<1>1. ShapeOK'
  BY DEF TypeOK, ShapeOK, Clients
<1>2. CountersExact'
  BY <1>0, NothingCounted DEF Called, Failed, TypeOK, Clients
<1>3. HandlerInStep'
  BY <1>0 DEF HandlerInStep, TypeOK, Clients
<1>4. CauseJustified'
  BY <1>0 DEF CauseJustified, TypeOK, Clients
<1> QED
  BY <1>1, <1>2, <1>3, <1>4, ShapeIsEnoughNext

\* Every step of the proxy keeps the inductive invariant.
LEMMA NextProxyInv == ProxyInv /\ [Next]_vars => ProxyInv'
<1> SUFFICES ASSUME ProxyInv, [Next]_vars PROVE ProxyInv'
  OBVIOUS
<1>1. ASSUME NEW r \in Requests, ForcedExit(r) PROVE ProxyInv'
  BY <1>1, ExitStep DEF ForcedExit, ProxyInv, HandlerInStep
<1>2. CASE startNativeDaemon
  BY <1>2, ExitStep DEF startNativeDaemon
<1>3. CASE ServerStopped
  BY <1>3, ExitStep DEF ServerStopped
<1>4. CASE ShutdownExpires
  BY <1>4, ExitStep DEF ShutdownExpires
<1>5. CASE UNCHANGED vars
  <2>1. ShapeOK'
    BY <1>5 DEF ProxyInv, TypeOK, ShapeOK, vars
  <2>2. CountersExact'
    BY <1>5, NothingCounted DEF ProxyInv, Called, Failed, vars
  <2>3. HandlerInStep' /\ CauseJustified'
    BY <1>5 DEF ProxyInv, HandlerInStep, CauseJustified, vars
  <2> QED
    BY <2>1, <2>2, <2>3, ShapeIsEnoughNext DEF ProxyInv
<1>6. CASE ListenPanics
  BY <1>6, ExitStep DEF ListenPanics
<1> QED
  BY <1>1, <1>2, <1>3, <1>4, <1>5, <1>6, OutsideStep, AcceptStep, InvokeStep,
     HandleReturnsStep, SendStep, ReceiveResultStep, DeadlineStep, TimeoutArmStep,
     HealthStep DEF Next, Native

-----------------------------------------------------------------------------
(* The theorems                                                            *)

\* The invariant holds in every reachable state.
THEOREM ProxyInvariant == Spec => []ProxyInv
  BY InitProxyInv, NextProxyInv, PTL DEF Spec

\* The types of the proxy's state; in particular no channel of Handler ever holds
\* more than its one pack, whatever the handler that reads it did.
THEOREM ProxyTypeCorrect == Spec => []TypeOK
<1>1. ProxyInv => TypeOK
  BY DEF ProxyInv
<1> QED
  BY <1>1, ProxyInvariant, PTL

\* A request that was accepted goes unanswered only when the native server or the
\* listener failed, the drain ran out of time, or another request had been told 408
\* (startNativeDaemon and main of proxy.go; logReq, Handler and GracefulShutdown of
\* proxy-utils.go).
THEOREM CutOnlyForACauseTheorem == Spec => []CutOnlyForACause
<1>1. ProxyInv => CutOnlyForACause
  <2> SUFFICES ASSUME ProxyInv, NEW r \in Requests, proc = "gone", conn[r] = "open"
               PROVE  \/ cause = "native" /\ native = "failed"
                      \/ cause = "listen" /\ listener = "failed"
                      \/ cause = "drain"
                      \/ cause = "timeout" /\ \E q \in Requests \ {r} : status[q] = 408
    BY DEF CutOnlyForACause
  <2>1. cause \in {"native", "listen", "timeout", "drain"}
    BY DEF ProxyInv, TypeOK, CauseJustified, Clients
  <2>2. status[r] = 0
    BY DEF ProxyInv, HandlerInStep
  <2> QED
    BY <2>1, <2>2 DEF ProxyInv, CauseJustified
<1> QED
  BY <1>1, ProxyInvariant, PTL

\* function_failures_total is the number of clients told 408 or 500, and every
\* answer that came from the function belongs to a counted call.
THEOREM MetricsMatchAnswersTheorem == Spec => []MetricsMatchAnswers
<1>1. ProxyInv => MetricsMatchAnswers
  <2> SUFFICES ASSUME ProxyInv PROVE MetricsMatchAnswers
    OBVIOUS
  <2> DEFINE Direct == {r \in Requests : status[r] \in {200, 500}}
  <2>1. Direct \subseteq Called /\ Called \subseteq Requests
    BY DEF ProxyInv, HandlerInStep, Called
  <2>2. Cardinality(Direct) <= Cardinality(Called)
    BY <2>1, RequestsCount, FS_Subset
  <2>3. funcErrors = Cardinality({r \in Requests : status[r] \in {408, 500}})
    BY DEF ProxyInv, CountersExact, Failed
  <2> QED
    BY <2>2, <2>3 DEF ProxyInv, CountersExact, MetricsMatchAnswers
<1> QED
  BY <1>1, ProxyInvariant, PTL
=============================================================================
