---------------------------- MODULE FunctionProxy ----------------------------
(***************************************************************************)
(* The process in front of a function's native server (pkg/function-proxy):*)
(* HTTP requests, each with a deadline, a goroutine that calls the         *)
(* function and a channel of capacity one between them; the goroutine that *)
(* ends the process after a timeout; the health handler; the goroutines    *)
(* that run the native server and the listener; and the shutdown on        *)
(* SIGTERM.                                                                *)
(*                                                                         *)
(* There is no clock: a deadline may pass at any moment, and does so       *)
(* eventually.                                                             *)
(***************************************************************************)
EXTENDS Naturals, Sequences, FiniteSets

CONSTANTS
    Requests,   \* requests to "/", each made at most once
    Probes      \* requests to "/healthz"

ASSUME ClientsAssumption ==
    /\ IsFiniteSet(Requests)
    /\ IsFiniteSet(Probes)
    /\ Requests \cap Probes = {}

VARIABLES
    proc,        \* "up", "draining" (in server.Shutdown) or "gone"
    cause,       \* what ended the process
    native,      \* the process startNativeDaemon runs
    listener,    \* ListenAndServe: "binding", "open" or "failed"
    conn,        \* [client -> "idle", "open" or "closed"]: the handler's life
    status,      \* [client -> the status code sent, 0 before]
    call,        \* [request -> where the goroutine of Handler is]
    result,      \* [request -> what h returned: "none", "ok" or "err"]
    funcChannel, \* [request -> the packs in its channel]
    overdue,     \* the requests whose context is Done
    exiting,     \* the requests after whose 408 logReq's goroutine sleeps
    funcCalls,   \* the counter function_calls_total
    funcErrors   \* the counter function_failures_total

vars == <<proc, cause, native, listener, conn, status, call, result, funcChannel,
          overdue, exiting, funcCalls, funcErrors>>

goroutine == <<call, result, funcChannel, funcCalls>>

Clients == Requests \cup Probes

Init ==
    /\ proc = "up"
    /\ cause = "none"
    /\ native = "starting"
    /\ listener = "binding"
    /\ conn = [c \in Clients |-> "idle"]
    /\ status = [c \in Clients |-> 0]
    /\ call = [r \in Requests |-> "none"]
    /\ result = [r \in Requests |-> "none"]
    /\ funcChannel = [r \in Requests |-> << >>]
    /\ overdue = {}
    /\ exiting = {}
    /\ funcCalls = 0
    /\ funcErrors = 0

\* os.Exit, or the return of main: every goroutine ends where it is.
Exit(why) ==
    /\ proc' = "gone"
    /\ cause' = why
    /\ UNCHANGED <<native, listener, conn, status, overdue, exiting, funcErrors, goroutine>>

-----------------------------------------------------------------------------
(* The native server.  It may answer, hang, end or fail as it likes.       *)

NativeListens ==
    /\ proc # "gone"
    /\ native = "starting"
    /\ native' = "running"
    /\ UNCHANGED <<proc, cause, listener, conn, status, overdue, exiting, funcErrors,
                   goroutine>>

\* cmd.Run returns, with or without an error.
NativeEnds(how) ==
    /\ proc # "gone"
    /\ native \in {"starting", "running"}
    /\ native' = how
    /\ UNCHANGED <<proc, cause, listener, conn, status, overdue, exiting, funcErrors,
                   goroutine>>

\* Only an error ends the proxy; after a clean end it goes on without a function.
startNativeDaemon ==
    /\ proc # "gone"
    /\ native = "failed"
    /\ Exit("native")

-----------------------------------------------------------------------------
(* The listener.  Shutdown closes it without an error.                     *)

\* Listen returns, or it or a later Accept fails for good.
ListenReturns(how) ==
    /\ proc = "up"
    /\ listener = "binding" \/ (listener = "open" /\ how = "failed")
    /\ listener' = how
    /\ UNCHANGED <<proc, cause, native, conn, status, overdue, exiting, funcErrors, goroutine>>

\* main's goroutine panics with the error of ListenAndServe, whatever requests are open.
ListenPanics ==
    /\ proc # "gone"
    /\ listener = "failed"
    /\ Exit("listen")

-----------------------------------------------------------------------------
(* Requests                                                                *)

\* The server reads a request and starts its handler.
Accept(c) ==
    /\ proc = "up"
    /\ listener = "open"
    /\ conn[c] = "idle"
    /\ conn' = [conn EXCEPT ![c] = "open"]
    /\ IF c \in Requests THEN call' = [call EXCEPT ![c] = "created"]
                         ELSE UNCHANGED call
    /\ UNCHANGED <<proc, cause, native, listener, status, result, funcChannel, overdue,
                   exiting, funcCalls, funcErrors>>

\* The goroutine of Handler counts the call and calls handle.
Invoke(r) ==
    /\ proc # "gone"
    /\ call[r] = "created"
    /\ call' = [call EXCEPT ![r] = "calling"]
    /\ funcCalls' = funcCalls + 1
    /\ UNCHANGED <<proc, cause, native, listener, conn, status, result, funcChannel,
                   overdue, exiting, funcErrors>>

\* handle returns.  It fails when the native server cannot be reached or breaks
\* the connection; otherwise it returns the body of the answer, whatever its
\* status code.  It is not told of the deadline.
HandleReturns(r, res) ==
    /\ proc # "gone"
    /\ call[r] = "calling"
    /\ res = "ok" => native = "running"
    /\ call' = [call EXCEPT ![r] = "returned"]
    /\ result' = [result EXCEPT ![r] = res]
    /\ UNCHANGED <<proc, cause, native, listener, conn, status, funcChannel, overdue,
                   exiting, funcCalls, funcErrors>>

\* Mutant: the result is sent where h returns and once more at the end.
SendTwice(r) ==
    /\ proc # "gone"
    /\ call[r] = "returned"
    /\ funcChannel' = [funcChannel EXCEPT ![r] = @ \o <<result[r], result[r]>>]
    /\ call' = [call EXCEPT ![r] = "ended"]
    /\ UNCHANGED <<proc, cause, native, listener, conn, status, result, overdue, exiting,
                   funcCalls, funcErrors>>

\* The goroutine sends the pack on the channel, made with capacity one, and ends.
Send(r) ==
    /\ proc # "gone"
    /\ call[r] = "returned"
    /\ Len(funcChannel[r]) < 1
    /\ funcChannel' = [funcChannel EXCEPT ![r] = Append(@, result[r])]
    /\ call' = [call EXCEPT ![r] = "ended"]
    /\ UNCHANGED <<proc, cause, native, listener, conn, status, result, overdue, exiting,
                   funcCalls, funcErrors>>

\* Mutant: loggingResponseWriter does not remember the code it writes.
AnswerUnlogged(c, code) ==
    /\ status' = [status EXCEPT ![c] = code]
    /\ conn' = [conn EXCEPT ![c] = "closed"]
    /\ UNCHANGED <<proc, cause, native, listener, exiting>>

\* A handler writes its answer and returns through logReq, which after a 408
\* starts the goroutine that ends the process.
Answer(c, code) ==
    /\ status' = [status EXCEPT ![c] = code]
    /\ conn' = [conn EXCEPT ![c] = "closed"]
    /\ exiting' = IF code = 408 THEN exiting \cup {c} ELSE exiting
    /\ UNCHANGED <<proc, cause, native, listener>>

\* Mutant: the handler goes on waiting for the result after it sent a timeout.
ReceiveResultLate(r) ==
    /\ proc # "gone"
    /\ conn[r] # "idle"
    /\ funcChannel[r] # << >>
    /\ funcChannel' = [funcChannel EXCEPT ![r] = Tail(@)]
    /\ IF Head(funcChannel[r]) = "err"
       THEN funcErrors' = funcErrors + 1 /\ Answer(r, 500)
       ELSE UNCHANGED funcErrors /\ Answer(r, 200)
    /\ UNCHANGED <<call, result, overdue, funcCalls>>

\* First arm of the select in Handler.
ReceiveResult(r) ==
    /\ proc # "gone"
    /\ conn[r] = "open"
    /\ funcChannel[r] # << >>
    /\ funcChannel' = [funcChannel EXCEPT ![r] = Tail(@)]
    /\ IF Head(funcChannel[r]) = "err"
       THEN funcErrors' = funcErrors + 1 /\ Answer(r, 500)
       ELSE UNCHANGED funcErrors /\ Answer(r, 200)
    /\ UNCHANGED <<call, result, overdue, funcCalls>>

\* The context of a request expires while its handler waits.
Deadline(r) ==
    /\ proc # "gone"
    /\ conn[r] = "open"
    /\ r \notin overdue
    /\ overdue' = overdue \cup {r}
    /\ UNCHANGED <<proc, cause, native, listener, conn, status, exiting, funcErrors, goroutine>>

\* Mutant: the deadline is looked at only once the function has returned.
TimeoutArmAfterCall(r) ==
    /\ proc # "gone"
    /\ conn[r] = "open"
    /\ r \in overdue
    /\ call[r] = "ended"
    /\ funcErrors' = funcErrors + 1
    /\ Answer(r, 408)
    /\ UNCHANGED <<overdue, goroutine>>

\* Second arm of the select, taken or not when both are ready.
TimeoutArm(r) ==
    /\ proc # "gone"
    /\ conn[r] = "open"
    /\ r \in overdue
    /\ funcErrors' = funcErrors + 1
    /\ Answer(r, 408)
    /\ UNCHANGED <<overdue, goroutine>>

\* log.Fatal, one second after a 408.
ForcedExit(c) ==
    /\ proc # "gone"
    /\ c \in exiting
    /\ Exit("timeout")

\* The health handler.  http.Get fails when nothing listens: the nil response is
\* then read before the error is looked at, the handler panics, net/http recovers
\* and closes the connection.  A native server that answers anything is healthy,
\* and one that hangs keeps the handler waiting.
health(p) ==
    /\ proc # "gone"
    /\ conn[p] = "open"
    /\ IF native = "running"
       THEN Answer(p, 200)
       ELSE /\ conn' = [conn EXCEPT ![p] = "closed"]
            /\ UNCHANGED <<proc, cause, native, listener, status, exiting>>
    /\ UNCHANGED <<overdue, funcErrors, goroutine>>

-----------------------------------------------------------------------------
(* GracefulShutdown                                                        *)

\* SIGINT or SIGTERM: Shutdown closes the listener and waits.
Signal ==
    /\ proc = "up"
    /\ proc' = "draining"
    /\ UNCHANGED <<cause, native, listener, conn, status, overdue, exiting, funcErrors,
                   goroutine>>

\* Mutant: server.Close, which does not wait for the requests in flight.
ServerClosed ==
    /\ proc = "draining"
    /\ Exit("stopped")

\* Shutdown returns once no connection is active, and main returns.
ServerStopped ==
    /\ proc = "draining"
    /\ \A c \in Clients : conn[c] # "open"
    /\ Exit("stopped")

\* Its own deadline comes first: the error is logged and main returns all the same.
ShutdownExpires ==
    /\ proc = "draining"
    /\ \E c \in Clients : conn[c] = "open"
    /\ Exit("drain")

-----------------------------------------------------------------------------
Native ==
    \/ NativeListens
    \/ \E how \in {"ended", "failed"} : NativeEnds(how)
    \/ \E r \in Requests, res \in {"ok", "err"} : HandleReturns(r, res)

Next ==
    \/ Native
    \/ startNativeDaemon
    \/ \E how \in {"open", "failed"} : ListenReturns(how)
    \/ ListenPanics
    \/ \E c \in Clients : Accept(c)
    \/ \E r \in Requests :
          \/ Invoke(r)
          \/ Send(r)
          \/ ReceiveResult(r)
          \/ Deadline(r)
          \/ TimeoutArm(r)
          \/ ForcedExit(r)
    \/ \E p \in Probes : health(p)
    \/ Signal
    \/ ServerStopped
    \/ ShutdownExpires

Spec == Init /\ [][Next]_vars

\* Goroutines are scheduled and timers fire; clients, signals and the function owe
\* nothing.
Fairness ==
    /\ WF_vars(startNativeDaemon)
    /\ WF_vars(ListenPanics)
    /\ WF_vars(ServerStopped \/ ShutdownExpires)
    /\ \A r \in Requests : /\ WF_vars(Invoke(r))
                           /\ WF_vars(Send(r))
                           /\ WF_vars(ReceiveResult(r) \/ TimeoutArm(r))
                           /\ WF_vars(Deadline(r))
                           /\ WF_vars(ForcedExit(r))

FairSpec == Spec /\ Fairness

-----------------------------------------------------------------------------
(* Properties                                                              *)

\* Every variable has its type; a channel never holds more than its capacity.
TypeOK ==
    /\ proc \in {"up", "draining", "gone"}
    /\ cause \in {"none", "native", "listen", "timeout", "stopped", "drain"}
    /\ native \in {"starting", "running", "ended", "failed"}
    /\ listener \in {"binding", "open", "failed"}
    /\ conn \in [Clients -> {"idle", "open", "closed"}]
    /\ status \in [Clients -> {0, 200, 408, 500}]
    /\ call \in [Requests -> {"none", "created", "calling", "returned", "ended"}]
    /\ result \in [Requests -> {"none", "ok", "err"}]
    /\ funcChannel \in [Requests -> {<< >>, <<"ok">>, <<"err">>}]
    /\ overdue \subseteq Requests
    /\ exiting \subseteq Requests
    /\ funcCalls \in 0..Cardinality(Requests)
    /\ funcErrors \in 0..Cardinality(Requests)

\* A request the process accepted goes unanswered only when the process ended for
\* a reason that does not wait for it: the native server failed, the listener did
\* (the panic of proxy.go:95 takes the requests in flight along), the drain ran out of
\* time after a signal, or another request had timed out and was told so.  In
\* particular "Server stopped" is logged only after every answer.
CutOnlyForACause ==
    \A r \in Requests :
        (proc = "gone" /\ conn[r] = "open") =>
            \/ cause = "native" /\ native = "failed"
            \/ cause = "listen" /\ listener = "failed"
            \/ cause = "drain"
            \/ cause = "timeout" /\ \E q \in Requests \ {r} : status[q] = 408

\* The metrics agree with what clients were told, whichever arm of a select won and
\* however late the function answered: every failure was sent as 500 or 408, and
\* every other answer belongs to a call that was counted.
MetricsMatchAnswers ==
    LET Told(codes) == Cardinality({r \in Requests : status[r] \in codes})
    IN /\ funcErrors = Told({408, 500})
       /\ Told({200, 500}) <= funcCalls

\* Every accepted request is answered or ends with the process, even when the
\* function never returns.
Answered ==
    \A r \in Requests : conn[r] = "open" ~> (conn[r] = "closed" \/ proc = "gone")

\* docs/kubeless-functions.md:34: a function that takes longer than the timeout is
\* terminated, and with it the process that holds the stuck call.
TimeoutEndsProcess ==
    \A r \in Requests : status[r] = 408 ~> proc = "gone"
=============================================================================
