------------------------------ MODULE TopicExec ------------------------------
(***************************************************************************)
(* The topic commands of the CLI (cmd/kubeless/topic), which run a Kafka   *)
(* script in the broker's pod over a websocket (pkg/utils/exec.go): one    *)
(* goroutine copies stdin to the connection, one copies the connection to  *)
(* the output, an error channel of capacity three and a wait group join    *)
(* them.  create, delete and list have no stdin; publish feeds it from a   *)
(* third goroutine through a pipe.                                         *)
(*                                                                         *)
(* The remote side runs the script, reports a failure on the error channel *)
(* of the protocol and hangs up; at any time the connection may break, or  *)
(* its stream just end, which the client cannot tell from hanging up.      *)
(***************************************************************************)
EXTENDS Naturals, Sequences

CONSTANTS
    MaxChunks,   \* most reads of 1024 bytes the published data needs
    MaxMessages  \* most output messages of the remote script

ASSUME BoundsAssumption == MaxChunks \in Nat \ {0} /\ MaxMessages \in Nat

VARIABLES
    cmd,       \* the command the user gave
    pc,        \* "start", "dial", "wait", "ok" (exit 0) or "fatal" (logrus.Fatal)
    data,      \* how many chunks publish has to send
    pipe,      \* the chunks the writing goroutine has left; it then closes the pipe
    pipeOpen,  \* the write end of the pipe is not closed
    stdin,     \* the goroutine that copies stdin: "none", "read", "send", "ended"
    buf,       \* what it read last: "chunk" or "eof"
    recv,      \* the goroutine that copies the output: "none", "receive", "ended"
    errChan,   \* the buffered channel, oldest error first
    sent,      \* chunks handed to the connection
    closeSent, \* WriteClose was called
    inbox,     \* messages on their way from the remote side
    written,   \* messages written to the output
    remote,    \* "run", "failed", "done" (script ended), "hungup", "broken" or "cut"
    outcome,   \* how the script ended: "none", "failed" or "done"
    produced   \* how many output messages the script wrote

vars == <<cmd, pc, data, pipe, pipeOpen, stdin, buf, recv, errChan, sent,
          closeSent, inbox, written, remote, outcome, produced>>

stdinVars == <<pipe, pipeOpen, stdin, buf, sent, closeSent>>
recvVars == <<recv, inbox, written>>
remoteVars == <<remote, outcome, produced>>

\* The connection is gone: closed by the server, reset, or ended without a close.
Gone == {"hungup", "broken", "cut"}

Kinds == {"stdout", "stderr", "empty", "unknown", "error"}

\* The commands differ in the script they run and in Stdin, which only publishTopic
\* sets, to the pipe.  A flag that cannot be read, or no client, is a PodNotFound.
createTopic == [script |-> "kafka-topics --create", stdin |-> FALSE]

deleteTopic == [script |-> "kafka-topics --delete", stdin |-> FALSE]

listTopic == [script |-> "kafka-topics --list", stdin |-> FALSE]

publishTopic == [script |-> "kafka-console-producer", stdin |-> TRUE]

Commands == {createTopic, deleteTopic, listTopic, publishTopic}

HasStdin == cmd.stdin

Init ==
    /\ cmd \in Commands
    /\ data \in IF HasStdin THEN 1..MaxChunks ELSE {0}
    /\ pc = "start"
    /\ pipe = data
    /\ pipeOpen = HasStdin
    /\ stdin = "none"
    /\ buf = "chunk"
    /\ recv = "none"
    /\ errChan = << >>
    /\ sent = 0
    /\ closeSent = FALSE
    /\ inbox = << >>
    /\ written = 0
    /\ remote = "run"
    /\ outcome = "none"
    /\ produced = 0

Fatal == pc' = "fatal" /\ UNCHANGED <<cmd, data, stdinVars, recvVars, remoteVars, errChan>>

-----------------------------------------------------------------------------
(* The command                                                             *)

\* The look-up of the broker's pod fails or finds none, or no request can be made.
PodNotFound == pc = "start" /\ Fatal

\* execCommand and publishTopic find the pod and build the request.
execCommand ==
    /\ pc = "start"
    /\ pc' = "dial"
    /\ UNCHANGED <<cmd, data, stdinVars, recvVars, remoteVars, errChan>>

\* websocket.NewConfig or DialConfig fails.
DialFails == pc = "dial" /\ Fatal

\* RoundTrip connects and calls RoundTripCallback, which starts its goroutines.
RoundTrip ==
    /\ pc = "dial"
    /\ pc' = "wait"
    /\ stdin' = IF HasStdin THEN "read" ELSE "ended"
    /\ recv' = "receive"
    /\ UNCHANGED <<cmd, data, pipe, pipeOpen, buf, sent, closeSent, inbox, written,
                   remoteVars, errChan>>

\* Mutant: the callback does not wait for the goroutine that may sit in Read.
ReturnsAfterOutput ==
    /\ pc = "wait"
    /\ recv = "ended"
    /\ pc' = IF errChan = << >> THEN "ok" ELSE "fatal"
    /\ UNCHANGED <<cmd, data, stdinVars, recvVars, remoteVars, errChan>>

\* wg.Wait, close(errChan), and the first error or nil is received; the command
\* exits with it.
Returns ==
    /\ pc = "wait"
    /\ stdin = "ended"
    /\ recv = "ended"
    /\ pc' = IF errChan = << >> THEN "ok" ELSE "fatal"
    /\ UNCHANGED <<cmd, data, stdinVars, recvVars, remoteVars, errChan>>

-----------------------------------------------------------------------------
(* The goroutines.  They stop with the process.                            *)

\* Mutant: publishTopic does not close its end of the pipe.
WriterForgetsPipe ==
    /\ pipeOpen
    /\ pipe = 0
    /\ UNCHANGED vars

\* The goroutine of publishTopic closes the pipe after its data has been read.
WriterCloses ==
    /\ pc \in {"dial", "wait"}
    /\ pipeOpen
    /\ pipe = 0
    /\ pipeOpen' = FALSE
    /\ UNCHANGED <<cmd, pc, data, pipe, stdin, buf, sent, closeSent, recvVars,
                   remoteVars, errChan>>

\* Read blocks until the pipe has data or is closed.
StdinReads ==
    /\ pc = "wait"
    /\ stdin = "read"
    /\ pipe > 0 \/ ~pipeOpen
    /\ buf' = IF pipe > 0 THEN "chunk" ELSE "eof"
    /\ pipe' = IF pipe > 0 THEN pipe - 1 ELSE 0
    /\ stdin' = "send"
    /\ UNCHANGED <<cmd, pc, data, pipeOpen, sent, closeSent, recvVars, remoteVars,
                   errChan>>

\* Room in a channel of capacity three.
SendError(e) ==
    /\ Len(errChan) < 3
    /\ errChan' = Append(errChan, e)

\* Mutant: any error of Read or Send ends the loop like the end of the input.
StdinSendsOrStops(ok) ==
    /\ pc = "wait"
    /\ stdin = "send"
    /\ ok \/ remote \in Gone
    /\ IF ok /\ buf = "chunk"
       THEN sent' = sent + 1 /\ stdin' = "read" /\ UNCHANGED closeSent
       ELSE stdin' = "ended" /\ closeSent' = TRUE /\ UNCHANGED sent
    /\ UNCHANGED <<cmd, pc, data, pipe, pipeOpen, buf, recvVars, remoteVars, errChan>>

\* Mutant: the loop does not leave at the end of the input.
StdinSendsOn(ok) ==
    /\ pc = "wait"
    /\ stdin = "send"
    /\ ok
    /\ stdin' = "read"
    /\ sent' = sent + 1
    /\ UNCHANGED <<cmd, pc, data, pipe, pipeOpen, buf, closeSent, recvVars, remoteVars,
                   errChan>>

\* What was read is sent.  Towards a peer that is gone this may succeed or fail; the
\* result does not matter once Read has returned io.EOF, when WriteClose follows.
StdinSends(ok) ==
    /\ pc = "wait"
    /\ stdin = "send"
    /\ ok \/ remote \in Gone
    /\ CASE buf = "eof" ->
              /\ stdin' = "ended"
              /\ closeSent' = TRUE
              /\ UNCHANGED <<sent, errChan>>
         [] buf = "chunk" /\ ok ->
              /\ stdin' = "read"
              /\ sent' = sent + 1
              /\ UNCHANGED <<closeSent, errChan>>
         [] OTHER ->
              /\ stdin' = "ended"
              /\ SendError("send")
              /\ UNCHANGED <<sent, closeSent>>
    /\ UNCHANGED <<cmd, pc, data, pipe, pipeOpen, buf, recvVars, remoteVars>>

\* The channels that have a writer; empty messages and unknown channels are skipped.
OutputKinds == {"stdout", "stderr"}

\* One message is received and copied; ok tells whether the output took it.
Receives(ok) ==
    /\ pc = "wait"
    /\ recv = "receive"
    /\ inbox # << >>
    /\ inbox' = Tail(inbox)
    /\ CASE Head(inbox) \in OutputKinds /\ ok ->
              written' = written + 1 /\ UNCHANGED <<recv, errChan>>
         [] Head(inbox) \in OutputKinds /\ ~ok ->
              recv' = "ended" /\ SendError("write") /\ UNCHANGED written
         [] Head(inbox) = "error" ->
              recv' = "ended" /\ SendError("remote") /\ UNCHANGED written
         [] OTHER -> ok /\ UNCHANGED <<recv, written, errChan>>
    /\ UNCHANGED <<cmd, pc, data, stdinVars, remoteVars>>

\* The end of the connection: Receive returns io.EOF after a close, and also when the
\* stream ends without one, and another error after a break.
ReceivesEnd ==
    /\ pc = "wait"
    /\ recv = "receive"
    /\ inbox = << >>
    /\ remote \in Gone
    /\ recv' = "ended"
    /\ IF remote = "broken" THEN SendError("receive") ELSE UNCHANGED errChan
    /\ UNCHANGED <<cmd, pc, data, stdinVars, remoteVars, inbox, written>>

-----------------------------------------------------------------------------
(* The remote side                                                         *)

\* The script writes output; the API server frames it, and may send empty frames.
RemoteWrites(kind) ==
    /\ pc = "wait"
    /\ remote = "run"
    /\ produced < MaxMessages
    /\ inbox' = Append(inbox, kind)
    /\ produced' = produced + 1
    /\ UNCHANGED <<cmd, pc, data, stdinVars, recv, written, errChan, remote, outcome>>

\* The script ends, with or without having read all its input; a failure is reported
\* on the error channel.
RemoteEnds(how) ==
    /\ pc = "wait"
    /\ remote = "run"
    /\ remote' = how
    /\ outcome' = how
    /\ inbox' = IF how = "failed" THEN Append(inbox, "error") ELSE inbox
    /\ UNCHANGED <<cmd, pc, data, stdinVars, recv, written, errChan, produced>>

\* The server closes the websocket after the script, or because the client did.
RemoteHangsUp ==
    /\ pc = "wait"
    /\ remote \in {"failed", "done"} \/ (remote = "run" /\ closeSent)
    /\ remote' = "hungup"
    /\ UNCHANGED <<cmd, pc, data, stdinVars, recvVars, errChan, outcome, produced>>

\* The connection is reset or its stream ends, with the script running or not; what was
\* on its way may be lost.
ConnectionBreaks(how, kept) ==
    /\ pc = "wait"
    /\ remote \notin Gone
    /\ remote' = how
    /\ inbox' = SubSeq(inbox, 1, kept)
    /\ UNCHANGED <<cmd, pc, data, stdinVars, recv, written, errChan, outcome, produced>>

Next ==
    \/ PodNotFound
    \/ execCommand
    \/ DialFails
    \/ RoundTrip
    \/ Returns
    \/ WriterCloses
    \/ StdinReads
    \/ \E ok \in BOOLEAN : StdinSends(ok) \/ Receives(ok)
    \/ ReceivesEnd
    \/ \E kind \in Kinds \ {"error"} : RemoteWrites(kind)
    \/ \E how \in {"failed", "done"} : RemoteEnds(how)
    \/ RemoteHangsUp
    \/ \E how \in {"broken", "cut"}, kept \in 0..Len(inbox) : ConnectionBreaks(how, kept)

Spec == Init /\ [][Next]_vars

\* Goroutines are scheduled.  Of the remote side only this is assumed: a connection
\* whose script has ended, or that the client closed, is hung up.
Fairness ==
    /\ WF_vars(Returns)
    /\ WF_vars(WriterCloses)
    /\ WF_vars(StdinReads)
    /\ WF_vars(StdinSends(TRUE) \/ StdinSends(FALSE))
    /\ WF_vars(Receives(TRUE))
    /\ WF_vars(ReceivesEnd)
    /\ WF_vars(RemoteHangsUp)

FairSpec == Spec /\ Fairness

-----------------------------------------------------------------------------
(* Properties                                                              *)

\* The type invariant.
TypeOK ==
    /\ cmd \in Commands
    /\ pc \in {"start", "dial", "wait", "ok", "fatal"}
    /\ data \in 0..MaxChunks
    /\ pipe \in 0..data
    /\ pipeOpen \in BOOLEAN
    /\ stdin \in {"none", "read", "send", "ended"}
    /\ buf \in {"chunk", "eof"}
    /\ recv \in {"none", "receive", "ended"}
    /\ errChan \in Seq({"send", "write", "remote", "receive"})
    /\ sent \in 0..data
    /\ closeSent \in BOOLEAN
    /\ inbox \in Seq(Kinds)
    /\ written \in 0..produced
    /\ remote \in {"run", "failed", "done"} \cup Gone
    /\ outcome \in {"none", "failed", "done"}
    /\ produced \in 0..MaxMessages

\* The error channel (exec.go:51-109): a goroutine that has an error to report
\* never finds it full, so neither can hang there with the callback waiting for it
\* in wg.Wait, and once it is closed nobody is left who would send on it and panic.
ErrChanSafe ==
    /\ stdin # "ended" \/ recv # "ended" => Len(errChan) < 2
    /\ pc \in {"ok", "fatal"} => {stdin, recv} \cap {"read", "send", "receive"} = {}

\* A topic command that exits with success has done its work, in whatever order output,
\* failure and close arrived (topic.go, exec.go:39-109).  All output that arrived was
\* written; publish gave all its data to the connection and then closed it; and the
\* script came to a successful end, except in two cases the code cannot tell from it:
\* publish has closed the connection, and the server hung up before the script ended;
\* or the stream ended without a close, which exec.go:67 takes for the end of the
\* script although that may still run or have failed.
OkMeansCompleteOrCut ==
    pc = "ok" =>
        /\ inbox = << >>
        /\ HasStdin => sent = data /\ closeSent
        /\ \/ outcome = "done"
           \/ remote = "cut"
           \/ HasStdin /\ outcome = "none" /\ remote = "hungup"

\* Once the remote script has ended or the connection is gone, the command ends too:
\* the goroutine that reads stdin does not keep the callback waiting.
CommandEnds ==
    (remote \in {"failed"} \cup Gone) ~> (pc \in {"ok", "fatal"})
=============================================================================
