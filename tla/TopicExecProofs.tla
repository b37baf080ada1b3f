--------------------------- MODULE TopicExecProofs ---------------------------
(***************************************************************************)
(* Proofs about the topic commands, for any amount of input and output:    *)
(* the error channel is never full, nobody sends on it once it is closed,  *)
(* and a command that reports success has done its work, or cannot tell.   *)
(***************************************************************************)
EXTENDS TopicExec, SequenceTheorems, TLAPS

Errors == {"send", "write", "remote", "receive"}

\* A goroutine counts as ended once it can send no error any more.
Ended(goroutine) == IF goroutine = "ended" THEN 1 ELSE 0

\* The chunk that was read and not sent yet.
InHand == IF stdin = "send" /\ buf = "chunk" THEN 1 ELSE 0

\* The failure the remote side reports last, if it is still on its way.
FailureInbox == IF inbox # << >> /\ inbox[Len(inbox)] = "error" THEN 1 ELSE 0

\* The goroutines run between the callback's start and its return, and each leaves
\* at most one error behind.
GoroutinesInv ==
    /\ pc \in {"start", "dial"} => stdin = "none" /\ recv = "none"
    /\ pc = "wait" => stdin # "none" /\ recv # "none"
    /\ pc = "ok" => stdin = "ended" /\ recv = "ended" /\ errChan = << >>
    /\ pc = "fatal" => stdin \in {"none", "ended"} /\ recv \in {"none", "ended"}
    /\ Len(errChan) <= Ended(stdin) + Ended(recv)

\* Where the input is: with the writer, in hand, or sent; nothing is dropped without
\* an error, and the connection is closed only behind the last chunk.
InputInv ==
    /\ sent + pipe + InHand <= data
    /\ stdin # "ended" => sent + pipe + InHand = data
    /\ stdin = "send" /\ buf = "eof" => pipe = 0
    /\ HasStdin /\ stdin = "ended" /\ errChan = << >> => closeSent /\ sent = data
    /\ ~HasStdin => stdin \in {"none", "ended"} /\ ~closeSent

\* Where the output is.  A failure is the last message, so nothing that was written
\* before it can be missed, and it is never lost without an error.
OutputInv ==
    /\ \A i \in 1..Len(inbox) : inbox[i] = "error" => i = Len(inbox)
    /\ written + Len(inbox) <= produced + FailureInbox
    /\ remote = "run" => outcome = "none"
    /\ remote \in {"failed", "done"} => outcome = remote
    /\ outcome = "none" => FailureInbox = 0
    /\ outcome = "failed" /\ remote \notin {"broken", "cut"} => FailureInbox = 1 \/ errChan # << >>
    /\ remote = "hungup" => outcome # "none" \/ closeSent
    /\ recv = "ended" /\ errChan = << >> => inbox = << >> /\ remote \in {"hungup", "cut"}

\* The inductive invariant.
ExecInv ==
    /\ TypeOK
    /\ GoroutinesInv
    /\ InputInv
    /\ OutputInv

-----------------------------------------------------------------------------
(* Sequences                                                               *)

\* Adding an element at the end.
LEMMA Appended ==
    ASSUME NEW S, NEW s \in Seq(S), NEW e \in S
    PROVE  /\ Append(s, e) \in Seq(S)
           /\ Len(Append(s, e)) = Len(s) + 1
           /\ Append(s, e) # << >>
           /\ \A i \in 1..Len(s) : Append(s, e)[i] = s[i]
           /\ Append(s, e)[Len(s) + 1] = e
  BY AppendProperties

\* Taking the first element of a sequence.
LEMMA Received ==
    ASSUME NEW S, NEW s \in Seq(S), s # << >>
    PROVE  /\ Len(s) \in Nat \ {0}
           /\ Head(s) = s[1] /\ Head(s) \in S
           /\ Tail(s) \in Seq(S)
           /\ Len(Tail(s)) = Len(s) - 1
           /\ \A i \in 1..(Len(s) - 1) : Tail(s)[i] = s[i + 1]
  BY HeadTailProperties, EmptySeq, LenProperties

\* Keeping the first elements of a sequence.
LEMMA Truncated ==
    ASSUME NEW S, NEW s \in Seq(S), NEW k \in 0..Len(s)
    PROVE  /\ SubSeq(s, 1, k) \in Seq(S)
           /\ Len(SubSeq(s, 1, k)) = k
           /\ \A i \in 1..k : SubSeq(s, 1, k)[i] = s[i]
  BY SubSeqProperties, LenProperties

\* An empty sequence is one without elements.
LEMMA EmptyIsZero ==
    ASSUME NEW S, NEW s \in Seq(S)
    PROVE  s = << >> <=> Len(s) = 0
  BY EmptySeq

\* The error channel after one more error.
LEMMA ErrorSent ==
    ASSUME TypeOK, NEW e \in Errors
    PROVE  /\ Append(errChan, e) \in Seq({"send", "write", "remote", "receive"})
           /\ Len(Append(errChan, e)) = Len(errChan) + 1
           /\ Append(errChan, e) # << >>
<1>1. errChan \in Seq(Errors)
  BY DEF TypeOK, Errors
<1>2. /\ Append(errChan, e) \in Seq(Errors)
      /\ Len(Append(errChan, e)) = Len(errChan) + 1
      /\ Append(errChan, e) # << >>
  BY <1>1, Appended
<1> QED
  BY <1>2 DEF Errors

-----------------------------------------------------------------------------
LEMMA InitExecInv == Init => ExecInv
<1> SUFFICES ASSUME Init PROVE ExecInv
  OBVIOUS
<1>1. data \in 0..MaxChunks
  BY BoundsAssumption DEF Init
<1>2. TypeOK
  <2>1. cmd.stdin \in BOOLEAN
    <3>1. createTopic.stdin \in BOOLEAN
      BY DEF createTopic
    <3>2. deleteTopic.stdin \in BOOLEAN
      BY DEF deleteTopic
    <3>3. listTopic.stdin \in BOOLEAN
      BY DEF listTopic
    <3>4. publishTopic.stdin \in BOOLEAN
      BY DEF publishTopic
    <3> QED
      BY <3>1, <3>2, <3>3, <3>4, Zenon DEF Init, Commands
  <2>4. pipeOpen \in BOOLEAN
    BY <2>1, Zenon DEF Init, HasStdin
  <2>2. << >> \in Seq({"send", "write", "remote", "receive"}) /\ << >> \in Seq(Kinds)
    OBVIOUS
  <2>3. MaxChunks \in Nat /\ MaxMessages \in Nat
    BY BoundsAssumption
  <2>5. pipe \in 0..data /\ sent \in 0..data /\ written \in 0..produced /\ produced \in 0..MaxMessages
    BY <1>1, <2>3 DEF Init
  <2>6. /\ pc \in {"start", "dial", "wait", "ok", "fatal"}
        /\ stdin \in {"none", "read", "send", "ended"}
        /\ buf \in {"chunk", "eof"}
        /\ recv \in {"none", "receive", "ended"}
        /\ remote \in {"run", "failed", "done"} \cup Gone
        /\ outcome \in {"none", "failed", "done"}
    BY DEF Init
  <2> QED
    BY <1>1, <2>2, <2>4, <2>5, <2>6, Zenon DEF Init, TypeOK
<1>3. GoroutinesInv
  BY DEF Init, GoroutinesInv, Ended
<1>4. InputInv
  BY <1>1, BoundsAssumption DEF Init, InputInv, InHand, HasStdin
<1>5. OutputInv
  BY DEF Init, OutputInv, FailureInbox
<1> QED
  BY <1>2, <1>3, <1>4, <1>5 DEF ExecInv

-----------------------------------------------------------------------------
(* The steps                                                               *)

\* The command's own steps move only its program counter.
LEMMA CommandStep ==
    ASSUME ExecInv, \/ PodNotFound
                    \/ execCommand
                    \/ DialFails
                    \/ Returns
    PROVE  ExecInv'
<1> USE DEF ExecInv, PodNotFound, execCommand, DialFails, Returns, Fatal, stdinVars, recvVars, remoteVars
<1>1. TypeOK'
  BY DEF TypeOK
<1>2. GoroutinesInv'
  BY DEF TypeOK, GoroutinesInv, Ended, InputInv
<1>3. InputInv'
  BY DEF TypeOK, InputInv, InHand, HasStdin
<1>4. OutputInv'
  BY DEF TypeOK, OutputInv, FailureInbox
<1> QED
  BY <1>1, <1>2, <1>3, <1>4

\* The callback starts its goroutines; without input the one for stdin has nothing to do.
LEMMA RoundTripStep ==
    ASSUME ExecInv, RoundTrip
    PROVE  ExecInv'
<1> USE DEF ExecInv, RoundTrip, stdinVars, recvVars, remoteVars
<1>0. errChan = << >> /\ recv = "none" /\ stdin = "none"
  BY EmptyIsZero DEF TypeOK, GoroutinesInv, Ended
<1>1. TypeOK'
  BY DEF TypeOK
<1>2. GoroutinesInv'
  BY <1>0 DEF TypeOK, GoroutinesInv, Ended
<1>3. InputInv'
  BY <1>0 DEF TypeOK, InputInv, InHand, HasStdin
<1>4. OutputInv'
  BY <1>0 DEF TypeOK, OutputInv, FailureInbox
<1> QED
  BY <1>1, <1>2, <1>3, <1>4

\* The writer closes its end of the pipe.
LEMMA WriterClosesStep ==
    ASSUME ExecInv, WriterCloses
    PROVE  ExecInv'
<1> USE DEF ExecInv, WriterCloses, stdinVars, recvVars, remoteVars
<1>1. TypeOK'
  BY DEF TypeOK
<1>2. GoroutinesInv'
  BY DEF TypeOK, GoroutinesInv, Ended
<1>3. InputInv'
  BY DEF TypeOK, InputInv, InHand, HasStdin
<1>4. OutputInv'
  BY DEF TypeOK, OutputInv, FailureInbox
<1> QED
  BY <1>1, <1>2, <1>3, <1>4

\* A chunk moves from the pipe into the hand of the reader.
LEMMA StdinReadsStep ==
    ASSUME ExecInv, StdinReads
    PROVE  ExecInv'
<1> USE DEF ExecInv, StdinReads, stdinVars, recvVars, remoteVars
<1>1. TypeOK'
  BY DEF TypeOK
<1>2. GoroutinesInv'
  BY DEF TypeOK, GoroutinesInv, Ended
<1>3. InputInv'
  BY DEF TypeOK, InputInv, InHand, HasStdin
<1>4. OutputInv'
  BY DEF TypeOK, OutputInv, FailureInbox
<1> QED
  BY <1>1, <1>2, <1>3, <1>4

\* A chunk is sent, dropped with an error, or the end of the input closes the connection.
LEMMA StdinSendsStep ==
    ASSUME ExecInv, NEW ok \in BOOLEAN, StdinSends(ok)
    PROVE  ExecInv'
<1> USE DEF ExecInv, StdinSends, SendError, stdinVars, recvVars, remoteVars
<1>1. TypeOK'
  <2>1. errChan' \in Seq({"send", "write", "remote", "receive"})
    <3>1. errChan' = errChan \/ errChan' = Append(errChan, "send")
      OBVIOUS
    <3> QED
      BY <3>1, ErrorSent DEF TypeOK, Errors
  <2>2. sent' \in 0..data
    BY DEF TypeOK, InputInv, InHand
  <2> QED
    BY <2>1, <2>2 DEF TypeOK
<1>2. GoroutinesInv'
  BY DEF TypeOK, GoroutinesInv, Ended
<1>3. InputInv'
  BY DEF TypeOK, InputInv, InHand, HasStdin
<1>4. OutputInv'
  BY DEF TypeOK, OutputInv, FailureInbox
<1> QED
  BY <1>1, <1>2, <1>3, <1>4

\* The connection ends, and with it the goroutine that reads it.
LEMMA ReceivesEndStep ==
    ASSUME ExecInv, ReceivesEnd
    PROVE  ExecInv'
<1> USE DEF ExecInv, ReceivesEnd, SendError, stdinVars, recvVars, remoteVars
<1>0. /\ errChan' \in Seq({"send", "write", "remote", "receive"})
      /\ \/ errChan' = errChan /\ remote \in {"hungup", "cut"}
         \/ errChan' # << >> /\ Len(errChan') = Len(errChan) + 1
  BY ErrorSent DEF TypeOK, Errors, Gone
<1>1. TypeOK'
  BY <1>0 DEF TypeOK
<1>2. GoroutinesInv'
  BY <1>0 DEF TypeOK, GoroutinesInv, Ended
<1>3. InputInv'
  BY <1>0 DEF TypeOK, InputInv, InHand, HasStdin
<1>4. OutputInv'
  BY <1>0 DEF TypeOK, OutputInv, FailureInbox
<1> QED
  BY <1>1, <1>2, <1>3, <1>4

\* The script writes: its output is behind what is on its way, and no failure is.
LEMMA RemoteWritesStep ==
    ASSUME ExecInv, NEW kind \in Kinds \ {"error"}, RemoteWrites(kind)
    PROVE  ExecInv'
<1> USE DEF ExecInv, RemoteWrites, stdinVars, recvVars, remoteVars
<1>0. /\ inbox' \in Seq(Kinds)
      /\ Len(inbox') = Len(inbox) + 1
      /\ \A i \in 1..Len(inbox) : inbox'[i] = inbox[i]
      /\ inbox'[Len(inbox) + 1] = kind
  BY Appended DEF TypeOK
<1>1. TypeOK'
  BY <1>0, BoundsAssumption DEF TypeOK
<1>2. GoroutinesInv'
  BY DEF TypeOK, GoroutinesInv, Ended
<1>3. InputInv'
  BY DEF TypeOK, InputInv, InHand, HasStdin
<1>4. OutputInv'
  <2>1. FailureInbox' = 0 /\ FailureInbox = 0
    BY <1>0, EmptyIsZero DEF TypeOK, OutputInv, FailureInbox
  <2>2. \A i \in 1..Len(inbox') : inbox'[i] = "error" => i = Len(inbox')
    BY <1>0, <2>1, EmptyIsZero DEF TypeOK, OutputInv, FailureInbox
  <2> QED
    BY <1>0, <2>1, <2>2 DEF TypeOK, OutputInv
<1> QED
  BY <1>1, <1>2, <1>3, <1>4

\* The script ends; a failure is reported behind its output.
LEMMA RemoteEndsStep ==
    ASSUME ExecInv, NEW how \in {"failed", "done"}, RemoteEnds(how)
    PROVE  ExecInv'
<1> USE DEF ExecInv, RemoteEnds, stdinVars, recvVars, remoteVars
<1>0. FailureInbox = 0 /\ \A i \in 1..Len(inbox) : inbox[i] # "error"
  BY EmptyIsZero DEF TypeOK, OutputInv, FailureInbox
<1>5. ASSUME how = "failed"
      PROVE  /\ inbox' \in Seq(Kinds)
             /\ inbox' # << >>
             /\ Len(inbox') = Len(inbox) + 1
             /\ \A i \in 1..Len(inbox) : inbox'[i] = inbox[i]
             /\ inbox'[Len(inbox) + 1] = "error"
  BY <1>5, Appended DEF TypeOK, Kinds
<1>1. TypeOK'
  BY <1>5 DEF TypeOK
<1>2. GoroutinesInv'
  BY DEF TypeOK, GoroutinesInv, Ended
<1>3. InputInv'
  BY DEF TypeOK, InputInv, InHand, HasStdin
<1>4. OutputInv'
  <2>1. CASE how = "failed"
    <3>1. FailureInbox' = 1
      BY <1>5, <2>1 DEF FailureInbox
    <3>2. \A i \in 1..Len(inbox') : inbox'[i] = "error" => i = Len(inbox')
      BY <1>0, <1>5, <2>1 DEF TypeOK
    <3> QED
      BY <1>0, <1>5, <2>1, <3>1, <3>2 DEF TypeOK, OutputInv
  <2>2. CASE how = "done"
    BY <1>0, <2>2 DEF TypeOK, OutputInv, FailureInbox
  <2> QED
    BY <2>1, <2>2
<1> QED
  BY <1>1, <1>2, <1>3, <1>4

\* The server closes the connection.
LEMMA RemoteHangsUpStep ==
    ASSUME ExecInv, RemoteHangsUp
    PROVE  ExecInv'
<1> USE DEF ExecInv, RemoteHangsUp, stdinVars, recvVars, remoteVars
<1>1. TypeOK'
  BY DEF TypeOK, Gone
<1>2. GoroutinesInv'
  BY DEF TypeOK, GoroutinesInv, Ended
<1>3. InputInv'
  BY DEF TypeOK, InputInv, InHand, HasStdin
<1>4. OutputInv'
  BY DEF TypeOK, OutputInv, FailureInbox
<1> QED
  BY <1>1, <1>2, <1>3, <1>4

\* The connection breaks and loses the end of what was on its way.
LEMMA ConnectionBreaksStep ==
    ASSUME ExecInv, NEW how \in {"broken", "cut"}, NEW kept \in 0..Len(inbox),
           ConnectionBreaks(how, kept)
    PROVE  ExecInv'
<1> USE DEF ExecInv, ConnectionBreaks, stdinVars, recvVars, remoteVars
<1>0. /\ inbox' \in Seq(Kinds)
      /\ Len(inbox') = kept
      /\ \A i \in 1..kept : inbox'[i] = inbox[i]
  BY Truncated DEF TypeOK
<1>1. TypeOK'
  BY <1>0 DEF TypeOK, Gone
<1>2. GoroutinesInv'
  BY DEF TypeOK, GoroutinesInv, Ended
<1>3. InputInv'
  BY DEF TypeOK, InputInv, InHand, HasStdin
<1>4. OutputInv'
  <2>1. kept \in Nat /\ kept <= Len(inbox) /\ Len(inbox) \in Nat
    BY DEF TypeOK
  <2>2. inbox' # << >> => kept > 0
    BY <1>0, <2>1, EmptyIsZero
  <2>3. kept < Len(inbox) => FailureInbox' = 0
    BY <1>0, <2>1, <2>2 DEF OutputInv, FailureInbox
  <2>4. kept = Len(inbox) => FailureInbox' = FailureInbox
    BY <1>0, <2>1, <2>2, EmptyIsZero DEF TypeOK, FailureInbox
  <2>5. FailureInbox \in {0, 1}
    BY DEF FailureInbox
  <2>6. \A i \in 1..Len(inbox') : inbox'[i] = "error" => i = Len(inbox')
    BY <1>0, <2>1 DEF OutputInv
  <2> QED
    BY <1>0, <2>1, <2>3, <2>4, <2>5, <2>6 DEF TypeOK, OutputInv
<1> QED
  BY <1>1, <1>2, <1>3, <1>4

\* One message is taken.  If it is output it is written or an error is left behind;
\* if it is the failure, it was the last message and becomes an error.
LEMMA ReceivesStep ==
    ASSUME ExecInv, NEW ok \in BOOLEAN, Receives(ok)
    PROVE  ExecInv'
<1> USE DEF ExecInv, stdinVars, recvVars, remoteVars
<1>1. /\ Len(inbox) \in Nat \ {0}
      /\ Head(inbox) = inbox[1] /\ Head(inbox) \in Kinds
      /\ inbox' \in Seq(Kinds)
      /\ Len(inbox') = Len(inbox) - 1
      /\ \A i \in 1..(Len(inbox) - 1) : inbox'[i] = inbox[i + 1]
  BY Received DEF Receives, TypeOK
<1>2. /\ pc = "wait" /\ recv = "receive"
      /\ UNCHANGED <<cmd, pc, data, stdinVars, remoteVars>>
  BY DEF Receives
<1>3. \/ inbox[1] # "error" /\ written' = written + 1 /\ UNCHANGED <<recv, errChan>>
      \/ inbox[1] # "error" /\ UNCHANGED <<written, recv, errChan>>
      \/ recv' = "ended" /\ UNCHANGED written
         /\ \E e \in Errors : errChan' = Append(errChan, e)
  BY <1>1 DEF Receives, SendError, OutputKinds, Errors
<1>4. \/ errChan' = errChan /\ recv' = recv
      \/ /\ recv' = "ended"
         /\ errChan' \in Seq({"send", "write", "remote", "receive"})
         /\ Len(errChan') = Len(errChan) + 1
         /\ errChan' # << >>
  BY <1>3, ErrorSent
<1>5. \A i \in 1..Len(inbox') : inbox'[i] = "error" => i = Len(inbox')
  BY <1>1 DEF OutputInv
<1>6. FailureInbox \in {0, 1} /\ FailureInbox' \in {0, 1}
  BY DEF FailureInbox
<1>7. Len(inbox) > 1 => FailureInbox' = FailureInbox
  BY <1>1, EmptyIsZero DEF FailureInbox, TypeOK
<1>8. Len(inbox) = 1 => FailureInbox' = 0 /\ (FailureInbox = 1 <=> inbox[1] = "error")
  <2>1. inbox # << >>
    BY DEF Receives
  <2>2. Len(inbox) = 1 => inbox' = << >>
    BY <1>1, EmptyIsZero
  <2> QED
    BY <2>1, <2>2 DEF FailureInbox
<1>9. inbox[1] = "error" => Len(inbox) = 1
  <2>1. 1 \in 1..Len(inbox)
    BY <1>1
  <2>2. \A i \in 1..Len(inbox) : inbox[i] = "error" => i = Len(inbox)
    BY DEF OutputInv
  <2> QED
    BY <2>1, <2>2, Zenon
<1>10. written' + Len(inbox') <= produced' + FailureInbox'
  BY <1>1, <1>2, <1>3, <1>6, <1>7, <1>8, <1>9 DEF OutputInv, TypeOK
<1>11. TypeOK'
  <2>1. written' \in 0..produced'
    BY <1>1, <1>2, <1>3, <1>6, <1>7, <1>8, <1>9, <1>10 DEF OutputInv, TypeOK
  <2> QED
    BY <1>1, <1>2, <1>4, <2>1 DEF TypeOK
<1>12. GoroutinesInv'
  BY <1>2, <1>4 DEF GoroutinesInv, Ended, TypeOK
<1>13. InputInv'
  BY <1>2, <1>4 DEF InputInv, InHand, HasStdin
<1>14. OutputInv'
  BY <1>2, <1>3, <1>4, <1>5, <1>6, <1>7, <1>8, <1>9, <1>10, <1>1 DEF OutputInv, TypeOK
<1> QED
  BY <1>11, <1>12, <1>13, <1>14

\* Every step keeps the inductive invariant.
LEMMA NextExecInv == ExecInv /\ [Next]_vars => ExecInv'
<1> SUFFICES ASSUME ExecInv, [Next]_vars PROVE ExecInv'
  OBVIOUS
<1>1. CASE UNCHANGED vars
  <2>1. TypeOK'
    BY <1>1 DEF ExecInv, TypeOK, vars
  <2>2. GoroutinesInv' /\ InputInv'
    BY <1>1 DEF ExecInv, GoroutinesInv, InputInv, Ended, InHand, HasStdin, vars
  <2>3. OutputInv'
    BY <1>1 DEF ExecInv, OutputInv, FailureInbox, vars
  <2> QED
    BY <2>1, <2>2, <2>3 DEF ExecInv
<1> QED
  BY <1>1, CommandStep, RoundTripStep, WriterClosesStep, StdinReadsStep, StdinSendsStep,
     ReceivesStep, ReceivesEndStep, RemoteWritesStep, RemoteEndsStep, RemoteHangsUpStep,
     ConnectionBreaksStep DEF Next

-----------------------------------------------------------------------------
(* The theorems                                                            *)

\* The invariant holds in every reachable state.
THEOREM ExecInvariant == Spec => []ExecInv
  BY InitExecInv, NextExecInv, PTL DEF Spec

\* The types; in particular no more is sent than there was to send, and no more
\* written than the script produced.
THEOREM ExecTypeCorrect == Spec => []TypeOK
<1>1. ExecInv => TypeOK
  BY DEF ExecInv
<1> QED
  BY <1>1, ExecInvariant, PTL

\* A goroutine of the callback with an error to report always finds room in the
\* channel, and none is left that would send on it after it is closed
\* (exec.go:51-109).
THEOREM ErrChanSafeTheorem == Spec => []ErrChanSafe
<1>1. ExecInv => ErrChanSafe
  BY DEF ExecInv, TypeOK, GoroutinesInv, Ended, ErrChanSafe
<1> QED
  BY <1>1, ExecInvariant, PTL

\* Exit code 0 means that all input was handed over before the close, all output that
\* arrived was written, and the script succeeded, unless publish's own close or the end
\* of the stream came before its result (exec.go:39-109).
THEOREM OkMeansCompleteOrCutTheorem == Spec => []OkMeansCompleteOrCut
<1>1. ExecInv => OkMeansCompleteOrCut
  <2> SUFFICES ASSUME ExecInv, pc = "ok"
               PROVE  /\ inbox = << >>
                      /\ HasStdin => sent = data /\ closeSent
                      /\ \/ outcome = "done"
                         \/ remote = "cut"
                         \/ HasStdin /\ outcome = "none" /\ remote = "hungup"
    BY DEF OkMeansCompleteOrCut
  <2>1. stdin = "ended" /\ recv = "ended" /\ errChan = << >>
    BY DEF ExecInv, GoroutinesInv
  <2>2. inbox = << >> /\ remote \in {"hungup", "cut"} /\ FailureInbox = 0
    BY <2>1 DEF ExecInv, OutputInv, FailureInbox
  <2>3. remote = "hungup" => outcome = "done" \/ (HasStdin /\ outcome = "none")
    BY <2>1, <2>2 DEF ExecInv, TypeOK, InputInv, OutputInv
  <2>4. HasStdin => sent = data /\ closeSent
    BY <2>1 DEF ExecInv, InputInv
  <2> QED
    BY <2>2, <2>3, <2>4
<1> QED
  BY <1>1, ExecInvariant, PTL
=============================================================================
