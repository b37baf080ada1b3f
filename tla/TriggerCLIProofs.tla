--------------------------- MODULE TriggerCLIProofs ---------------------------
(***************************************************************************)
(* Proofs about the trigger commands, for any number of users, functions   *)
(* and command lines: an update loses no other user's write, and a         *)
(* function that a command puts in a trigger was there while it ran.       *)
(***************************************************************************)
EXTENDS TriggerCLI, SequenceTheorems, TLAPS

\* The calls a command can have on its list.
CallNames == {"function", "secret", "keys", "get", "create", "update", "delete", "stream",
              "put", "nats"}

\* The function a command names.
Named(cmd) == Flag(cmd, "function", "")

\* The commands that look up the function they write.
LooksUp(cmd) ==
    \/ cmd.op = "create" /\ cmd.kind \in {"http", "cronjob", "kinesis"}
    \/ cmd.op = "update" /\ cmd.kind = "cronjob"
    \/ cmd.op = "update" /\ cmd.kind = "http" /\ Given(cmd, "function")

\* One call of a list is in its place: it reads before it writes back, and once; it
\* looks up before it writes.
InPlace(cmd, todo, snap, seen, j) ==
    /\ todo[j] = "create" => cmd.op = "create"
    /\ todo[j] = "get" =>
          /\ cmd.op = "update" /\ snap = << >>
          /\ \A h \in 1..Len(todo) : todo[h] = "get" => h = j
    /\ todo[j] = "update" =>
          /\ cmd.op = "update"
          /\ snap # << >> \/ \E h \in 1..(j - 1) : todo[h] = "get"
    /\ todo[j] \in {"create", "update"} /\ LooksUp(cmd) =>
          Named(cmd) \in seen \/ \E h \in 1..(j - 1) : todo[h] = "function"

\* A list of calls in a sound order, for a client that holds snap and has seen
\* functions: an update that is no dry run ends in writing.
PlanOK(cmd, todo, snap, seen) ==
    /\ todo \in Seq(CallNames)
    /\ \A j \in 1..Len(todo) : InPlace(cmd, todo, snap, seen, j)
    /\ cmd.op = "update" /\ ~cmd.dryrun => \E j \in 1..Len(todo) : todo[j] = "update"
    /\ snap # << >> => cmd.op = "update"

\* A client that runs a command has calls left and no exit code, and has seen every
\* function there is.
ClientOK(k, fs) ==
    /\ k = [cmd |-> k.cmd, todo |-> k.todo, snap |-> k.snap, seen |-> k.seen, exit |-> k.exit]
    /\ k.exit \in {"none", "ok", "error"}
    /\ k.seen \subseteq Functions
    /\ k.cmd = << >> => k.todo = << >> /\ k.snap = << >>
    /\ k.cmd # << >> =>
          /\ k.exit = "none" /\ fs \subseteq k.seen /\ k.todo # << >>
          /\ Head(k.cmd) \in Commands
          /\ PlanOK(Head(k.cmd), k.todo, k.snap, k.seen)

\* A stored trigger of a kind.
TriggerOK(k, s, v) == s # << >> => Head(s).rv \in 1..v /\ DOMAIN Head(s).spec = FieldsOf(k)

\* The inductive invariant.
TriggerInv ==
    /\ fns \subseteq Functions /\ secret \in {"none", "nokeys", "keys"}
    /\ rv \in 0..MaxVersion /\ nats \in {"none", "lost", "done"}
    /\ DOMAIN trig = Kinds /\ \A k \in Kinds : TriggerOK(k, trig[k], rv)
    /\ DOMAIN cl = Clients /\ \A c \in Clients : ClientOK(cl[c], fns)

-----------------------------------------------------------------------------
(* Lists of calls                                                          *)

\* One element in a sequence.
LEMMA Single ==
    ASSUME NEW o
    PROVE  <<o>> # << >> /\ Head(<<o>>) = o
  OBVIOUS

\* The calls that are left after the first.
LEMMA Rest ==
    ASSUME NEW S, NEW s \in Seq(S), s # << >>
    PROVE  /\ Len(s) \in Nat \ {0}
           /\ Head(s) = s[1]
           /\ Tail(s) \in Seq(S)
           /\ Len(Tail(s)) = Len(s) - 1
           /\ \A j \in 1..(Len(s) - 1) : Tail(s)[j] = s[j + 1]
           /\ Len(s) # 1 => Tail(s) # << >>
<1>1. Len(s) \in Nat \ {0}
  BY EmptySeq, LenProperties
<1>2. /\ Head(s) = s[1]
      /\ Tail(s) \in Seq(S)
      /\ Len(Tail(s)) = Len(s) - 1
      /\ \A j \in 1..Len(Tail(s)) : Tail(s)[j] = s[j + 1]
  BY HeadTailProperties
<1>3. Len(s) # 1 => Tail(s) # << >>
  BY <1>1, <1>2, EmptySeq
<1> QED
  BY <1>1, <1>2, <1>3

\* A list with a length has elements.
LEMMA NotEmpty ==
    ASSUME NEW S, NEW s \in Seq(S), Len(s) # 0
    PROVE  s # << >>
  BY EmptySeq

\* The calls before the last.
LEMMA ButLast ==
    ASSUME NEW S, NEW s \in Seq(S), s # << >>
    PROVE  /\ Front(s) \in Seq(S)
           /\ Len(Front(s)) = Len(s) - 1
           /\ \A j \in 1..(Len(s) - 1) : Front(s)[j] = s[j]
<1>1. Len(s) \in Nat \ {0}
  BY EmptySeq, LenProperties
<1>2. 1 \in 1..(Len(s) + 1) /\ Len(s) - 1 \in 0..Len(s)
  BY <1>1
<1>3. \A i \in 1..Len(s) : s[i] \in S
  BY ElementOfSeq
<1>4. Front(s) = [i \in 1..(Len(s) - 1) |-> s[i]]
  BY <1>1 DEF Front
<1> HIDE DEF Front
<1> QED
  BY <1>1, <1>3, <1>4

\* Leaving out the last call of a dry run keeps the order sound.
LEMMA DryPlan ==
    ASSUME NEW cmd, cmd.dryrun, NEW todo, todo # << >>, NEW seen, PlanOK(cmd, todo, << >>, seen)
    PROVE  PlanOK(cmd, Front(todo), << >>, seen)
<1>0. todo \in Seq(CallNames) /\ Len(todo) \in Nat
  BY LenProperties DEF PlanOK
<1>1. /\ Front(todo) \in Seq(CallNames)
      /\ Len(Front(todo)) = Len(todo) - 1
      /\ \A j \in 1..(Len(todo) - 1) : Front(todo)[j] = todo[j]
  BY <1>0, ButLast
<1> DEFINE front == Front(todo)
           n == Len(todo)
<1> HIDE DEF front, n
<1>2. front \in Seq(CallNames) /\ Len(front) = n - 1 /\ \A j \in 1..(n - 1) : front[j] = todo[j]
  BY <1>1 DEF front, n
<1>3. n \in Nat /\ n = Len(todo)
  BY <1>0 DEF n
<1>4. ASSUME NEW j \in 1..(n - 1) PROVE InPlace(cmd, front, << >>, seen, j)
  <2>1. InPlace(cmd, todo, << >>, seen, j)
    BY <1>3 DEF PlanOK
  <2>2. front[j] = todo[j] /\ \A h \in 1..(j - 1) : front[h] = todo[h]
    BY <1>2, <1>3
  <2>3. front[j] = "get" => \A h \in 1..Len(front) : front[h] = "get" => h = j
    BY <1>2, <1>3, <2>1, <2>2 DEF InPlace
  <2> QED
    BY <2>1, <2>2, <2>3 DEF InPlace
<1>5. PlanOK(cmd, front, << >>, seen)
  BY <1>2, <1>3, <1>4 DEF PlanOK
<1> QED
  BY <1>5 DEF front

\* Lists of one, two and three calls, by their elements.
LEMMA Tuples ==
    ASSUME NEW S, NEW a \in S, NEW b \in S, NEW d \in S
    PROVE  /\ <<a>> \in Seq(S) /\ Len(<<a>>) = 1 /\ <<a>>[1] = a
           /\ <<a, b>> \in Seq(S) /\ Len(<<a, b>>) = 2 /\ <<a, b>>[1] = a /\ <<a, b>>[2] = b
           /\ /\ <<a, b, d>> \in Seq(S) /\ Len(<<a, b, d>>) = 3
              /\ <<a, b, d>>[1] = a /\ <<a, b, d>>[2] = b /\ <<a, b, d>>[3] = d
  OBVIOUS

\* A list that only looks up, or that writes a trigger of its own making: not an update.
LEMMA CreatePlan ==
    ASSUME NEW cmd, NEW seen, NEW s \in Seq(CallNames), cmd.op # "update",
           \A j \in 1..Len(s) : /\ s[j] \notin {"get", "update"}
                                /\ s[j] = "create" =>
                                      /\ cmd.op = "create"
                                      /\ LooksUp(cmd) => \E h \in 1..(j - 1) : s[h] = "function"
    PROVE  PlanOK(cmd, s, << >>, seen)
<1>1. ASSUME NEW j \in 1..Len(s) PROVE InPlace(cmd, s, << >>, seen, j)
  BY DEF InPlace
<1> QED
  BY <1>1 DEF PlanOK

LEMMA OneCall ==
    ASSUME NEW cmd, NEW seen, NEW a \in CallNames, NEW s, s = <<a>>, a \notin {"get", "update"},
           cmd.op # "update", a = "create" => cmd.op = "create" /\ ~LooksUp(cmd)
    PROVE  PlanOK(cmd, s, << >>, seen) /\ s # << >>
<1>1. s \in Seq(CallNames) /\ Len(s) = 1 /\ s[1] = a
  BY Tuples
<1>2. ASSUME NEW j \in 1..Len(s) PROVE s[j] = a
  BY <1>1
<1>3. PlanOK(cmd, s, << >>, seen)
  BY <1>1, <1>2, CreatePlan
<1> QED
  BY <1>3

LEMMA TwoCalls ==
    ASSUME NEW cmd, NEW seen, NEW a \in CallNames, NEW b \in CallNames, NEW s, s = <<a, b>>,
           a \notin {"get", "update", "create"}, b \notin {"get", "update"}, cmd.op # "update",
           b = "create" => cmd.op = "create" /\ a = "function"
    PROVE  PlanOK(cmd, s, << >>, seen) /\ s # << >>
<1>1. s \in Seq(CallNames) /\ Len(s) = 2 /\ s[1] = a /\ s[2] = b
  BY Tuples
<1>2. ASSUME NEW j \in 1..Len(s)
      PROVE  /\ s[j] \notin {"get", "update"}
             /\ s[j] = "create" => cmd.op = "create" /\ \E h \in 1..(j - 1) : s[h] = "function"
  <2>1. CASE j = 1
    BY <1>1, <2>1
  <2>2. CASE j = 2
    <3>1. 1 \in 1..(j - 1)
      BY <2>2
    <3> QED
      BY <1>1, <2>2, <3>1
  <2> QED
    BY <1>1, <2>1, <2>2
<1>3. PlanOK(cmd, s, << >>, seen)
  BY <1>1, <1>2, CreatePlan
<1> QED
  BY <1>3

LEMMA ThreeCalls ==
    ASSUME NEW cmd, NEW seen, NEW s, s = <<"function", "secret", "create">>, cmd.op = "create"
    PROVE  PlanOK(cmd, s, << >>, seen) /\ s # << >>
<1>1. s \in Seq(CallNames) /\ Len(s) = 3 /\ s[1] = "function" /\ s[2] = "secret" /\ s[3] = "create"
  BY DEF CallNames
<1>2. ASSUME NEW j \in 1..Len(s)
      PROVE  /\ s[j] \notin {"get", "update"}
             /\ s[j] = "create" => cmd.op = "create" /\ \E h \in 1..(j - 1) : s[h] = "function"
  <2>1. CASE j \in {1, 2}
    BY <1>1, <2>1
  <2>2. CASE j = 3
    <3>1. 1 \in 1..(j - 1)
      BY <2>2
    <3> QED
      BY <1>1, <2>2, <3>1
  <2> QED
    BY <1>1, <2>1, <2>2
<1>3. PlanOK(cmd, s, << >>, seen)
  BY <1>1, <1>2, CreatePlan
<1> QED
  BY <1>3

\* The calls of an update.
LEMMA UpdatePlan ==
    ASSUME NEW cmd, NEW seen, NEW s, cmd.op = "update",
           \/ s = <<"function", "get", "update">>
           \/ s = <<"get", "function", "update">>
           \/ s = <<"get", "update">> /\ ~LooksUp(cmd)
    PROVE  PlanOK(cmd, s, << >>, seen) /\ s # << >>
<1>1. CASE s = <<"get", "update">> /\ ~LooksUp(cmd)
  <2>1. s \in Seq(CallNames) /\ Len(s) = 2 /\ s[1] = "get" /\ s[2] = "update"
    BY <1>1 DEF CallNames
  <2>2. InPlace(cmd, s, << >>, seen, 1)
    BY <2>1 DEF InPlace
  <2>3. InPlace(cmd, s, << >>, seen, 2)
    BY <1>1, <2>1, 1 \in 1..(2 - 1) DEF InPlace
  <2>4. \A j \in 1..2 : InPlace(cmd, s, << >>, seen, j)
    BY <2>2, <2>3
  <2> QED
    BY <1>1, <2>1, <2>4, 2 \in 1..2 DEF PlanOK
<1>2. ASSUME NEW a \in 1..2, NEW b \in 1..2, a # b, s \in Seq(CallNames), Len(s) = 3,
             s[a] = "get", s[b] = "function", s[3] = "update"
      PROVE  PlanOK(cmd, s, << >>, seen)
  <2>1. a \in 1..(3 - 1) /\ b \in 1..(3 - 1)
    OBVIOUS
  <2>2. ASSUME NEW j \in 1..3 PROVE InPlace(cmd, s, << >>, seen, j)
    <3>1. j = a \/ j = b \/ j = 3
      BY <1>2
    <3>2. CASE j = a
      <4>1. \A h \in 1..Len(s) : h = a \/ h = b \/ h = 3
        BY <1>2
      <4>2. \A h \in 1..Len(s) : s[h] = "get" => h = j
        BY <1>2, <3>2, <4>1
      <4> QED
        BY <1>2, <3>2, <4>2 DEF InPlace
    <3>3. CASE j = b
      BY <1>2, <3>3 DEF InPlace
    <3>4. CASE j = 3
      BY <1>2, <2>1, <3>4 DEF InPlace
    <3> QED
      BY <3>1, <3>2, <3>3, <3>4
  <2> QED
    BY <1>2, <2>2, 3 \in 1..3 DEF PlanOK
<1>3. CASE s = <<"function", "get", "update">>
  <2>1. s \in Seq(CallNames) /\ Len(s) = 3 /\ s[2] = "get" /\ s[1] = "function" /\ s[3] = "update"
    BY <1>3 DEF CallNames
  <2> QED
    BY <1>2, <1>3, <2>1
<1>4. CASE s = <<"get", "function", "update">>
  <2>1. s \in Seq(CallNames) /\ Len(s) = 3 /\ s[1] = "get" /\ s[2] = "function" /\ s[3] = "update"
    BY <1>4 DEF CallNames
  <2> QED
    BY <1>2, <1>4, <2>1
<1> QED
  BY <1>1, <1>3, <1>4

\* Every command starts with its calls in a sound order.
LEMMA CallsPlanned ==
    ASSUME NEW cmd \in Commands, NEW seen
    PROVE  PlanOK(cmd, Calls(cmd), << >>, seen)
<1>1. /\ cmd.kind \in {"http", "cronjob", "kafka", "nats", "kinesis"}
      /\ \/ cmd.op \in {"create", "update", "delete"}
         \/ cmd.op = "create-stream" /\ cmd.kind = "kinesis"
         \/ cmd.op = "publish" /\ cmd.kind \in {"kinesis", "nats"}
  BY CommandsAssumption DEF Kinds
<1>2. ASSUME NEW s, PlanOK(cmd, s, << >>, seen), s # << >>,
             Calls(cmd) = IF cmd.dryrun THEN Front(s) ELSE s
      PROVE  PlanOK(cmd, Calls(cmd), << >>, seen)
  BY <1>2, DryPlan
<1>3. {"function", "secret", "keys", "get", "create", "update", "delete", "stream", "put", "nats"}
          \subseteq CallNames
  BY DEF CallNames
<1>4. PICK s : /\ Calls(cmd) = IF cmd.dryrun THEN Front(s) ELSE s
               /\ \/ cmd.op # "update" /\ s = <<"function", "create">> /\ cmd.op = "create"
                  \/ cmd.op # "update" /\ s = <<"create">> /\ cmd.op = "create" /\ ~LooksUp(cmd)
                  \/ s = <<"function", "secret", "create">> /\ cmd.op = "create"
                  \/ cmd.op # "update" /\ s = <<"delete">>
                  \/ cmd.op # "update" /\ s = <<"keys", "stream">>
                  \/ cmd.op # "update" /\ s = <<"keys", "put">>
                  \/ cmd.op # "update" /\ s = <<"nats">>
                  \/ cmd.op = "update" /\ s = <<"function", "get", "update">>
                  \/ cmd.op = "update" /\ s = <<"get", "function", "update">>
                  \/ cmd.op = "update" /\ s = <<"get", "update">> /\ ~LooksUp(cmd)
  BY <1>1 DEF Calls, createCalls, streamCalls, updateCalls, LooksUp
<1>5. PlanOK(cmd, s, << >>, seen) /\ s # << >>
  BY <1>3, <1>4, OneCall, TwoCalls, ThreeCalls, UpdatePlan
<1> QED
  BY <1>2, <1>4, <1>5

\* The order is still sound after the first call.  That call has read the trigger, or
\* leaves what the client holds; a look-up found the function.
LEMMA PlanRest ==
    ASSUME NEW cmd, NEW todo, NEW snap, NEW seen, NEW read,
           PlanOK(cmd, todo, snap, seen), todo # << >>, Len(todo) # 1,
           Head(todo) \notin {"create", "update"},
           IF Head(todo) = "get" THEN read # << >> ELSE read = snap,
           Head(todo) = "function" => Named(cmd) \in seen
    PROVE  PlanOK(cmd, Tail(todo), read, seen) /\ Tail(todo) # << >>
<1>0. PICK rest, n : rest = Tail(todo) /\ n = Len(todo)
  OBVIOUS
<1>1. /\ n \in Nat \ {0} /\ n = Len(todo)
      /\ Head(todo) = todo[1]
      /\ rest \in Seq(CallNames) /\ rest # << >>
      /\ Len(rest) = n - 1
      /\ \A j \in 1..(n - 1) : rest[j] = todo[j + 1]
  BY <1>0, Rest DEF PlanOK
<1>2. \A j \in 1..n : InPlace(cmd, todo, snap, seen, j)
  BY <1>0 DEF PlanOK
<1>3. snap # << >> \/ Head(todo) = "get" => read # << >>
  OBVIOUS
<1>4. ASSUME NEW j \in 1..(n - 1) PROVE InPlace(cmd, rest, read, seen, j)
  <2>1. /\ j + 1 \in 1..n /\ rest[j] = todo[j + 1] /\ InPlace(cmd, todo, snap, seen, j + 1)
        /\ 1 \in 1..n /\ j + 1 # 1
    BY <1>1, <1>2
  <2>2. ASSUME NEW call, \E h \in 1..(j + 1 - 1) : todo[h] = call
        PROVE  Head(todo) = call \/ \E h \in 1..(j - 1) : rest[h] = call
    <3>1. PICK h \in 1..j : todo[h] = call
      BY <2>2
    <3>2. CASE h = 1
      BY <1>1, <3>1, <3>2
    <3>3. CASE h # 1
      <4>1. h - 1 \in 1..(j - 1) /\ h - 1 \in 1..(n - 1) /\ (h - 1) + 1 = h
        BY <1>1, <3>3
      <4> QED
        BY <1>1, <3>1, <4>1
    <3> QED
      BY <3>2, <3>3
  <2>3. rest[j] = "create" => cmd.op = "create"
    BY <2>1 DEF InPlace
  <2>4. ASSUME rest[j] = "get"
        PROVE  /\ cmd.op = "update" /\ read = << >>
               /\ \A h \in 1..Len(rest) : rest[h] = "get" => h = j
    <3>1. snap = << >> /\ cmd.op = "update" /\ \A h \in 1..n : todo[h] = "get" => h = j + 1
      BY <1>1, <2>1, <2>4 DEF InPlace
    <3>2. Head(todo) # "get"
      BY <1>1, <2>1, <3>1
    <3>3. ASSUME NEW h \in 1..(n - 1), rest[h] = "get" PROVE h = j
      <4>1. h + 1 \in 1..n /\ todo[h + 1] = "get"
        BY <1>1, <3>3
      <4> QED
        BY <3>1, <4>1
    <3> QED
      BY <1>1, <3>1, <3>2, <3>3
  <2>5. ASSUME rest[j] = "update"
        PROVE  cmd.op = "update" /\ (read # << >> \/ \E h \in 1..(j - 1) : rest[h] = "get")
    <3>1. cmd.op = "update" /\ (snap # << >> \/ \E h \in 1..(j + 1 - 1) : todo[h] = "get")
      BY <2>1, <2>5 DEF InPlace
    <3> QED
      BY <1>3, <2>2, <3>1
  <2>6. ASSUME rest[j] \in {"create", "update"}, LooksUp(cmd)
        PROVE  Named(cmd) \in seen \/ \E h \in 1..(j - 1) : rest[h] = "function"
    <3>1. Named(cmd) \in seen \/ \E h \in 1..(j + 1 - 1) : todo[h] = "function"
      BY <2>1, <2>6 DEF InPlace
    <3> QED
      BY <2>2, <3>1
  <2> QED
    BY <2>3, <2>4, <2>5, <2>6 DEF InPlace
<1>5. ASSUME cmd.op = "update", ~cmd.dryrun PROVE \E j \in 1..Len(rest) : rest[j] = "update"
  <2>1. PICK j \in 1..n : todo[j] = "update"
    BY <1>1, <1>5 DEF PlanOK
  <2>2. j # 1
    BY <1>1, <2>1
  <2>3. j - 1 \in 1..(n - 1) /\ (j - 1) + 1 = j
    BY <1>1, <2>2
  <2> QED
    BY <1>1, <2>1, <2>3
<1>6. read # << >> => cmd.op = "update"
  <2>1. CASE Head(todo) = "get"
    BY <1>1, <1>2, <2>1, 1 \in 1..n DEF InPlace
  <2>2. CASE Head(todo) # "get"
    BY <2>2 DEF PlanOK
  <2> QED
    BY <2>1, <2>2
<1>7. PlanOK(cmd, rest, read, seen)
  BY <1>1, <1>4, <1>5, <1>6 DEF PlanOK
<1> QED
  BY <1>0, <1>1, <1>7

\* A client that sees more functions is still in order.
LEMMA PlanGrows ==
    ASSUME NEW cmd, NEW todo, NEW snap, NEW seen, NEW more, seen \subseteq more,
           PlanOK(cmd, todo, snap, seen)
    PROVE  PlanOK(cmd, todo, snap, more)
<1>1. ASSUME NEW j \in 1..Len(todo) PROVE InPlace(cmd, todo, snap, more, j)
  BY DEF PlanOK, InPlace
<1> QED
  BY <1>1 DEF PlanOK

-----------------------------------------------------------------------------
(* What the commands write                                                 *)

LEMMA KindOf ==
    ASSUME NEW cmd \in Commands
    PROVE  cmd.kind = "http" \/ cmd.kind = "cronjob" \/ cmd.kind = "kafka" \/ cmd.kind = "nats"
              \/ cmd.kind = "kinesis"
  BY CommandsAssumption DEF Kinds

\* What Created and Updated are for each kind.
LEMMA ByKind ==
    ASSUME NEW cmd, NEW old
    PROVE  /\ cmd.kind = "http" => Created(cmd) = createHTTP(cmd) /\ Updated(cmd, old) = updateHTTP(cmd, old)
           /\ cmd.kind = "cronjob" => Created(cmd) = createCronJob(cmd) /\ Updated(cmd, old) = createCronJob(cmd)
           /\ cmd.kind = "kafka" => Created(cmd) = createKafka(cmd) /\ Updated(cmd, old) = updateKafka(cmd, old)
           /\ cmd.kind = "nats" => Created(cmd) = createNats(cmd) /\ Updated(cmd, old) = updateNats(cmd, old)
           /\ cmd.kind = "kinesis" => Created(cmd) = createKinesis(cmd) /\ Updated(cmd, old) = updateKinesis(cmd, old)
  BY DEF Created, Updated, updateCronJob

\* A command writes every field of its kind and no other.
LEMMA Complete ==
    ASSUME NEW cmd \in Commands, NEW old
    PROVE  DOMAIN Created(cmd) = FieldsOf(cmd.kind) /\ DOMAIN Updated(cmd, old) = FieldsOf(cmd.kind)
<1>1. DOMAIN createHTTP(cmd) = FieldsOf("http") /\ DOMAIN updateHTTP(cmd, old) = FieldsOf("http")
  BY Zenon DEF createHTTP, updateHTTP
<1>2. DOMAIN createCronJob(cmd) = FieldsOf("cronjob")
  BY Zenon DEF createCronJob
<1>3. DOMAIN createKafka(cmd) = FieldsOf("kafka") /\ DOMAIN updateKafka(cmd, old) = FieldsOf("kafka")
  BY Zenon DEF createKafka, updateKafka
<1>4. DOMAIN createNats(cmd) = FieldsOf("nats") /\ DOMAIN updateNats(cmd, old) = FieldsOf("nats")
  BY Zenon DEF createNats, updateNats
<1>5. DOMAIN createKinesis(cmd) = FieldsOf("kinesis") /\ DOMAIN updateKinesis(cmd, old) = FieldsOf("kinesis")
  BY Zenon DEF createKinesis, updateKinesis
<1> QED
  BY <1>1, <1>2, <1>3, <1>4, <1>5, KindOf, ByKind

\* An update keeps the fields it has no flag for.
LEMMA Keeps ==
    ASSUME NEW cmd \in Commands, NEW old,
           NEW x \in FieldsOf(cmd.kind) \ (DOMAIN cmd.set \union Always(cmd.kind))
    PROVE  Updated(cmd, old)[x] = old[x]
<1>1. x \in FieldsOf(cmd.kind) /\ ~Given(cmd, x) /\ x \notin Always(cmd.kind)
  BY DEF Given
<1>2. \A d : Flag(cmd, x, d) = d
  BY <1>1, Zenon DEF Flag
<1>3. CASE cmd.kind = "http"
  <2>1. x # "acme" /\ x \in FieldsOf("http")
    BY <1>1, <1>3 DEF Always
  <2>2. updateHTTP(cmd, old)[x] = old[x]
    BY <1>2, <2>1, Zenon DEF updateHTTP
  <2> QED
    BY <1>3, <2>2, ByKind
<1>4. CASE cmd.kind = "cronjob"
  BY <1>1, <1>4 DEF Always
<1>5. CASE cmd.kind = "kafka"
  BY <1>1, <1>2, <1>5, ByKind DEF updateKafka
<1>6. CASE cmd.kind = "nats"
  BY <1>1, <1>2, <1>6, ByKind DEF updateNats
<1>7. CASE cmd.kind = "kinesis"
  BY <1>1, <1>2, <1>7, ByKind DEF updateKinesis
<1> QED
  BY <1>3, <1>4, <1>5, <1>6, <1>7, KindOf

\* The function a command leaves in a trigger: the one it named and looked up, or the
\* one that was there.
LEMMA FunctionWritten ==
    ASSUME NEW cmd \in Commands, NEW old, "function" \in FieldsOf(cmd.kind)
    PROVE  /\ cmd.op = "create" => LooksUp(cmd) /\ Created(cmd)["function"] = Named(cmd)
           /\ cmd.op = "update" => \/ LooksUp(cmd) /\ Updated(cmd, old)["function"] = Named(cmd)
                                   \/ Updated(cmd, old)["function"] = old["function"]
<1>1. createHTTP(cmd)["function"] = Named(cmd)
  <2>1. "function" \in FieldsOf("http") /\ "function" # "gateway" /\ "function" # "host"
    BY DEF FieldsOf
  <2> QED
    BY <2>1, Zenon DEF createHTTP, Named
<1>2. createCronJob(cmd)["function"] = Named(cmd)
  <2>1. "function" \in FieldsOf("cronjob") /\ "function" # "payload"
    BY DEF FieldsOf
  <2> QED
    BY <2>1, Zenon DEF createCronJob, Named
<1>3. createKinesis(cmd)["function"] = Named(cmd)
  <2>1. "function" \in FieldsOf("kinesis")
    BY DEF FieldsOf
  <2> QED
    BY <2>1, Zenon DEF createKinesis, Named
<1>4. \/ Given(cmd, "function") /\ updateHTTP(cmd, old)["function"] = Named(cmd)
      \/ updateHTTP(cmd, old)["function"] = old["function"]
  <2>1. "function" \in FieldsOf("http") /\ "function" # "acme" /\ "function" # "cors"
    BY DEF FieldsOf
  <2>2. updateHTTP(cmd, old)["function"] = Flag(cmd, "function", old["function"])
    BY <2>1, Zenon DEF updateHTTP
  <2>3. CASE Given(cmd, "function")
    BY <2>2, <2>3, Zenon DEF Flag, Named
  <2>4. CASE ~Given(cmd, "function")
    BY <2>2, <2>4 DEF Flag
  <2> QED
    BY <2>3, <2>4
<1>5. updateKinesis(cmd, old)["function"] = old["function"]
  BY DEF updateKinesis, FieldsOf
<1>6. cmd.kind = "http" \/ cmd.kind = "cronjob" \/ cmd.kind = "kinesis"
  BY KindOf DEF FieldsOf
<1> QED
  BY <1>1, <1>2, <1>3, <1>4, <1>5, <1>6, ByKind DEF LooksUp

-----------------------------------------------------------------------------
(* The steps                                                               *)

LEMMA InitTriggerInv == Init => TriggerInv
<1> SUFFICES ASSUME Init PROVE TriggerInv
  OBVIOUS
<1>1. \A k \in Kinds : TriggerOK(k, trig[k], rv)
  BY DEF Init, TriggerOK
<1>2. \A c \in Clients : ClientOK(cl[c], fns)
  <2>1. ClientOK(Idle, {})
    BY DEF ClientOK, Idle
  <2> QED
    BY <2>1 DEF Init
<1> QED
  BY <1>1, <1>2, TriggerBounds DEF Init, TriggerInv

\* The triggers and versions of a state are sound.
ApiOK == DOMAIN trig = Kinds /\ rv \in 0..MaxVersion /\ \A k \in Kinds : TriggerOK(k, trig[k], rv)

\* One client moves on.
LEMMA Moves ==
    ASSUME TriggerInv, NEW c \in Clients, NEW new, cl' = [cl EXCEPT ![c] = new], ClientOK(new, fns),
           UNCHANGED <<fns, secret>>, ApiOK', nats' \in {"none", "lost", "done"}
    PROVE  TriggerInv'
<1>1. ASSUME NEW d \in Clients PROVE ClientOK(cl'[d], fns)
  <2>1. cl'[d] = IF d = c THEN new ELSE cl[d]
    BY DEF TriggerInv
  <2> QED
    BY <2>1 DEF TriggerInv
<1> QED
  BY <1>1 DEF TriggerInv, ApiOK

\* The end of a command.
Left(code) == [cmd |-> << >>, todo |-> << >>, snap |-> << >>, seen |-> {}, exit |-> code]

LEMMA Leaves ==
    ASSUME NEW c \in Clients, NEW code \in {"ok", "error"}, Exits(c, code)
    PROVE  cl' = [cl EXCEPT ![c] = Left(code)] /\ ClientOK(Left(code), fns)
<1>1. ASSUME NEW k, k = [Idle EXCEPT !.exit = code] PROVE k = Left(code)
  BY <1>1 DEF Idle, Left
<1>2. cl' = [cl EXCEPT ![c] = Left(code)]
  BY <1>1, Zenon DEF Exits
<1>3. ClientOK(Left(code), fns)
  BY DEF ClientOK, Left
<1> QED
  BY <1>2, <1>3

\* A command that ends.
LEMMA EndsStep ==
    ASSUME TriggerInv, NEW c \in Clients, NEW code \in {"ok", "error"}, Exits(c, code),
           UNCHANGED <<fns, secret>>, ApiOK', nats' \in {"none", "lost", "done"}
    PROVE  TriggerInv'
  BY Leaves, Moves

\* The triggers are left alone.
LEMMA ApiKept ==
    ASSUME TriggerInv, UNCHANGED api
    PROVE  ApiOK'
  BY DEF TriggerInv, ApiOK, api

\* What is known of a client that is about to make a call.
LEMMA AboutTo ==
    ASSUME TriggerInv, NEW c \in Clients, NEW call, Doing(c, call)
    PROVE  /\ Cmd(c) \in Commands /\ cl[c].cmd # << >> /\ cl[c].exit = "none"
           /\ fns \subseteq cl[c].seen /\ cl[c].seen \subseteq Functions
           /\ PlanOK(Cmd(c), cl[c].todo, cl[c].snap, cl[c].seen)
           /\ InPlace(Cmd(c), cl[c].todo, cl[c].snap, cl[c].seen, 1) /\ cl[c].todo[1] = call
<1>1. ClientOK(cl[c], fns) /\ cl[c].todo # << >>
  BY DEF TriggerInv, Doing
<1>2. /\ cl[c].cmd # << >> /\ cl[c].exit = "none"
      /\ fns \subseteq cl[c].seen /\ cl[c].seen \subseteq Functions
      /\ Cmd(c) \in Commands
      /\ PlanOK(Cmd(c), cl[c].todo, cl[c].snap, cl[c].seen)
  BY <1>1 DEF ClientOK, Cmd
<1>3. cl[c].todo \in Seq(CallNames)
  BY <1>2 DEF PlanOK
<1>4. Len(cl[c].todo) \in Nat \ {0} /\ Head(cl[c].todo) = cl[c].todo[1]
  BY <1>1, <1>3, Rest
<1>5. 1 \in 1..Len(cl[c].todo)
  BY <1>4
<1>6. InPlace(Cmd(c), cl[c].todo, cl[c].snap, cl[c].seen, 1)
  BY <1>2, <1>5 DEF PlanOK
<1> QED
  BY <1>2, <1>4, <1>6 DEF Doing

\* A call that reads has succeeded.
LEMMA ProceedsStep ==
    ASSUME TriggerInv, NEW c \in Clients, NEW call \in {"function", "secret", "keys", "get"},
           NEW read, Doing(c, call), Proceeds(c, read),
           IF call = "get" THEN read # << >> ELSE read = cl[c].snap,
           call = "function" => Named(Cmd(c)) \in fns,
           UNCHANGED <<fns, secret, api, cloud>>
    PROVE  TriggerInv'
<1>1. ApiOK' /\ nats' \in {"none", "lost", "done"} /\ UNCHANGED <<fns, secret>>
  BY ApiKept DEF cloud, TriggerInv
<1>2. CASE Len(cl[c].todo) = 1
  BY <1>1, <1>2, EndsStep DEF Proceeds
<1>3. CASE Len(cl[c].todo) # 1
  <2> DEFINE new == [cmd |-> cl[c].cmd, todo |-> Tail(cl[c].todo), snap |-> read,
                     seen |-> cl[c].seen, exit |-> cl[c].exit]
  <2>1. cl' = [cl EXCEPT ![c] = new]
    BY <1>3, Zenon DEF Proceeds
  <2>2. /\ PlanOK(Cmd(c), cl[c].todo, cl[c].snap, cl[c].seen)
        /\ cl[c].todo # << >> /\ Head(cl[c].todo) = call
        /\ call = "function" => Named(Cmd(c)) \in cl[c].seen
    BY AboutTo DEF Doing
  <2>3. PlanOK(Cmd(c), Tail(cl[c].todo), read, cl[c].seen) /\ Tail(cl[c].todo) # << >>
    BY <1>3, <2>2, PlanRest
  <2>4. /\ Cmd(c) \in Commands /\ cl[c].cmd # << >> /\ cl[c].exit = "none"
        /\ fns \subseteq cl[c].seen /\ cl[c].seen \subseteq Functions
    BY AboutTo
  <2>5. ClientOK(new, fns)
    BY <2>3, <2>4 DEF ClientOK, Cmd
  <2> HIDE DEF new
  <2> QED
    BY <1>1, <2>1, <2>5, Moves
<1> QED
  BY <1>2, <1>3

LEMMA EnterStep ==
    ASSUME TriggerInv, NEW c \in Clients, NEW cmd \in Commands, Enter(c, cmd)
    PROVE  TriggerInv'
<1>1. ApiOK' /\ nats' \in {"none", "lost", "done"} /\ UNCHANGED <<fns, secret>>
  BY ApiKept DEF Enter, cloud, TriggerInv
<1>2. CASE Exits(c, "error") \/ Exits(c, "ok")
  BY <1>1, <1>2, EndsStep
<1>3. CASE Valid(cmd) /\ Calls(cmd) # << >>
  <2> DEFINE new == [cmd |-> <<cmd>>, todo |-> Calls(cmd), snap |-> << >>, seen |-> fns, exit |-> "none"]
  <2>1. cl' = [cl EXCEPT ![c] = new]
    BY <1>3, Zenon DEF Enter
  <2>2. PlanOK(cmd, Calls(cmd), << >>, fns)
    BY CallsPlanned
  <2>3. <<cmd>> # << >> /\ Head(<<cmd>>) = cmd
    BY Single
  <2>4. ClientOK(new, fns)
    BY <1>3, <2>2, <2>3 DEF ClientOK, TriggerInv
  <2> HIDE DEF new
  <2> QED
    BY <1>1, <2>1, <2>4, Moves
<1> QED
  BY <1>2, <1>3, Zenon DEF Enter

LEMMA GetFunctionStep ==
    ASSUME TriggerInv, NEW c \in Clients, GetFunctionCustomResource(c)
    PROVE  TriggerInv'
<1>1. Doing(c, "function") /\ UNCHANGED <<fns, secret, api, cloud>>
  BY DEF GetFunctionCustomResource
<1>2. \/ Named(Cmd(c)) \in fns /\ Proceeds(c, cl[c].snap)
      \/ Exits(c, "error")
  BY Zenon DEF GetFunctionCustomResource, Named
<1>3. CASE Exits(c, "error")
  BY <1>1, <1>3, EndsStep, ApiKept DEF cloud, TriggerInv
<1>4. CASE Named(Cmd(c)) \in fns /\ Proceeds(c, cl[c].snap)
  BY <1>1, <1>4, ProceedsStep
<1> QED
  BY <1>2, <1>3, <1>4

LEMMA GetSecretStep ==
    ASSUME TriggerInv, NEW c \in Clients, GetSecret(c)
    PROVE  TriggerInv'
<1>1. UNCHANGED <<fns, secret, api, cloud>>
  BY DEF GetSecret
<1>2. CASE Exits(c, "error")
  BY <1>1, <1>2, EndsStep, ApiKept DEF cloud, TriggerInv
<1>3. ASSUME NEW call \in {"secret", "keys"}, Doing(c, call), Proceeds(c, cl[c].snap)
      PROVE  TriggerInv'
  BY <1>1, <1>3, ProceedsStep
<1> QED
  BY <1>2, <1>3 DEF GetSecret

LEMMA GetTriggerStep ==
    ASSUME TriggerInv, NEW c \in Clients, GetTrigger(c)
    PROVE  TriggerInv'
<1>1. Doing(c, "get") /\ UNCHANGED <<fns, secret, api, cloud>>
  BY DEF GetTrigger
<1>2. CASE Exits(c, "error")
  BY <1>1, <1>2, EndsStep, ApiKept DEF cloud, TriggerInv
<1>3. CASE trig[Cmd(c).kind] # << >> /\ Proceeds(c, trig[Cmd(c).kind])
  BY <1>1, <1>3, ProceedsStep
<1> QED
  BY <1>2, <1>3 DEF GetTrigger

\* A whole trigger is stored.
LEMMA StoresSound ==
    ASSUME TriggerInv, NEW kind \in Kinds, NEW spec, DOMAIN spec = FieldsOf(kind), Store(kind, spec)
    PROVE  ApiOK' /\ trig'[kind] # << >> /\ Head(trig'[kind]).spec = spec
<1> DEFINE o == [spec |-> spec, rv |-> rv + 1]
<1>1. /\ rv' = rv + 1 /\ rv' \in 0..MaxVersion /\ rv \in Nat
      /\ trig' = [trig EXCEPT ![kind] = <<o>>] /\ DOMAIN trig = Kinds
  BY TriggerBounds DEF Store, TriggerInv
<1>2. o.rv = rv + 1 /\ o.spec = spec
  OBVIOUS
<1> HIDE DEF o
<1>3. trig'[kind] = <<o>> /\ <<o>> # << >> /\ Head(<<o>>) = o
  BY <1>1, Single
<1>4. ASSUME NEW k \in Kinds PROVE TriggerOK(k, trig'[k], rv')
  <2>1. CASE k = kind
    BY <1>1, <1>2, <1>3, <2>1 DEF TriggerOK
  <2>2. CASE k # kind
    <3>1. trig'[k] = trig[k] /\ TriggerOK(k, trig[k], rv)
      BY <1>1, <2>2 DEF TriggerInv
    <3> QED
      BY <1>1, <3>1 DEF TriggerOK
  <2> QED
    BY <2>1, <2>2
<1>5. DOMAIN trig' = Kinds
  BY <1>1
<1> QED
  BY <1>1, <1>2, <1>3, <1>4, <1>5 DEF ApiOK

LEMMA CreateTriggerStep ==
    ASSUME TriggerInv, NEW c \in Clients, CreateTrigger(c)
    PROVE  TriggerInv'
<1>1. UNCHANGED <<fns, secret>> /\ nats' \in {"none", "lost", "done"}
  BY DEF CreateTrigger, cloud, TriggerInv
<1>2. Cmd(c) \in Commands /\ Cmd(c).kind \in Kinds
  BY AboutTo, CommandsAssumption DEF CreateTrigger
<1>3. CASE Store(Cmd(c).kind, Created(Cmd(c))) /\ Exits(c, "ok")
  <2>1. ApiOK'
    BY <1>2, <1>3, Complete, StoresSound
  <2> QED
    BY <1>1, <1>3, <2>1, EndsStep
<1>4. CASE Exits(c, "error") /\ UNCHANGED api
  BY <1>1, <1>4, EndsStep, ApiKept
<1> QED
  BY <1>3, <1>4 DEF CreateTrigger

LEMMA UpdateTriggerStep ==
    ASSUME TriggerInv, NEW c \in Clients, UpdateTrigger(c)
    PROVE  TriggerInv'
<1>1. UNCHANGED <<fns, secret>> /\ nats' \in {"none", "lost", "done"}
  BY DEF UpdateTrigger, cloud, TriggerInv
<1>2. Cmd(c) \in Commands /\ Cmd(c).kind \in Kinds
  BY AboutTo, CommandsAssumption DEF UpdateTrigger
<1>3. CASE Store(Cmd(c).kind, Updated(Cmd(c), Head(cl[c].snap).spec)) /\ Exits(c, "ok")
  <2>1. ApiOK'
    BY <1>2, <1>3, Complete, StoresSound
  <2> QED
    BY <1>1, <1>3, <2>1, EndsStep
<1>4. CASE Exits(c, "error") /\ UNCHANGED api
  BY <1>1, <1>4, EndsStep, ApiKept
<1> QED
  BY <1>3, <1>4 DEF UpdateTrigger

LEMMA DeleteTriggerStep ==
    ASSUME TriggerInv, NEW c \in Clients, DeleteTrigger(c)
    PROVE  TriggerInv'
<1>1. UNCHANGED <<fns, secret>> /\ nats' \in {"none", "lost", "done"}
  BY DEF DeleteTrigger, cloud, TriggerInv
<1>2. ApiOK'
  BY DEF DeleteTrigger, TriggerInv, ApiOK, TriggerOK
<1>3. Exits(c, "error") \/ Exits(c, "ok")
  BY Zenon DEF DeleteTrigger
<1> QED
  BY <1>1, <1>2, <1>3, EndsStep

\* The commands that do not touch triggers.
LEMMA CloudSteps ==
    ASSUME TriggerInv, NEW c \in Clients,
           CreateStream(c) \/ PutRecords(c) \/ publishTopic(c) \/ Interrupted(c)
    PROVE  TriggerInv'
<1>1. UNCHANGED <<fns, secret, api>> /\ nats' \in {"none", "lost", "done"}
  BY DEF CreateStream, PutRecords, publishTopic, Interrupted, cloud, TriggerInv
<1>2. Exits(c, "error") \/ Exits(c, "ok")
  BY DEF CreateStream, PutRecords, publishTopic, Interrupted
<1> QED
  BY <1>1, <1>2, EndsStep, ApiKept

LEMMA FunctionChangesStep ==
    ASSUME TriggerInv, NEW f \in Functions, FunctionChanges(f)
    PROVE  TriggerInv'
<1>1. fns' \subseteq Functions /\ UNCHANGED <<secret, api, cloud>>
  BY DEF FunctionChanges, TriggerInv
<1>2. ASSUME NEW c \in Clients PROVE ClientOK(cl'[c], fns')
  <2>1. ClientOK(cl[c], fns)
    BY DEF TriggerInv
  <2>2. CASE cl[c].cmd = << >>
    <3>1. cl'[c] = cl[c]
      BY <2>2, Zenon DEF FunctionChanges
    <3> QED
      BY <2>1, <2>2, <3>1 DEF ClientOK
  <2>3. CASE cl[c].cmd # << >>
    <3> DEFINE more == cl[c].seen \union fns'
    <3>1. cl'[c] = [cl[c] EXCEPT !.seen = more]
      BY <2>3, Zenon DEF FunctionChanges
    <3>2. /\ cl'[c].cmd = cl[c].cmd /\ cl'[c].todo = cl[c].todo /\ cl'[c].snap = cl[c].snap
          /\ cl'[c].exit = cl[c].exit /\ cl'[c].seen = more
          /\ cl'[c] = [cmd |-> cl[c].cmd, todo |-> cl[c].todo, snap |-> cl[c].snap,
                       seen |-> more, exit |-> cl[c].exit]
      BY <2>1, <3>1 DEF ClientOK
    <3>3. PlanOK(Head(cl[c].cmd), cl[c].todo, cl[c].snap, more)
      BY <2>1, <2>3, PlanGrows DEF ClientOK
    <3>4. more \subseteq Functions /\ fns' \subseteq more
      BY <1>1, <2>1 DEF ClientOK
    <3> HIDE DEF more
    <3> QED
      BY <2>1, <2>3, <3>2, <3>3, <3>4 DEF ClientOK
  <2> QED
    BY <2>2, <2>3
<1>3. DOMAIN cl' = Clients
  BY DEF FunctionChanges
<1> QED
  BY <1>1, <1>2, <1>3 DEF TriggerInv, api, cloud

LEMMA StepTriggerInv == TriggerInv /\ [Next]_vars => TriggerInv'
<1> SUFFICES ASSUME TriggerInv, [Next]_vars PROVE TriggerInv'
  OBVIOUS
<1>1. CASE UNCHANGED vars
  BY <1>1 DEF vars, TriggerInv
<1>2. ASSUME NEW s \in {"none", "nokeys", "keys"}, SecretChanges(s) PROVE TriggerInv'
  BY <1>2 DEF SecretChanges, TriggerInv, api, cloud
<1> QED
  BY <1>1, <1>2, EnterStep, GetFunctionStep, GetSecretStep, GetTriggerStep, CreateTriggerStep,
     UpdateTriggerStep, DeleteTriggerStep, CloudSteps, FunctionChangesStep DEF Next

\* The commands keep the calls on their lists in a sound order, and what they hold with it.
THEOREM TriggerInvariant == Spec => []TriggerInv
  BY InitTriggerInv, StepTriggerInv, PTL DEF Spec

\* The types, and that a client holds a trigger only between reading and writing it.
THEOREM TriggerTypeCorrect == Spec => []TypeOK
<1>1. ASSUME TriggerInv PROVE TypeOK
  <2>1. ASSUME NEW c \in Clients
        PROVE  /\ cl[c].seen \subseteq Functions /\ cl[c].exit \in {"none", "ok", "error"}
               /\ (cl[c].cmd = << >>) = (cl[c].todo = << >>)
               /\ cl[c].snap # << >> => /\ cl[c].cmd # << >> /\ ~Contains(cl[c].todo, "get")
                                        /\ Contains(cl[c].todo, "update") \/ Cmd(c).dryrun
    <3>1. ClientOK(cl[c], fns)
      BY <1>1 DEF TriggerInv
    <3>2. ASSUME cl[c].snap # << >>
          PROVE  ~Contains(cl[c].todo, "get") /\ (Contains(cl[c].todo, "update") \/ Cmd(c).dryrun)
      <4>1. PlanOK(Cmd(c), cl[c].todo, cl[c].snap, cl[c].seen)
        BY <3>1, <3>2 DEF ClientOK, Cmd
      <4> QED
        BY <3>2, <4>1 DEF PlanOK, InPlace, Contains
    <3> QED
      BY <3>1, <3>2 DEF ClientOK
  <2> QED
    BY <1>1, <2>1 DEF TriggerInv, TypeOK, TriggerOK
<1> QED
  BY <1>1, TriggerInvariant, PTL

-----------------------------------------------------------------------------
(* A write succeeds only in a step of the command's own.                   *)

ClientStep(c) ==
    \/ \E cmd \in Commands : Enter(c, cmd)
    \/ GetFunctionCustomResource(c) \/ GetSecret(c) \/ GetTrigger(c)
    \/ CreateTrigger(c) \/ UpdateTrigger(c) \/ DeleteTrigger(c)
    \/ CreateStream(c) \/ PutRecords(c) \/ publishTopic(c)
    \/ Interrupted(c)

LEMMA OthersUntouched ==
    ASSUME TriggerInv, NEW c \in Clients, NEW d \in Clients, c # d, ClientStep(d)
    PROVE  cl'[c] = cl[c]
<1>1. \E new : cl' = [cl EXCEPT ![d] = new]
  <2>1. ASSUME NEW code, Exits(d, code) PROVE \E new : cl' = [cl EXCEPT ![d] = new]
    BY <2>1, Zenon DEF Exits
  <2>2. ASSUME NEW read, Proceeds(d, read) PROVE \E new : cl' = [cl EXCEPT ![d] = new]
    BY <2>1, <2>2, Zenon DEF Proceeds
  <2>3. ASSUME NEW cmd \in Commands, Enter(d, cmd) PROVE \E new : cl' = [cl EXCEPT ![d] = new]
    BY <2>1, <2>3, Zenon DEF Enter
  <2>4. ASSUME GetFunctionCustomResource(d) PROVE \E new : cl' = [cl EXCEPT ![d] = new]
    BY <2>1, <2>2, <2>4, Zenon DEF GetFunctionCustomResource
  <2>5. ASSUME GetSecret(d) \/ GetTrigger(d) PROVE \E new : cl' = [cl EXCEPT ![d] = new]
    BY <2>1, <2>2, <2>5, Zenon DEF GetSecret, GetTrigger
  <2>6. ASSUME \/ CreateTrigger(d) \/ UpdateTrigger(d) \/ DeleteTrigger(d)
               \/ CreateStream(d) \/ PutRecords(d) \/ publishTopic(d)
               \/ Interrupted(d)
        PROVE \E new : cl' = [cl EXCEPT ![d] = new]
    BY <2>1, <2>6, Zenon DEF CreateTrigger, UpdateTrigger, DeleteTrigger, CreateStream, PutRecords,
       publishTopic, Interrupted
  <2> QED
    BY <2>3, <2>4, <2>5, <2>6 DEF ClientStep
<1> QED
  BY <1>1 DEF TriggerInv

\* What a command that wrote did.
LEMMA OwnWrite ==
    ASSUME TriggerInv, [Next]_vars, NEW c \in Clients, NEW op \in {"create", "update"}, Wrote(c, op)
    PROVE  LET k == Cmd(c).kind IN
           /\ op = "create" => Store(k, Created(Cmd(c)))
           /\ op = "update" => trig[k] = cl[c].snap /\ Store(k, Updated(Cmd(c), Head(cl[c].snap).spec))
<1>1. cl[c].cmd # << >> /\ cl[c].exit = "none" /\ Doing(c, op)
  BY AboutTo DEF Wrote
<1>2. cl'[c] # cl[c] /\ cl'[c].cmd # cl[c].cmd /\ cl'[c].exit = "ok"
  BY <1>1 DEF Wrote
<1>3. ~ \E f \in Functions : FunctionChanges(f)
  <2>1. ASSUME NEW f \in Functions, FunctionChanges(f) PROVE cl'[c].cmd = cl[c].cmd
    <3>1. cl'[c] = [cl[c] EXCEPT !.seen = @ \union fns']
      BY <1>1, <2>1, Zenon DEF FunctionChanges
    <3>2. ClientOK(cl[c], fns)
      BY DEF TriggerInv
    <3> QED
      BY <3>1, <3>2 DEF ClientOK
  <2> QED
    BY <1>2, <2>1
<1>4. PICK d \in Clients : ClientStep(d)
  BY <1>2, <1>3 DEF Next, vars, ClientStep, SecretChanges
<1>5. d = c
  BY <1>2, <1>4, OthersUntouched
<1>6. ~Exits(c, "error")
  <2>1. ASSUME Exits(c, "error") PROVE cl'[c].exit = "error"
    BY <2>1, Leaves DEF Left, TriggerInv
  <2> QED
    BY <1>2, <2>1
<1>7. \A call : Doing(c, call) => call = op
  BY <1>1 DEF Doing
<1>8. ~Interrupted(c) /\ ~ \E cmd \in Commands : Enter(c, cmd)
  BY <1>1, <1>6, Zenon DEF Interrupted, Enter
<1>9. ~GetFunctionCustomResource(c)
  <2>1. "function" # op
    OBVIOUS
  <2> QED
    BY <1>7, <2>1, Zenon DEF GetFunctionCustomResource
<1>10. CreateTrigger(c) \/ UpdateTrigger(c)
  BY <1>4, <1>5, <1>7, <1>8, <1>9 DEF ClientStep, GetSecret, GetTrigger, DeleteTrigger,
     CreateStream, PutRecords, publishTopic
<1> QED
  BY <1>6, <1>7, <1>10 DEF CreateTrigger, UpdateTrigger

-----------------------------------------------------------------------------
(* The theorems about what is written                                      *)

\* However the reads and writes of several users interleave, an update that succeeds
\* leaves every field it has no flag for as the last write left it: the version it sends
\* back makes the trigger it read the stored one.
THEOREM NoLostUpdateTheorem == Spec => NoLostUpdate
<1> DEFINE Kept == \A c \in Clients : Wrote(c, "update") =>
                      LET k == Cmd(c).kind IN
                      /\ trig[k] # << >>
                      /\ \A x \in FieldsOf(k) \ (DOMAIN Cmd(c).set \union Always(k)) :
                            Head(trig'[k]).spec[x] = Head(trig[k]).spec[x]
<1>1. TriggerInv /\ [Next]_vars => [Kept]_vars
  <2> SUFFICES ASSUME TriggerInv, [Next]_vars, NEW c \in Clients, Wrote(c, "update")
               PROVE  LET k == Cmd(c).kind IN
                      /\ trig[k] # << >>
                      /\ \A x \in FieldsOf(k) \ (DOMAIN Cmd(c).set \union Always(k)) :
                            Head(trig'[k]).spec[x] = Head(trig[k]).spec[x]
    OBVIOUS
  <2>1. /\ Cmd(c) \in Commands /\ InPlace(Cmd(c), cl[c].todo, cl[c].snap, cl[c].seen, 1)
        /\ cl[c].todo[1] = "update"
    BY AboutTo DEF Wrote
  <2>2. cl[c].snap # << >>
    BY <2>1 DEF InPlace
  <2>3. /\ trig[Cmd(c).kind] = cl[c].snap
        /\ Store(Cmd(c).kind, Updated(Cmd(c), Head(cl[c].snap).spec))
    BY OwnWrite
  <2>4. Cmd(c).kind \in Kinds
    BY <2>1, CommandsAssumption
  <2>5. Head(trig'[Cmd(c).kind]).spec = Updated(Cmd(c), Head(trig[Cmd(c).kind]).spec)
    BY <2>1, <2>3, <2>4, Complete, StoresSound
  <2> QED
    BY <2>1, <2>2, <2>3, <2>5, Keeps
<1> QED
  BY <1>1, TriggerInvariant, PTL DEF Spec, NoLostUpdate

\* A function that a command puts in a trigger existed while the command ran: the
\* look-up comes before the write in every list of calls, and what it found is
\* remembered in seen.
THEOREM FunctionLookedUpTheorem == Spec => FunctionLookedUp
<1> DEFINE Looked == \A c \in Clients : Wrote(c, "create") \/ Wrote(c, "update") =>
                        LET k == Cmd(c).kind IN
                        "function" \in FieldsOf(k) =>
                           \/ Head(trig'[k]).spec["function"] \in cl[c].seen
                           \/ trig[k] # << >> /\ Head(trig'[k]).spec["function"] = Head(trig[k]).spec["function"]
<1>1. TriggerInv /\ [Next]_vars => [Looked]_vars
  <2> SUFFICES ASSUME TriggerInv, [Next]_vars, NEW c \in Clients, NEW op \in {"create", "update"},
                      Wrote(c, op), "function" \in FieldsOf(Cmd(c).kind)
               PROVE  \/ Head(trig'[Cmd(c).kind]).spec["function"] \in cl[c].seen
                      \/ /\ trig[Cmd(c).kind] # << >>
                         /\ Head(trig'[Cmd(c).kind]).spec["function"] = Head(trig[Cmd(c).kind]).spec["function"]
    OBVIOUS
  <2>1. /\ Cmd(c) \in Commands /\ InPlace(Cmd(c), cl[c].todo, cl[c].snap, cl[c].seen, 1)
        /\ cl[c].todo[1] = op
    BY AboutTo DEF Wrote
  <2>2. Cmd(c).op = op /\ (LooksUp(Cmd(c)) => Named(Cmd(c)) \in cl[c].seen)
    BY <2>1 DEF InPlace
  <2>3. Cmd(c).kind \in Kinds
    BY <2>1, CommandsAssumption
  <2>4. CASE op = "create"
    <3>1. Store(Cmd(c).kind, Created(Cmd(c)))
      BY <2>4, OwnWrite
    <3>2. Head(trig'[Cmd(c).kind]).spec = Created(Cmd(c))
      BY <2>1, <2>3, <3>1, Complete, StoresSound
    <3> QED
      BY <2>1, <2>2, <2>4, <3>2, FunctionWritten
  <2>5. CASE op = "update"
    <3>1. /\ trig[Cmd(c).kind] = cl[c].snap
          /\ Store(Cmd(c).kind, Updated(Cmd(c), Head(cl[c].snap).spec))
      BY <2>5, OwnWrite
    <3>2. Head(trig'[Cmd(c).kind]).spec = Updated(Cmd(c), Head(trig[Cmd(c).kind]).spec)
      BY <2>1, <2>3, <3>1, Complete, StoresSound
    <3>3. cl[c].snap # << >>
      BY <2>1, <2>5 DEF InPlace
    <3> QED
      BY <2>1, <2>2, <2>5, <3>1, <3>2, <3>3, FunctionWritten
  <2> QED
    BY <2>4, <2>5
<1> QED
  BY <1>1, TriggerInvariant, PTL DEF Spec, FunctionLookedUp

=============================================================================
