--------------------------- MODULE FunctionCLIProofs ---------------------------
(***************************************************************************)
(* Proofs about the commands that write a Function, for any number of      *)
(* users and any command lines: what an autoscale command may change, what *)
(* an update keeps, that an autoscaler has a metric, and that a deploy     *)
(* reports its schedule truthfully.                                        *)
(***************************************************************************)
EXTENDS FunctionCLI, SequenceTheorems, TLAPS

\* A Function as the API server stores it, of version 1..v.
IsFunction(o, v) ==
    /\ o = [f |-> o.f, labels |-> o.labels, nodes |-> o.nodes, secrets |-> o.secrets,
            hpa |-> o.hpa, rv |-> o.rv]
    /\ DOMAIN o.f = Fields
    /\ o.secrets \in Seq(STRING)
    /\ o.hpa = [name |-> o.hpa.name, target |-> o.hpa.target, max |-> o.hpa.max, metric |-> o.hpa.metric]
    /\ o.hpa.name # 0 => o.hpa.metric # 0
    /\ o.rv \in 1..v

\* Nothing, or one Function.
AtMostOne(s, v) == s # << >> => s = <<Head(s)>> /\ IsFunction(Head(s), v)

\* A client that runs a command has it and no exit code yet, and holds a Function
\* exactly while it is about to write.
ClientOK(k) ==
    /\ k = [pc |-> k.pc, cmd |-> k.cmd, snap |-> k.snap, exit |-> k.exit]
    /\ k.pc \in {"idle", "run", "write", "cron"}
    /\ k.exit \in {"none", "ok", "error"}
    /\ k.pc # "idle" => k.exit = "none" /\ \E cmd \in Commands : k.cmd = <<cmd>>
    /\ (k.pc = "write") = (k.snap # << >>)

\* What a client read is a version of the Function, and the stored one if it has the
\* same number: this is what the check of the version on an update relies on.
SnapshotOK(s) ==
    /\ AtMostOne(s, rv)
    /\ s # << >> /\ fn # << >> /\ Head(s).rv = Head(fn).rv => s = fn

\* The inductive invariant.
CliInv ==
    /\ rv \in 0..MaxVersion /\ cron \in Nat
    /\ AtMostOne(fn, rv)
    /\ DOMAIN cl = Clients
    /\ \A c \in Clients : ClientOK(cl[c]) /\ SnapshotOK(cl[c].snap)

-----------------------------------------------------------------------------
\* One element in a sequence.
LEMMA Single ==
    ASSUME NEW o
    PROVE  <<o>> # << >> /\ Head(<<o>>) = o
  OBVIOUS

\* A Function of an earlier version is one of a later.
LEMMA LaterVersion ==
    ASSUME NEW s, NEW v \in Nat, NEW w \in Nat, v <= w, AtMostOne(s, v)
    PROVE  AtMostOne(s, w)
  BY DEF AtMostOne, IsFunction

LEMMA InitCliInv == Init => CliInv
  BY CliBounds DEF Init, CliInv, Idle, AtMostOne, ClientOK, SnapshotOK

\* One client moves on and the Function is left alone, deleted or stored under the
\* next version.
LEMMA Moves ==
    ASSUME CliInv, NEW c \in Clients, NEW new,
           cl' = [cl EXCEPT ![c] = new], ClientOK(new),
           new.snap # << >> => new.snap = fn /\ UNCHANGED <<fn, rv>>,
           \/ UNCHANGED <<fn, rv>>
           \/ fn' = << >> /\ rv' = rv
           \/ /\ rv < MaxVersion /\ rv' = rv + 1
              /\ \E o : fn' = <<o>> /\ IsFunction(o, rv + 1) /\ o.rv = rv + 1,
           cron' \in Nat
    PROVE  CliInv'
<1> USE DEF CliInv
<1>1. rv \in Nat /\ rv' \in 0..MaxVersion /\ rv <= rv'
  BY CliBounds
<1>2. AtMostOne(fn', rv')
  <2>1. ASSUME NEW o, fn' = <<o>>, IsFunction(o, rv + 1), rv' = rv + 1 PROVE AtMostOne(fn', rv')
    BY <2>1, Single DEF AtMostOne
  <2>2. CASE fn' = << >>
    BY <2>2 DEF AtMostOne
  <2>3. CASE UNCHANGED <<fn, rv>>
    BY <2>3
  <2> QED
    BY <2>1, <2>2, <2>3
<1>3. ASSUME NEW s, SnapshotOK(s)
      PROVE  SnapshotOK(s)'
  <2>1. AtMostOne(s, rv')
    BY <1>1, <1>3, LaterVersion DEF SnapshotOK
  <2>2. ASSUME NEW o, fn' = <<o>>, o.rv = rv + 1, s # << >> PROVE Head(s).rv # Head(fn').rv
    <3>1. Head(s).rv \in 1..rv
      BY <1>3, <2>2 DEF SnapshotOK, AtMostOne, IsFunction
    <3>2. Head(fn') = o
      BY <2>2, Single
    <3> QED
      BY <1>1, <2>2, <3>1, <3>2
  <2> QED
    BY <1>3, <2>1, <2>2 DEF SnapshotOK
<1>4. ASSUME NEW d \in Clients PROVE ClientOK(cl'[d]) /\ SnapshotOK(cl[d].snap)'
  <2>1. CASE d # c
    BY <1>3, <2>1
  <2>2. CASE d = c
    <3>1. cl'[d] = new
      BY <2>2
    <3>2. SnapshotOK(new.snap)
      BY <3>1 DEF SnapshotOK, AtMostOne
    <3> QED
      BY <1>3, <3>1, <3>2
  <2> QED
    BY <2>1, <2>2
<1> QED
  BY <1>1, <1>2, <1>4

-----------------------------------------------------------------------------
(* What the commands build                                                 *)

\* The end of a command.
Left(code) == [pc |-> "idle", cmd |-> << >>, snap |-> << >>, exit |-> code]

LEMMA Leaves ==
    ASSUME CliInv, NEW c \in Clients, NEW code \in {"ok", "error"}, Exits(c, code)
    PROVE  cl' = [cl EXCEPT ![c] = Left(code)] /\ ClientOK(Left(code)) /\ Left(code).snap = << >>
<1>1. [Idle EXCEPT !.exit = code] = Left(code)
  BY DEF Idle, Left
<1>2. cl' = [cl EXCEPT ![c] = Left(code)]
  BY <1>1, Zenon DEF Exits
<1>3. ClientOK(Left(code)) /\ Left(code).snap = << >>
  BY DEF ClientOK, Left
<1> QED
  BY <1>2, <1>3

\* The command of a client that runs one, and what it holds.
LEMMA CommandOf ==
    ASSUME CliInv, NEW c \in Clients, cl[c].pc # "idle"
    PROVE  /\ Cmd(c) \in Commands
           /\ cl[c].exit = "none"
           /\ cl[c].pc = "write" => cl[c].snap # << >> /\ IsFunction(Head(cl[c].snap), rv)
<1>1. PICK cmd \in Commands : cl[c].cmd = <<cmd>>
  BY DEF CliInv, ClientOK
<1>2. Cmd(c) = cmd
  BY <1>1, Single DEF Cmd
<1> QED
  BY <1>2 DEF CliInv, ClientOK, SnapshotOK, AtMostOne

\* A write of a Function with the parts it must have.
LEMMA Stores ==
    ASSUME CliInv, NEW o, Store(o), rv < MaxVersion,
           DOMAIN o.f = Fields, o.secrets \in Seq(STRING),
           o.hpa = [name |-> o.hpa.name, target |-> o.hpa.target, max |-> o.hpa.max, metric |-> o.hpa.metric],
           o.hpa.name # 0 => o.hpa.metric # 0
    PROVE  /\ rv' = rv + 1
           /\ \E n : fn' = <<n>> /\ IsFunction(n, rv + 1) /\ n.rv = rv + 1
           /\ Head(fn').f = o.f /\ Head(fn').labels = o.labels /\ Head(fn').secrets = o.secrets
           /\ Head(fn').nodes = o.nodes /\ Head(fn').hpa = o.hpa
<1> DEFINE n == [f |-> o.f, labels |-> o.labels, nodes |-> o.nodes, secrets |-> o.secrets,
                 hpa |-> o.hpa, rv |-> rv + 1]
<1>1. fn' = <<n>> /\ rv' = rv + 1
  BY DEF Store
<1>2. Head(fn') = n
  BY <1>1, Single
<1>3. IsFunction(n, rv + 1) /\ n.rv = rv + 1
  BY DEF IsFunction, CliInv
<1> QED
  BY <1>1, <1>2, <1>3

\* Both autoscalers a command can write are complete.
LEMMA Autoscalers ==
    ASSUME NEW cmd
    PROVE  /\ NoHpa = [name |-> NoHpa.name, target |-> NoHpa.target, max |-> NoHpa.max, metric |-> NoHpa.metric]
           /\ NoHpa.name = 0
           /\ LET h == getHorizontalAutoscaleDefinition(cmd) IN
                 /\ h = [name |-> h.name, target |-> h.target, max |-> h.max, metric |-> h.metric]
                 /\ h.name # 0 => h.metric # 0
  BY DEF NoHpa, getHorizontalAutoscaleDefinition

\* The parts of a Function d that a deploy or an update builds from a previous one.
BuiltFrom(cmd, prev, d) ==
    /\ DOMAIN d.f = Fields
    /\ \A x \in Kept \ Named(cmd) : d.f[x] = prev.f[x]
    /\ d.labels = Over(parseLabel(cmd.labels), prev.labels)
    /\ d.secrets \in Seq(STRING)
    /\ d.secrets = prev.secrets \o cmd.secrets
    /\ d.hpa = prev.hpa

LEMMA Described ==
    ASSUME NEW cmd \in Commands, NEW prev, prev.secrets \in Seq(STRING)
    PROVE  BuiltFrom(cmd, prev, getFunctionDescription(cmd, prev))
<1>1. cmd.secrets \in Seq(STRING)
  BY CommandsAssumption
<1>2. prev.secrets \o cmd.secrets \in Seq(STRING)
  BY <1>1
<1>3. \A x \in Kept : x \in Fields /\ x \notin Defaulted
  BY DEF Kept, Defaulted, Fields, Resources
<1>4. \A x \in DOMAIN cmd.set : x \in Named(cmd)
  BY DEF Named
<1> QED
  BY <1>2, <1>3, <1>4 DEF getFunctionDescription, BuiltFrom

\* What a merge patch of new into o leaves: the new fields, and an autoscaler that has
\* a metric if either side had.
MergedFrom(o, new, m) ==
    /\ m.f = new.f /\ DOMAIN m.f = Fields
    /\ m.labels = Over(new.labels, o.labels)
    /\ m.secrets = (IF new.secrets = << >> THEN o.secrets ELSE new.secrets)
    /\ m.secrets \in Seq(STRING)
    /\ m.hpa = [name |-> m.hpa.name, target |-> m.hpa.target, max |-> m.hpa.max, metric |-> m.hpa.metric]
    /\ m.hpa.name # 0 => m.hpa.metric # 0
    /\ new.hpa = o.hpa => m.hpa = o.hpa

LEMMA Patched ==
    ASSUME NEW o, IsFunction(o, rv), NEW new,
           DOMAIN new.f = Fields, new.secrets \in Seq(STRING),
           new.hpa.name # 0 => new.hpa.metric # 0
    PROVE  MergedFrom(o, new, PatchFunctionCustomResource(o, new))
<1> DEFINE m == PatchFunctionCustomResource(o, new)
<1>1. /\ m.f = new.f
      /\ m.labels = Over(new.labels, o.labels)
      /\ m.secrets = (IF new.secrets = << >> THEN o.secrets ELSE new.secrets)
      /\ m.hpa = [name |-> IF new.hpa.name = 0 THEN o.hpa.name ELSE new.hpa.name,
                  metric |-> IF new.hpa.metric = 0 THEN o.hpa.metric ELSE new.hpa.metric,
                  target |-> new.hpa.target, max |-> new.hpa.max]
  BY DEF PatchFunctionCustomResource
<1> HIDE DEF m
<1>2. m.hpa = [name |-> m.hpa.name, target |-> m.hpa.target, max |-> m.hpa.max, metric |-> m.hpa.metric]
  BY <1>1
<1>3. m.hpa.name # 0 => m.hpa.metric # 0
  BY <1>1 DEF IsFunction
<1>4. new.hpa = o.hpa => m.hpa = o.hpa
  BY <1>1 DEF IsFunction
<1>5. MergedFrom(o, new, m)
  BY <1>1, <1>2, <1>3, <1>4 DEF IsFunction, MergedFrom
<1> QED
  BY <1>5 DEF m

-----------------------------------------------------------------------------
(* The steps                                                               *)

\* A command that ends without writing.
LEMMA EndsStep ==
    ASSUME CliInv, NEW c \in Clients, NEW code \in {"ok", "error"}, Exits(c, code),
           \/ UNCHANGED <<fn, rv>>
           \/ fn' = << >> /\ rv' = rv,
           cron' \in Nat
    PROVE  CliInv'
  BY Leaves, Moves

LEMMA EnterStep ==
    ASSUME CliInv, NEW c \in Clients, NEW cmd \in Commands, Enter(c, cmd)
    PROVE  CliInv'
<1>1. CASE Valid(c, cmd)
  <2> DEFINE new == [pc |-> "run", cmd |-> <<cmd>>, snap |-> << >>, exit |-> "none"]
  <2>2. cl' = [cl EXCEPT ![c] = new]
    BY <1>1, Zenon DEF Enter
  <2>3. ClientOK(new) /\ new.snap = << >>
    BY DEF ClientOK
  <2> HIDE DEF new
  <2> QED
    BY <2>2, <2>3, Moves DEF Enter, CliInv
<1>2. CASE ~Valid(c, cmd)
  <2>1. Exits(c, "error")
    BY <1>2, Zenon DEF Enter, Exits
  <2> QED
    BY <2>1, EndsStep DEF Enter, CliInv
<1> QED
  BY <1>1, <1>2

\* What is read is what is stored.
LEMMA GetFunctionStep ==
    ASSUME CliInv, NEW c \in Clients, GetFunction(c)
    PROVE  CliInv'
<1>1. UNCHANGED <<fn, rv, cron>> /\ cl[c].pc = "run"
  BY DEF GetFunction, Running
<1>2. CASE Exits(c, "error")
  BY <1>1, <1>2, EndsStep DEF CliInv
<1>3. CASE fn # << >> /\ cl' = [cl EXCEPT ![c] = [pc |-> "write", cmd |-> @.cmd, snap |-> fn, exit |-> "none"]]
  <2> DEFINE new == [pc |-> "write", cmd |-> cl[c].cmd, snap |-> fn, exit |-> "none"]
  <2>1. ClientOK(cl[c]) /\ DOMAIN cl = Clients
    BY DEF CliInv
  <2>3. cl' = [cl EXCEPT ![c] = new]
    BY <1>3, Zenon
  <2>4. ClientOK(new) /\ new.snap = fn
    BY <1>1, <1>3, <2>1 DEF ClientOK
  <2> HIDE DEF new
  <2> QED
    BY <1>1, <2>3, <2>4, Moves DEF CliInv
<1> QED
  BY <1>2, <1>3 DEF GetFunction

LEMMA DeployStep ==
    ASSUME CliInv, NEW c \in Clients, Deploy(c)
    PROVE  CliInv'
<1>1. UNCHANGED cron /\ cron' \in Nat /\ cl[c].pc = "run"
  BY DEF Deploy, CliInv, Running
<1>2. CASE UNCHANGED <<fn, rv>> /\ \E code \in {"ok", "error"} : Exits(c, code)
  BY <1>1, <1>2, EndsStep
<1>3. CASE /\ rv < MaxVersion
           /\ Store(getFunctionDescription(Cmd(c), Empty))
           /\ IF Cmd(c).schedule = 0 THEN Exits(c, "ok") ELSE Goes(c, "cron")
  <2>1. Empty.secrets \in Seq(STRING) /\ Empty.hpa = NoHpa
    BY DEF Empty
  <2>2. Cmd(c) \in Commands
    BY <1>1, CommandOf
  <2>3. \E o : fn' = <<o>> /\ IsFunction(o, rv + 1) /\ o.rv = rv + 1
    <3> DEFINE d == getFunctionDescription(Cmd(c), Empty)
    <3>1. d = getFunctionDescription(Cmd(c), Empty) /\ Store(d)
      BY <1>3
    <3> HIDE DEF d
    <3>2. DOMAIN d.f = Fields /\ d.secrets \in Seq(STRING) /\ d.hpa = NoHpa
      BY <2>1, <2>2, <3>1, Described DEF BuiltFrom
    <3> QED
      BY <1>3, <3>1, <3>2, Autoscalers, Stores
  <2>4. rv' = rv + 1
    BY <1>3 DEF Store
  <2>5. CASE Exits(c, "ok")
    BY <1>1, <1>3, <2>3, <2>4, <2>5, Leaves, Moves
  <2>6. CASE Goes(c, "cron")
    <3> DEFINE new == [pc |-> "cron", cmd |-> cl[c].cmd, snap |-> cl[c].snap, exit |-> cl[c].exit]
    <3>1. ClientOK(cl[c]) /\ DOMAIN cl = Clients
      BY DEF CliInv
    <3>2. [cl[c] EXCEPT !.pc = "cron"] = new
      BY <3>1 DEF ClientOK
    <3>3. cl' = [cl EXCEPT ![c] = new]
      BY <2>6, <3>2, Zenon DEF Goes
    <3>4. ClientOK(new) /\ new.snap = << >>
      BY <1>1, <3>1 DEF ClientOK
    <3> HIDE DEF new
    <3> QED
      BY <1>1, <1>3, <2>3, <2>4, <3>3, <3>4, Moves
  <2> QED
    BY <1>3, <2>5, <2>6
<1> QED
  BY <1>2, <1>3 DEF Deploy

LEMMA CreateCronJobStep ==
    ASSUME CliInv, NEW c \in Clients, CreateCronJob(c)
    PROVE  CliInv'
<1>1. Cmd(c) \in Commands
  BY CommandOf DEF CreateCronJob, Running
<1>2. cron' \in Nat
  BY <1>1, CommandsAssumption DEF CreateCronJob, CliInv
<1> QED
  BY <1>2, EndsStep DEF CreateCronJob

\* The Function an update writes.
LEMMA UpdateWrites ==
    ASSUME CliInv, NEW c \in Clients, cl[c].pc = "write", fn # << >>, rv < MaxVersion,
           Store(PatchFunctionCustomResource(Head(fn), getFunctionDescription(Cmd(c), Head(cl[c].snap))))
    PROVE  /\ rv' = rv + 1
           /\ \E n : fn' = <<n>> /\ IsFunction(n, rv + 1) /\ n.rv = rv + 1
           /\ cl[c].snap = fn =>
                 /\ \A x \in Kept \ Named(Cmd(c)) : Head(fn').f[x] = Head(fn).f[x]
                 /\ Head(fn').labels = Over(Over(parseLabel(Cmd(c).labels), Head(fn).labels), Head(fn).labels)
                 /\ \/ Head(fn').secrets = Head(fn).secrets
                    \/ \E t \in Seq(STRING) : Head(fn').secrets = Head(fn).secrets \o t
                 /\ Head(fn').hpa = Head(fn).hpa
<1> DEFINE prev == Head(cl[c].snap)
           new == getFunctionDescription(Cmd(c), prev)
           m == PatchFunctionCustomResource(Head(fn), new)
<1>0. /\ new = getFunctionDescription(Cmd(c), prev)
      /\ m = PatchFunctionCustomResource(Head(fn), new)
      /\ Store(m)
  OBVIOUS
<1>1. Cmd(c) \in Commands /\ IsFunction(prev, rv) /\ IsFunction(Head(fn), rv)
  BY CommandOf DEF CliInv, AtMostOne
<1> HIDE DEF prev, new, m
<1>2. BuiltFrom(Cmd(c), prev, new)
  <2>1. prev.secrets \in Seq(STRING)
    BY <1>1 DEF IsFunction
  <2> QED
    BY <1>0, <1>1, <2>1, Described
<1>3. MergedFrom(Head(fn), new, m)
  <2>1. DOMAIN new.f = Fields /\ new.secrets \in Seq(STRING)
    BY <1>2 DEF BuiltFrom
  <2>2. new.hpa.name # 0 => new.hpa.metric # 0
    BY <1>1, <1>2 DEF IsFunction, BuiltFrom
  <2> QED
    BY <1>0, <1>1, <2>1, <2>2, Patched
<1>5. /\ rv' = rv + 1
      /\ \E n : fn' = <<n>> /\ IsFunction(n, rv + 1) /\ n.rv = rv + 1
      /\ Head(fn').f = m.f /\ Head(fn').labels = m.labels /\ Head(fn').secrets = m.secrets
      /\ Head(fn').nodes = m.nodes /\ Head(fn').hpa = m.hpa
  BY <1>0, <1>3, Stores DEF MergedFrom
<1>6. ASSUME cl[c].snap = fn
      PROVE  /\ \A x \in Kept \ Named(Cmd(c)) : Head(fn').f[x] = Head(fn).f[x]
             /\ Head(fn').labels = Over(Over(parseLabel(Cmd(c).labels), Head(fn).labels), Head(fn).labels)
             /\ \/ Head(fn').secrets = Head(fn).secrets
                \/ \E t \in Seq(STRING) : Head(fn').secrets = Head(fn).secrets \o t
             /\ Head(fn').hpa = Head(fn).hpa
  <2>1. prev = Head(fn) /\ Cmd(c).secrets \in Seq(STRING)
    BY <1>1, <1>6, CommandsAssumption DEF prev
  <2>2. \/ Head(fn').secrets = Head(fn).secrets
        \/ Head(fn').secrets = Head(fn).secrets \o Cmd(c).secrets
    BY <1>2, <1>3, <1>5, <2>1 DEF BuiltFrom, MergedFrom
  <2>3. Head(fn').labels = Over(Over(parseLabel(Cmd(c).labels), Head(fn).labels), Head(fn).labels)
    BY <1>2, <1>3, <1>5, <2>1 DEF BuiltFrom, MergedFrom
  <2>4. Head(fn').hpa = Head(fn).hpa
    BY <1>2, <1>3, <1>5, <2>1 DEF BuiltFrom, MergedFrom
  <2>5. \A x \in Kept \ Named(Cmd(c)) : Head(fn').f[x] = Head(fn).f[x]
    BY <1>2, <1>3, <1>5, <2>1 DEF BuiltFrom, MergedFrom
  <2> QED
    BY <2>1, <2>2, <2>3, <2>4, <2>5, Zenon
<1> QED
  BY <1>5, <1>6, Zenon

LEMMA UpdateStep ==
    ASSUME CliInv, NEW c \in Clients, Update(c)
    PROVE  CliInv'
<1>1. cron' \in Nat /\ cl[c].pc = "write"
  BY DEF Update, CliInv, Running
<1>2. CASE UNCHANGED <<fn, rv>> /\ \E code \in {"ok", "error"} : Exits(c, code)
  BY <1>1, <1>2, EndsStep
<1>3. CASE /\ fn # << >> /\ rv < MaxVersion
           /\ Store(PatchFunctionCustomResource(Head(fn), getFunctionDescription(Cmd(c), Head(cl[c].snap))))
           /\ Exits(c, "ok")
  BY <1>1, <1>3, UpdateWrites, Leaves, Moves
<1> QED
  BY <1>2, <1>3 DEF Update

\* The write of an autoscale command goes through only if the stored Function is the
\* one it read.
LEMMA AutoscaleWrites ==
    ASSUME CliInv, NEW c \in Clients, cl[c].pc = "write", rv < MaxVersion,
           ~UpdateConflicts(Head(cl[c].snap)),
           Store([Head(cl[c].snap) EXCEPT !.hpa =
                     IF Cmd(c).kind = "scale" THEN getHorizontalAutoscaleDefinition(Cmd(c)) ELSE NoHpa])
    PROVE  /\ rv' = rv + 1 /\ fn # << >>
           /\ \E n : fn' = <<n>> /\ IsFunction(n, rv + 1) /\ n.rv = rv + 1
           /\ Head(fn').f = Head(fn).f /\ Head(fn').labels = Head(fn).labels
           /\ Head(fn').secrets = Head(fn).secrets /\ Head(fn').nodes = Head(fn).nodes
<1> DEFINE h == IF Cmd(c).kind = "scale" THEN getHorizontalAutoscaleDefinition(Cmd(c)) ELSE NoHpa
           prev == Head(cl[c].snap)
           o == [prev EXCEPT !.hpa = h]
<1>1. IsFunction(prev, rv) /\ cl[c].snap = fn /\ fn # << >>
  BY CommandOf DEF CliInv, SnapshotOK, UpdateConflicts
<1>2. /\ h = [name |-> h.name, target |-> h.target, max |-> h.max, metric |-> h.metric]
      /\ h.name # 0 => h.metric # 0
  BY Autoscalers
<1>3. Store(o)
  OBVIOUS
<1> HIDE DEF h
<1>4. /\ o.f = prev.f /\ o.labels = prev.labels /\ o.nodes = prev.nodes
      /\ o.secrets = prev.secrets /\ o.hpa = h
  <2> HIDE DEF prev
  <2> QED
    BY <1>1 DEF IsFunction
<1> HIDE DEF o
<1>5. DOMAIN o.f = Fields /\ o.secrets \in Seq(STRING)
  BY <1>1, <1>4 DEF IsFunction
<1> QED
  BY <1>1, <1>2, <1>3, <1>4, <1>5, Stores

LEMMA AutoscaleStep ==
    ASSUME CliInv, NEW c \in Clients, Autoscale(c)
    PROVE  CliInv'
<1>1. cron' \in Nat /\ cl[c].pc = "write"
  BY DEF Autoscale, CliInv, Running
<1>2. CASE UNCHANGED <<fn, rv>> /\ Exits(c, "error")
  BY <1>1, <1>2, EndsStep
<1>3. CASE /\ ~UpdateConflicts(Head(cl[c].snap)) /\ rv < MaxVersion
           /\ Store([Head(cl[c].snap) EXCEPT !.hpa =
                       IF Cmd(c).kind = "scale" THEN getHorizontalAutoscaleDefinition(Cmd(c)) ELSE NoHpa])
           /\ Exits(c, "ok")
  BY <1>1, <1>3, AutoscaleWrites, Leaves, Moves
<1> QED
  BY <1>2, <1>3 DEF Autoscale

LEMMA OtherStep ==
    ASSUME CliInv, NEW c \in Clients, Delete(c) \/ Interrupted(c)
    PROVE  CliInv'
<1>1. CASE Delete(c)
  BY <1>1, EndsStep DEF Delete, CliInv
<1>2. CASE Interrupted(c)
  BY <1>2, EndsStep DEF Interrupted, CliInv
<1> QED
  BY <1>1, <1>2

\* Every step keeps the inductive invariant.
LEMMA NextCliInv == CliInv /\ [Next]_vars => CliInv'
<1> SUFFICES ASSUME CliInv, [Next]_vars PROVE CliInv'
  OBVIOUS
<1>1. CASE UNCHANGED vars
  BY <1>1 DEF CliInv, SnapshotOK, vars
<1> QED
  BY <1>1, EnterStep, GetFunctionStep, DeployStep, CreateCronJobStep, UpdateStep,
     AutoscaleStep, OtherStep DEF Next

-----------------------------------------------------------------------------
(* A command reports success only in a step of its own.                    *)

ClientStep(c) ==
    \/ \E cmd \in Commands : Enter(c, cmd)
    \/ GetFunction(c) \/ Deploy(c) \/ CreateCronJob(c) \/ Update(c) \/ Autoscale(c)
    \/ Delete(c) \/ Interrupted(c)

LEMMA OthersUntouched ==
    ASSUME CliInv, NEW c \in Clients, NEW d \in Clients, c # d, ClientStep(d)
    PROVE  cl'[c] = cl[c]
<1>1. \E new : cl' = [cl EXCEPT ![d] = new]
  BY DEF ClientStep, Enter, GetFunction, Deploy, CreateCronJob, Update, Autoscale, Delete,
         Interrupted, Exits, Goes
<1> QED
  BY <1>1 DEF CliInv

LEMMA OwnSuccess ==
    ASSUME CliInv, [Next]_vars, NEW c \in Clients, cl[c].pc # "idle", cl'[c].exit = "ok"
    PROVE  ClientStep(c) /\ ~Interrupted(c)
<1>1. cl[c].exit = "none"
  BY CommandOf
<1>2. PICK d \in Clients : ClientStep(d)
  BY <1>1 DEF Next, vars, ClientStep
<1>3. d = c
  BY <1>1, <1>2, OthersUntouched
<1>4. ~Interrupted(c)
  <2>1. ASSUME Exits(c, "error") PROVE cl'[c].exit = "error"
    BY <2>1, Leaves DEF Left, CliInv
  <2> QED
    BY <2>1 DEF Interrupted
<1> QED
  BY <1>2, <1>3, <1>4

\* Of a command about to write, only the write succeeds.
LEMMA WriterSuccess ==
    ASSUME CliInv, [Next]_vars, NEW c \in Clients, cl[c].pc = "write", cl'[c].exit = "ok"
    PROVE  Update(c) \/ Autoscale(c)
  BY OwnSuccess DEF ClientStep, Enter, GetFunction, Deploy, CreateCronJob, Delete, Running

LEMMA ExitCode ==
    ASSUME CliInv, NEW c \in Clients, NEW code \in {"ok", "error"}, Exits(c, code)
    PROVE  cl'[c].exit = code
  BY Leaves DEF Left, CliInv

-----------------------------------------------------------------------------
(* The theorems                                                            *)

\* The invariant holds in every reachable state.
THEOREM CliInvariant == Spec => []CliInv
  BY InitCliInv, NextCliInv, PTL DEF Spec

\* The types, and that a client holds a Function exactly while it is about to write.
THEOREM CliTypeCorrect == Spec => []TypeOK
<1>1. CliInv => TypeOK
  BY DEF CliInv, TypeOK, AtMostOne, IsFunction, ClientOK
<1> QED
  BY <1>1, CliInvariant, PTL

\* The controller may read the first metric of any autoscaler it finds
\* (function_controller.go:362), whatever patches and updates were applied to it.
THEOREM AutoscalerHasMetricTheorem == Spec => []AutoscalerHasMetric
<1>1. CliInv => AutoscalerHasMetric
  BY DEF CliInv, AutoscalerHasMetric, AtMostOne, IsFunction
<1> QED
  BY <1>1, CliInvariant, PTL

\* What an autoscale command may change of the Function, whoever wrote since it read
\* it: its version check makes the stored Function the one it read.
THEOREM AutoscaleOnlyHpaTheorem == Spec => AutoscaleOnlyHpa
<1> DEFINE Same == fn # << >> /\ [Head(fn') EXCEPT !.hpa = NoHpa, !.rv = 0]
                                = [Head(fn) EXCEPT !.hpa = NoHpa, !.rv = 0]
           OnlyHpa == \A c \in Clients :
                          /\ Running(c, "write", {"scale", "unscale"})
                          /\ cl'[c].exit = "ok"
                          => Same
<1>1. CliInv /\ [Next]_vars => [OnlyHpa]_vars
  <2> SUFFICES ASSUME CliInv, [Next]_vars, NEW c \in Clients,
                      Running(c, "write", {"scale", "unscale"}), cl'[c].exit = "ok"
               PROVE  Same
    OBVIOUS
  <2>1. cl[c].pc = "write" /\ Cmd(c).kind \in {"scale", "unscale"}
    BY DEF Running
  <2>2. Autoscale(c)
    BY <2>1, WriterSuccess DEF Update, Running
  <2>3. ~Exits(c, "error")
    BY ExitCode
  <2>4. /\ rv < MaxVersion /\ ~UpdateConflicts(Head(cl[c].snap))
        /\ Store([Head(cl[c].snap) EXCEPT !.hpa =
                     IF Cmd(c).kind = "scale" THEN getHorizontalAutoscaleDefinition(Cmd(c)) ELSE NoHpa])
    BY <2>2, <2>3 DEF Autoscale
  <2>5. /\ fn # << >>
        /\ \E n : fn' = <<n>> /\ IsFunction(n, rv + 1)
        /\ Head(fn').f = Head(fn).f /\ Head(fn').labels = Head(fn).labels
        /\ Head(fn').secrets = Head(fn).secrets /\ Head(fn').nodes = Head(fn).nodes
    BY <2>1, <2>4, AutoscaleWrites
  <2> DEFINE Rest(o) == [f |-> o.f, labels |-> o.labels, nodes |-> o.nodes, secrets |-> o.secrets,
                         hpa |-> NoHpa, rv |-> 0]
  <2>6. ASSUME NEW o, NEW v, IsFunction(o, v) PROVE [o EXCEPT !.hpa = NoHpa, !.rv = 0] = Rest(o)
    <3> DEFINE p == [o EXCEPT !.hpa = NoHpa]
    <3>1. p = [f |-> o.f, labels |-> o.labels, nodes |-> o.nodes, secrets |-> o.secrets,
               hpa |-> NoHpa, rv |-> o.rv]
      BY <2>6 DEF IsFunction
    <3>2. [p EXCEPT !.rv = 0] = Rest(o)
      <4> HIDE DEF p
      <4> QED
        BY <3>1
    <3> QED
      BY <3>2
  <2>7. IsFunction(Head(fn), rv) /\ IsFunction(Head(fn'), rv + 1)
    BY <2>5, Single DEF CliInv, AtMostOne
  <2> QED
    BY <2>5, <2>6, <2>7
<1> QED
  BY <1>1, CliInvariant, PTL DEF Spec, AutoscaleOnlyHpa

\* A deploy with --schedule that reports success created its trigger with its schedule
\* (deploy.go:256-280).
THEOREM ScheduleReportedTheorem == Spec => ScheduleReported
<1> DEFINE Reported == \A c \in Clients :
                           /\ Running(c, "cron", {"deploy"})
                           /\ cl'[c].exit = "ok"
                           => cron' = Cmd(c).schedule
<1>1. CliInv /\ [Next]_vars => [Reported]_vars
  <2> SUFFICES ASSUME CliInv, [Next]_vars, NEW c \in Clients,
                      Running(c, "cron", {"deploy"}), cl'[c].exit = "ok"
               PROVE  cron' = Cmd(c).schedule
    OBVIOUS
  <2>1. cl[c].pc = "cron"
    BY DEF Running
  <2>2. CreateCronJob(c)
    BY <2>1, OwnSuccess
       DEF ClientStep, Enter, GetFunction, Deploy, Update, Autoscale, Delete, Running
  <2>3. ~Exits(c, "error")
    BY ExitCode
  <2> QED
    BY <2>2, <2>3 DEF CreateCronJob
<1> QED
  BY <1>1, CliInvariant, PTL DEF Spec, ScheduleReported

\* A function plus what it was extended with keeps the entries that are not replaced.
LEMMA Extended ==
    ASSUME NEW a, NEW b, NEW k \in DOMAIN b, k \notin DOMAIN a
    PROVE  k \in DOMAIN Over(Over(a, b), b) /\ Over(Over(a, b), b)[k] = b[k]
<1>1. k \in DOMAIN Over(a, b) /\ Over(a, b)[k] = b[k]
  BY DEF Over
<1> QED
  BY <1>1 DEF Over

\* Adding to a list keeps it as a prefix.
LEMMA Lengthened ==
    ASSUME NEW s \in Seq(STRING), NEW t \in Seq(STRING)
    PROVE  IsPrefix(s, s) /\ IsPrefix(s, s \o t)
<1>1. s \o t \in Seq(STRING) /\ Len(s \o t) = Len(s) + Len(t) /\ Len(s) \in Nat /\ Len(t) \in Nat
  BY ConcatProperties, LenProperties
<1>2. SubSeq(s \o t, 1, Len(s)) = s /\ SubSeq(s, 1, Len(s)) = s
  BY <1>1, ConcatProperties, SubSeqProperties
<1> QED
  BY <1>1, <1>2 DEF IsPrefix

\* function update, when nobody wrote since it read, leaves alone what no flag names of
\* the fields without a default, the other labels, the secrets there were and the
\* autoscaler (function.go:113-267).  --memory and --cpu each name both resources.
THEOREM UpdateKeepsTheorem == Spec => UpdateKeeps
<1> DEFINE Rest(c) ==
              /\ \A x \in Kept \ Named(Cmd(c)) : Head(fn').f[x] = Head(fn).f[x]
              /\ \A k \in DOMAIN Head(fn).labels \ DOMAIN parseLabel(Cmd(c).labels) :
                    k \in DOMAIN Head(fn').labels /\ Head(fn').labels[k] = Head(fn).labels[k]
              /\ IsPrefix(Head(fn).secrets, Head(fn').secrets)
              /\ Head(fn').hpa = Head(fn).hpa
           Keeps == \A c \in Clients :
                        /\ Running(c, "write", {"update"}) /\ ~Cmd(c).dryrun
                        /\ cl'[c].exit = "ok" /\ Head(cl[c].snap).rv = Head(fn).rv
                        => Rest(c)
<1>1. CliInv /\ [Next]_vars => [Keeps]_vars
  <2> SUFFICES ASSUME CliInv, [Next]_vars, NEW c \in Clients,
                      Running(c, "write", {"update"}), ~Cmd(c).dryrun,
                      cl'[c].exit = "ok", Head(cl[c].snap).rv = Head(fn).rv
               PROVE  Rest(c)
    OBVIOUS
  <2>1. cl[c].pc = "write" /\ Cmd(c).kind = "update"
    BY DEF Running
  <2>2. Update(c)
    BY <2>1, WriterSuccess DEF Autoscale, Running
  <2>3. ~Exits(c, "error")
    BY ExitCode
  <2>4. /\ fn # << >> /\ rv < MaxVersion
        /\ Store(PatchFunctionCustomResource(Head(fn), getFunctionDescription(Cmd(c), Head(cl[c].snap))))
    BY <2>2, <2>3 DEF Update
  <2>5. cl[c].snap = fn /\ IsFunction(Head(fn), rv)
    BY <2>1, <2>4, CommandOf DEF CliInv, SnapshotOK, AtMostOne
  <2>6. /\ \A x \in Kept \ Named(Cmd(c)) : Head(fn').f[x] = Head(fn).f[x]
        /\ Head(fn').labels = Over(Over(parseLabel(Cmd(c).labels), Head(fn).labels), Head(fn).labels)
        /\ \/ Head(fn').secrets = Head(fn).secrets
           \/ \E t \in Seq(STRING) : Head(fn').secrets = Head(fn).secrets \o t
        /\ Head(fn').hpa = Head(fn).hpa
    BY <2>1, <2>4, <2>5, UpdateWrites
  <2>7. \A k \in DOMAIN Head(fn).labels \ DOMAIN parseLabel(Cmd(c).labels) :
            k \in DOMAIN Head(fn').labels /\ Head(fn').labels[k] = Head(fn).labels[k]
    BY <2>6, Extended
  <2>8. IsPrefix(Head(fn).secrets, Head(fn').secrets)
    BY <2>5, <2>6, Lengthened DEF IsFunction
  <2> QED
    BY <2>6, <2>7, <2>8
<1> QED
  BY <1>1, CliInvariant, PTL DEF Spec, UpdateKeeps
=============================================================================
