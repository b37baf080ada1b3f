---------------------------- MODULE FunctionCLI ----------------------------
(***************************************************************************)
(* The commands of the kubeless client that write one Function: function   *)
(* deploy, update and delete, autoscale create and delete, run by several  *)
(* users at once.                                                          *)
(*                                                                         *)
(* deploy creates the Function and then, with --schedule, a                *)
(* CronJobTrigger.  update reads the Function, rebuilds all of it with     *)
(* getFunctionDescription and sends it as a merge patch without a resource *)
(* version.  The autoscale commands read it, replace its autoscaler and    *)
(* send the whole object back under the version they read.  A client may   *)
(* be interrupted between any two calls.                                   *)
(*                                                                         *)
(* A flag is a field of the Function with a small number for its value, 0  *)
(* standing for "empty" and for the flag's default; flags that are lists   *)
(* or maps are sequences.  "service" stands for the ports of the service.  *)
(* That the object outlives its deletion until the controller drops its    *)
(* finalizer is left to FunctionController.                                *)
(***************************************************************************)
EXTENDS Integers, Sequences, SequencesExt

CONSTANTS
    Clients,     \* users running commands
    Readers,     \* those allowed to read kubeless-config
    Commands,    \* command lines they may enter
    MaxVersion   \* bound: versions of the Function

\* The container's resources, which either flag makes anew ...
Resources == {"memory", "cpu"}
\* ... fields a given flag sets and an absent flag leaves as they were ...
Kept == {"handler", "content", "deps", "runtime", "env", "image"} \union Resources
\* ... and fields whose flag has a default that is not empty.
Defaulted == {"timeout", "policy", "service"}
Fields == Kept \union Defaulted

NoHpa == [name |-> 0, target |-> 0, max |-> 0, metric |-> 0]

VARIABLES
    fn,     \* <<>> or <<the stored Function>>
    rv,     \* the last resource version given out
    cron,   \* the schedule of the function's CronJobTrigger, 0 if none
    cl      \* each client: its command, how far it is, what it read

vars == <<fn, rv, cron, cl>>

ASSUME CliBounds == MaxVersion \in Nat /\ Readers \subseteq Clients

\* 0 is no schedule; secrets are names.
ASSUME CommandsAssumption == \A cmd \in Commands : cmd.schedule \in Nat /\ cmd.secrets \in Seq(STRING)

Idle == [pc |-> "idle", cmd |-> <<>>, snap |-> <<>>, exit |-> "none"]

Init ==
    /\ fn = <<>> /\ rv = 0 /\ cron = 0
    /\ cl = [c \in Clients |-> Idle]

-----------------------------------------------------------------------------
(* The Function a command builds.                                          *)

\* A flag key=value, or key alone.
getKV(kv) == IF Len(kv) = 1 THEN <<kv[1], 0>> ELSE kv

\* The map of a flag's list; the last value of a key counts.
parseLabel(kvs) == FoldLeft(LAMBDA m, kv : (getKV(kv)[1] :> getKV(kv)[2]) @@ m, <<>>, kvs)
parseNodeSelectors(kvs) == parseLabel(kvs)

\* A map with the entries of a and those of b for other keys.
Over(a, b) == [k \in DOMAIN a \union DOMAIN b |-> IF k \in DOMAIN a THEN a[k] ELSE b[k]]

Empty == [f |-> [x \in Fields |-> 0], labels |-> <<>>, nodes |-> <<>>, secrets |-> <<>>, hpa |-> NoHpa]

\* The fields a command line replaces: with --memory or --cpu both resources, the one
\* without a flag by an empty quantity.
Named(cmd) ==
    DOMAIN cmd.set \union (IF Resources \intersect DOMAIN cmd.set = {} THEN {} ELSE Resources)

\* Mutant: the environment is taken from the flags alone.
getFunctionDescriptionNoEnv(cmd, prev) ==
    [f |-> [x \in Fields |-> IF x \in DOMAIN cmd.set THEN cmd.set[x]
                             ELSE IF x \in Defaulted \union Named(cmd) \union {"env"} THEN 0
                             ELSE prev.f[x]],
     labels |-> Over(parseLabel(cmd.labels), prev.labels),
     nodes |-> IF cmd.nodes = <<>> THEN prev.nodes ELSE parseNodeSelectors(cmd.nodes),
     secrets |-> prev.secrets \o cmd.secrets, hpa |-> prev.hpa]

getFunctionDescription(cmd, prev) ==
    [f |-> [x \in Fields |-> IF x \in DOMAIN cmd.set THEN cmd.set[x]
                             ELSE IF x \in Defaulted \union Named(cmd) THEN 0 ELSE prev.f[x]],
     labels |-> Over(parseLabel(cmd.labels), prev.labels),
     nodes |-> IF cmd.nodes = <<>> THEN prev.nodes ELSE parseNodeSelectors(cmd.nodes),
     secrets |-> prev.secrets \o cmd.secrets, hpa |-> prev.hpa]

\* Mutant: the qps case builds no metric.
getHorizontalAutoscaleDefinitionNoQps(cmd) ==
    [name |-> 1, target |-> 1, max |-> cmd.max, metric |-> IF cmd.metric = "cpu" THEN 1 ELSE 0]

getHorizontalAutoscaleDefinition(cmd) ==
    [name |-> 1, target |-> 1, max |-> cmd.max, metric |-> IF cmd.metric = "cpu" THEN 1 ELSE 2]

\* What the command line refuses before any call to the API; bad holds the
\* flags with an invalid value.
ConfigRead(c) == c \in Readers

\* deploy skips the runtime's check for a user who may not read the
\* configuration.
ValidDeploy(c, cmd) ==
    /\ cmd.bad \subseteq (IF ConfigRead(c) THEN {} ELSE {"runtime"})
    /\ {"runtime", "image"} \intersect DOMAIN cmd.set # {}
    /\ "runtime" \in DOMAIN cmd.set => "handler" \in DOMAIN cmd.set

\* update does not run at all for such a user.
ValidUpdate(c, cmd) == ConfigRead(c) /\ cmd.bad = {}

\* autoscale create looks at its flags after it read the Function, and ends
\* in the same way.
ValidScale(cmd) == cmd.bad = {} /\ cmd.min > 0 /\ cmd.max >= cmd.min /\ cmd.metric \in {"cpu", "qps"}

Valid(c, cmd) ==
    /\ cmd.kind = "deploy" => ValidDeploy(c, cmd)
    /\ cmd.kind = "update" => ValidUpdate(c, cmd)
    /\ cmd.kind = "scale" => ValidScale(cmd)

-----------------------------------------------------------------------------
(* The API server's answers: a write gives the object a new version.       *)

Store(o) == fn' = <<[f |-> o.f, labels |-> o.labels, nodes |-> o.nodes, secrets |-> o.secrets,
                     hpa |-> o.hpa, rv |-> rv + 1]>> /\ rv' = rv + 1

\* A merge patch of the whole Function: what the JSON omits when empty stays,
\* maps are united, the rest is replaced.
PatchFunctionCustomResource(o, new) ==
    [f |-> new.f, labels |-> Over(new.labels, o.labels), nodes |-> Over(new.nodes, o.nodes),
     secrets |-> IF new.secrets = <<>> THEN o.secrets ELSE new.secrets,
     hpa |-> [name |-> IF new.hpa.name = 0 THEN o.hpa.name ELSE new.hpa.name,
              metric |-> IF new.hpa.metric = 0 THEN o.hpa.metric ELSE new.hpa.metric,
              target |-> new.hpa.target, max |-> new.hpa.max]]

\* Mutant: the version read is not sent back, so nothing conflicts.
UpdateConflictsNever(o) == fn = <<>>

\* The version read is sent back with the object.
UpdateConflicts(o) == ~(fn # <<>> /\ Head(fn).rv = o.rv)

-----------------------------------------------------------------------------
(* The commands.                                                           *)

\* Mutant: what was read survives the end of the command.
ExitsKeepsSnap(c, code) == cl' = [cl EXCEPT ![c] = [Idle EXCEPT !.exit = code, !.snap = cl[c].snap]]

Exits(c, code) == cl' = [cl EXCEPT ![c] = [Idle EXCEPT !.exit = code]]

Goes(c, pc) == cl' = [cl EXCEPT ![c] = [@ EXCEPT !.pc = pc]]

Enter(c, cmd) ==
    /\ cl[c].pc = "idle"
    /\ cl' = [cl EXCEPT ![c] = IF Valid(c, cmd) THEN [pc |-> "run", cmd |-> <<cmd>>, snap |-> <<>>, exit |-> "none"]
                               ELSE [Idle EXCEPT !.exit = "error"]]
    /\ UNCHANGED <<fn, rv, cron>>

Cmd(c) == Head(cl[c].cmd)
Running(c, pc, kinds) == cl[c].pc = pc /\ Cmd(c).kind \in kinds

\* GetFunction; autoscale delete ends here when there is no autoscaler.
GetFunction(c) ==
    /\ Running(c, "run", {"update", "scale", "unscale"})
    /\ IF fn = <<>> \/ (Cmd(c).kind = "unscale" /\ Head(fn).hpa.name = 0) THEN Exits(c, "error")
       ELSE cl' = [cl EXCEPT ![c] = [pc |-> "write", cmd |-> @.cmd, snap |-> fn, exit |-> "none"]]
    /\ UNCHANGED <<fn, rv, cron>>

Deploy(c) ==
    /\ Running(c, "run", {"deploy"})
    /\ \/ /\ Cmd(c).dryrun
          /\ Exits(c, "ok")
          /\ UNCHANGED <<fn, rv>>
       \/ /\ ~Cmd(c).dryrun /\ fn # <<>>
          /\ Exits(c, "error")
          /\ UNCHANGED <<fn, rv>>
       \/ /\ ~Cmd(c).dryrun /\ fn = <<>> /\ rv < MaxVersion
          /\ Store(getFunctionDescription(Cmd(c), Empty))
          /\ IF Cmd(c).schedule = 0 THEN Exits(c, "ok") ELSE Goes(c, "cron")
    /\ UNCHANGED cron

\* Mutant: a trigger that is already there is taken for one's own.
CreateCronJobReuse(c) ==
    /\ Running(c, "cron", {"deploy"})
    /\ cron' = IF cron = 0 THEN Cmd(c).schedule ELSE cron
    /\ Exits(c, "ok")
    /\ UNCHANGED <<fn, rv>>

\* The second object of deploy --schedule; one of that name may exist.
CreateCronJob(c) ==
    /\ Running(c, "cron", {"deploy"})
    /\ cron' = IF cron = 0 THEN Cmd(c).schedule ELSE cron
    /\ Exits(c, IF cron = 0 THEN "ok" ELSE "error")
    /\ UNCHANGED <<fn, rv>>

Update(c) ==
    /\ Running(c, "write", {"update"})
    /\ \/ /\ Cmd(c).dryrun
          /\ Exits(c, "ok")
          /\ UNCHANGED <<fn, rv>>
       \/ /\ ~Cmd(c).dryrun /\ fn = <<>>
          /\ Exits(c, "error")
          /\ UNCHANGED <<fn, rv>>
       \/ /\ ~Cmd(c).dryrun /\ fn # <<>> /\ rv < MaxVersion
          /\ Store(PatchFunctionCustomResource(Head(fn), getFunctionDescription(Cmd(c), Head(cl[c].snap))))
          /\ Exits(c, "ok")
    /\ UNCHANGED cron

\* autoscale create and delete.
Autoscale(c) ==
    /\ Running(c, "write", {"scale", "unscale"})
    /\ \/ /\ UpdateConflicts(Head(cl[c].snap))
          /\ Exits(c, "error")
          /\ UNCHANGED <<fn, rv>>
       \/ /\ ~UpdateConflicts(Head(cl[c].snap)) /\ rv < MaxVersion
          /\ Store([Head(cl[c].snap) EXCEPT !.hpa =
                       IF Cmd(c).kind = "scale" THEN getHorizontalAutoscaleDefinition(Cmd(c)) ELSE NoHpa])
          /\ Exits(c, "ok")
    /\ UNCHANGED cron

Delete(c) ==
    /\ Running(c, "run", {"delete"})
    /\ fn' = <<>>
    /\ Exits(c, IF fn = <<>> THEN "error" ELSE "ok")
    /\ UNCHANGED <<rv, cron>>

\* External: the user interrupts the client, or a call fails.
Interrupted(c) ==
    /\ cl[c].pc # "idle"
    /\ Exits(c, "error")
    /\ UNCHANGED <<fn, rv, cron>>

Next ==
    \E c \in Clients :
        \/ \E cmd \in Commands : Enter(c, cmd)
        \/ GetFunction(c) \/ Deploy(c) \/ CreateCronJob(c) \/ Update(c) \/ Autoscale(c)
        \/ Delete(c) \/ Interrupted(c)

Spec == Init /\ [][Next]_vars

-----------------------------------------------------------------------------
(* Properties.                                                             *)

\* Type invariant; versions are given out in order, and what a client holds
\* it read from the API server.
TypeOK ==
    /\ rv \in 0..MaxVersion /\ cron \in Nat
    /\ fn # <<>> => Head(fn).rv \in 1..rv /\ DOMAIN Head(fn).f = Fields
    /\ \A c \in Clients :
          /\ cl[c].pc \in {"idle", "run", "write", "cron"} /\ cl[c].exit \in {"none", "ok", "error"}
          /\ (cl[c].pc = "write") = (cl[c].snap # <<>>)

\* An autoscale command, whatever the other users wrote since it read the
\* Function, changes its autoscaler and nothing else
\* (autoscaleCreate.go:69, autoscaleDelete.go:53).
AutoscaleOnlyHpa ==
    [][\A c \in Clients :
          /\ Running(c, "write", {"scale", "unscale"})
          /\ cl'[c].exit = "ok"
          => fn # <<>> /\ [Head(fn') EXCEPT !.hpa = NoHpa, !.rv = 0] = [Head(fn) EXCEPT !.hpa = NoHpa, !.rv = 0]]_vars

\* An autoscaler always has a metric, whatever patches and updates it went
\* through: function_controller.go:362 reads the first one unconditionally.
AutoscalerHasMetric == fn # <<>> /\ Head(fn).hpa.name # 0 => Head(fn).hpa.metric # 0

\* With nobody else writing, function update leaves alone what no flag names
\* of the fields without a default, keeps the other labels and adds secrets
\* (function.go:113-267).  Either of --memory and --cpu names both resources:
\* an update of one empties the other (function.go:173-192).
UpdateKeeps ==
    [][\A c \in Clients :
          /\ Running(c, "write", {"update"}) /\ ~Cmd(c).dryrun
          /\ cl'[c].exit = "ok" /\ Head(cl[c].snap).rv = Head(fn).rv
          => /\ \A x \in Kept \ Named(Cmd(c)) : Head(fn').f[x] = Head(fn).f[x]
             /\ \A k \in DOMAIN Head(fn).labels \ DOMAIN parseLabel(Cmd(c).labels) :
                   k \in DOMAIN Head(fn').labels /\ Head(fn').labels[k] = Head(fn).labels[k]
             /\ IsPrefix(Head(fn).secrets, Head(fn').secrets)
             /\ Head(fn').hpa = Head(fn).hpa]_vars

\* A deploy --schedule that reports success has created its trigger with its
\* schedule, also where an earlier function left one (deploy.go:256-280).
ScheduleReported ==
    [][\A c \in Clients :
          /\ Running(c, "cron", {"deploy"})
          /\ cl'[c].exit = "ok"
          => cron' = Cmd(c).schedule]_vars

(* What the repository says of the code.                                   *)

\* function_test.go:415: "It should maintain previous HPA definition": update
\* leaves the autoscaler as it is.
UpdateMaintainsHpa ==
    [][\A c \in Clients :
          /\ Running(c, "write", {"update"}) /\ ~Cmd(c).dryrun
          /\ cl'[c].exit = "ok"
          => Head(fn').hpa = Head(fn).hpa]_vars

=============================================================================
