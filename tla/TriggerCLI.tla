----------------------------- MODULE TriggerCLI -----------------------------
(***************************************************************************)
(* The trigger commands of the kubeless client: create, update and delete  *)
(* of an HTTP, cronjob, Kafka, NATS or Kinesis trigger, and the commands   *)
(* that create a Kinesis stream and publish to Kinesis and NATS, run by    *)
(* several users at once.                                                  *)
(*                                                                         *)
(* A command is a list of calls to the API server: it looks up the         *)
(* function, the secret or the trigger it needs and then writes.  Between  *)
(* two of its calls other users write the same trigger and delete the      *)
(* function.  A trigger is a function from the fields of its kind to       *)
(* strings, "" being empty; there is one trigger of each kind.  Whatever a *)
(* command refuses of its own flags it refuses on entry: where the code    *)
(* does so after a look-up, the outcome is the same.                       *)
(***************************************************************************)
EXTENDS Integers, Sequences, FiniteSets, SequencesExt

CONSTANTS
    Clients,     \* users running commands
    Functions,   \* names of functions
    Commands,    \* command lines they may enter
    MaxVersion,  \* bound: versions of triggers
    MaxKinds,    \* bound: kinds of triggers in use at once
    MaxRecords   \* bound: records in the Kinesis stream

Kinds == {"http", "cronjob", "kafka", "nats", "kinesis"}

FieldsOf(kind) ==
    CASE kind = "http" -> {"function", "path", "host", "acme", "secret", "gateway", "auth", "cors"}
      [] kind = "cronjob" -> {"function", "schedule", "payload"}
      [] kind \in {"kafka", "nats"} -> {"topic", "selector"}
      [] kind = "kinesis" -> {"function", "region", "stream", "shard", "secret", "endpoint"}

Gateways == {"nginx", "traefik", "kong"}
Objects == {"{a}", "{b}"}   \* payloads that are JSON objects

VARIABLES
    fns,      \* the functions that exist
    secret,   \* the AWS secret: "none", without its "keys", or with them
    trig,     \* each kind: <<>> or <<its trigger>>
    rv,       \* the last resource version given out
    stream,   \* the Kinesis stream: <<>> or <<its records>>
    nats,     \* what the last NATS publish delivered: "none", "lost", "done"
    cl        \* each client: its command, the calls it has left, what it read

vars == <<fns, secret, trig, rv, stream, nats, cl>>
api == <<trig, rv>>
cloud == <<stream, nats>>

ASSUME TriggerBounds == {MaxVersion, MaxKinds, MaxRecords} \subseteq Nat

\* There are commands for streams for Kinesis only, and nothing to publish to for others.
ASSUME CommandsAssumption ==
    \A cmd \in Commands :
        /\ cmd.kind \in Kinds
        /\ \/ cmd.op \in {"create", "update", "delete"}
           \/ cmd.op = "create-stream" /\ cmd.kind = "kinesis"
           \/ cmd.op = "publish" /\ cmd.kind \in {"kinesis", "nats"}

\* seen: functions that existed at some time since the command was entered.
Idle == [cmd |-> <<>>, todo |-> <<>>, snap |-> <<>>, seen |-> {}, exit |-> "none"]

Init ==
    /\ fns = {} /\ secret = "none"
    /\ trig = [k \in Kinds |-> <<>>] /\ rv = 0
    /\ stream = <<>> /\ nats = "none"
    /\ cl = [c \in Clients |-> Idle]

-----------------------------------------------------------------------------
(* Flags.                                                                  *)

Given(cmd, x) == x \in DOMAIN cmd.set
Flag(cmd, x, default) == IF Given(cmd, x) THEN cmd.set[x] ELSE default

\* What does not parse as a JSON object becomes an error value, which is
\* returned in the payload's place and is written as an empty object.
parsePayloadContent(raw) == IF raw \in Objects THEN raw ELSE "{}"

\* The file wins; it must be readable and end in .json.
parsePayload(cmd) == parsePayloadContent(Flag(cmd, "file", Flag(cmd, "payload", "")))

Required(kind) ==
    CASE kind = "http" -> {"function"}
      [] kind = "cronjob" -> {"function", "schedule"}
      [] kind \in {"kafka", "nats"} -> {"topic", "selector"}
      [] kind = "kinesis" -> {"function", "region", "stream", "shard", "secret"}

ValidHTTP(cmd) ==
    /\ ~(Given(cmd, "acme") /\ Given(cmd, "secret"))
    /\ cmd.op = "create" =>
          /\ Flag(cmd, "gateway", "nginx") \in Gateways
          /\ Given(cmd, "host") \/ Flag(cmd, "gateway", "nginx") = "nginx"

ValidCronJob(cmd) == ~(Given(cmd, "payload") /\ Given(cmd, "file"))

\* bad: flags whose value does not parse (schedule, selector, endpoint, file).
Valid(cmd) ==
    /\ cmd.bad = {}
    /\ cmd.op = "create" => Required(cmd.kind) \subseteq DOMAIN cmd.set
    /\ cmd.kind = "http" => ValidHTTP(cmd)
    /\ cmd.kind = "cronjob" => ValidCronJob(cmd)

-----------------------------------------------------------------------------
(* What the commands write.                                                *)

createHTTP(cmd) == [x \in FieldsOf("http") |->
    Flag(cmd, x, IF x = "gateway" THEN "nginx" ELSE IF x = "host" THEN "local" ELSE "")]

createCronJob(cmd) == [x \in FieldsOf("cronjob") |->
    IF x = "payload" THEN parsePayload(cmd) ELSE Flag(cmd, x, "")]

createKafka(cmd) == [x \in FieldsOf("kafka") |-> Flag(cmd, x, "")]
createNats(cmd) == [x \in FieldsOf("nats") |-> Flag(cmd, x, "")]
createKinesis(cmd) == [x \in FieldsOf("kinesis") |-> Flag(cmd, x, "")]

Created(cmd) ==
    CASE cmd.kind = "http" -> createHTTP(cmd)
      [] cmd.kind = "cronjob" -> createCronJob(cmd)
      [] cmd.kind = "kafka" -> createKafka(cmd)
      [] cmd.kind = "nats" -> createNats(cmd)
      [] cmd.kind = "kinesis" -> createKinesis(cmd)

\* A flag that is not given leaves its field, except that of the ACME switch;
\* there is no flag for CORS.
updateHTTP(cmd, old) == [x \in FieldsOf("http") |->
    IF x = "acme" THEN Flag(cmd, x, "") ELSE IF x = "cors" THEN old[x] ELSE Flag(cmd, x, old[x])]

\* All three fields are overwritten.
updateCronJob(cmd, old) == createCronJob(cmd)

updateKafka(cmd, old) == [x \in FieldsOf("kafka") |-> Flag(cmd, x, old[x])]
updateNats(cmd, old) == [x \in FieldsOf("nats") |-> Flag(cmd, x, old[x])]

\* The function named is looked up and not written.
updateKinesis(cmd, old) == [x \in FieldsOf("kinesis") |->
    IF x \in {"function", "endpoint"} THEN old[x] ELSE Flag(cmd, x, old[x])]

Updated(cmd, old) ==
    CASE cmd.kind = "http" -> updateHTTP(cmd, old)
      [] cmd.kind = "cronjob" -> updateCronJob(cmd, old)
      [] cmd.kind = "kafka" -> updateKafka(cmd, old)
      [] cmd.kind = "nats" -> updateNats(cmd, old)
      [] cmd.kind = "kinesis" -> updateKinesis(cmd, old)

-----------------------------------------------------------------------------
(* The calls of each command, in order.                                    *)

createCalls(cmd) ==
    CASE cmd.kind \in {"http", "cronjob"} -> <<"function", "create">>
      [] cmd.kind \in {"kafka", "nats"} -> <<"create">>
      [] cmd.kind = "kinesis" -> <<"function", "secret", "create">>

\* Mutant: the function is not looked up again when a trigger changes it.
updateCallsNoLookup(cmd) == <<"get", "update">>

updateCalls(cmd) ==
    CASE cmd.kind = "cronjob" -> <<"function", "get", "update">>
      [] cmd.kind \in {"http", "kinesis"} /\ Given(cmd, "function") -> <<"get", "function", "update">>
      [] OTHER -> <<"get", "update">>

streamCalls(cmd) ==
    CASE cmd.op = "create-stream" -> <<"keys", "stream">>
      [] cmd.op = "publish" /\ cmd.kind = "kinesis" -> <<"keys", "put">>
      [] cmd.op = "publish" /\ cmd.kind = "nats" -> <<"nats">>

\* A dry run ends before the last call.
Calls(cmd) ==
    LET all == CASE cmd.op = "create" -> createCalls(cmd)
                 [] cmd.op = "update" -> updateCalls(cmd)
                 [] cmd.op = "delete" -> <<"delete">>
                 [] OTHER -> streamCalls(cmd)
    IN  IF cmd.dryrun THEN Front(all) ELSE all

-----------------------------------------------------------------------------
(* Running a command.                                                      *)

\* Mutant: what an earlier command read is kept.
ExitsKeepsSnap(c, code) == cl' = [cl EXCEPT ![c] = [Idle EXCEPT !.exit = code, !.snap = cl[c].snap]]

Exits(c, code) == cl' = [cl EXCEPT ![c] = [Idle EXCEPT !.exit = code]]

\* The call at the head of the list succeeded; after the last one the command
\* ends.
Proceeds(c, snap) ==
    IF Len(cl[c].todo) = 1 THEN Exits(c, "ok")
    ELSE cl' = [cl EXCEPT ![c] = [cmd |-> @.cmd, todo |-> Tail(@.todo), snap |-> snap,
                                  seen |-> @.seen, exit |-> @.exit]]

\* The kinds of triggers with any state, for the bound MaxKinds.
InUse ==
    {k \in Kinds : trig[k] # <<>> \/ \E c \in Clients : cl[c].cmd # <<>> /\ Head(cl[c].cmd).kind = k}
    \union {k \in {"kinesis"} : stream # <<>>} \union {k \in {"nats"} : nats # "none"}

Enter(c, cmd) ==
    /\ cl[c].cmd = <<>>
    /\ Cardinality(InUse \union {cmd.kind}) <= MaxKinds
    /\ IF ~Valid(cmd) THEN Exits(c, "error")
       ELSE IF Calls(cmd) = <<>> THEN Exits(c, "ok")
       ELSE cl' = [cl EXCEPT ![c] = [cmd |-> <<cmd>>, todo |-> Calls(cmd), snap |-> <<>>,
                                     seen |-> fns, exit |-> "none"]]
    /\ UNCHANGED <<fns, secret, api, cloud>>

Cmd(c) == Head(cl[c].cmd)
Doing(c, call) == cl[c].todo # <<>> /\ Head(cl[c].todo) = call

GetFunctionCustomResource(c) ==
    /\ Doing(c, "function")
    /\ IF Flag(Cmd(c), "function", "") \in fns THEN Proceeds(c, cl[c].snap) ELSE Exits(c, "error")
    /\ UNCHANGED <<fns, secret, api, cloud>>

\* The trigger's secret need only exist; the streams' commands need its keys.
GetSecret(c) ==
    /\ \/ Doing(c, "secret") /\ (IF secret # "none" THEN Proceeds(c, cl[c].snap) ELSE Exits(c, "error"))
       \/ Doing(c, "keys") /\ (IF secret = "keys" THEN Proceeds(c, cl[c].snap) ELSE Exits(c, "error"))
    /\ UNCHANGED <<fns, secret, api, cloud>>

GetTrigger(c) ==
    /\ Doing(c, "get")
    /\ IF trig[Cmd(c).kind] # <<>> THEN Proceeds(c, trig[Cmd(c).kind]) ELSE Exits(c, "error")
    /\ UNCHANGED <<fns, secret, api, cloud>>

\* External: the API server stores a trigger under a new version.
Store(kind, spec) ==
    /\ rv < MaxVersion
    /\ rv' = rv + 1
    /\ trig' = [trig EXCEPT ![kind] = <<[spec |-> spec, rv |-> rv + 1]>>]

CreateTrigger(c) ==
    /\ Doing(c, "create")
    /\ \/ trig[Cmd(c).kind] = <<>> /\ Store(Cmd(c).kind, Created(Cmd(c))) /\ Exits(c, "ok")
       \/ trig[Cmd(c).kind] # <<>> /\ Exits(c, "error") /\ UNCHANGED api
    /\ UNCHANGED <<fns, secret, cloud>>

\* Mutant: the version read is not sent back.
UpdateTriggerAnyVersion(c) ==
    /\ Doing(c, "update")
    /\ LET k == Cmd(c).kind IN
       \/ /\ trig[k] # <<>>
          /\ Store(k, Updated(Cmd(c), Head(cl[c].snap).spec))
          /\ Exits(c, "ok")
       \/ /\ trig[k] = <<>>
          /\ Exits(c, "error")
          /\ UNCHANGED api
    /\ UNCHANGED <<fns, secret, cloud>>

\* The object read is sent back with its version.
UpdateTrigger(c) ==
    /\ Doing(c, "update")
    /\ LET k == Cmd(c).kind IN
       \/ /\ trig[k] = cl[c].snap
          /\ Store(k, Updated(Cmd(c), Head(cl[c].snap).spec))
          /\ Exits(c, "ok")
       \/ /\ trig[k] # cl[c].snap
          /\ Exits(c, "error")
          /\ UNCHANGED api
    /\ UNCHANGED <<fns, secret, cloud>>

DeleteTrigger(c) ==
    /\ Doing(c, "delete")
    /\ trig' = [trig EXCEPT ![Cmd(c).kind] = <<>>]
    /\ Exits(c, IF trig[Cmd(c).kind] = <<>> THEN "error" ELSE "ok")
    /\ UNCHANGED <<fns, secret, rv, cloud>>

CreateStream(c) ==
    /\ Doing(c, "stream")
    /\ \/ stream = <<>> /\ stream' = << <<>> >> /\ Exits(c, "ok")
       \/ stream # <<>> /\ Exits(c, "error") /\ UNCHANGED stream
    /\ UNCHANGED <<fns, secret, api, nats>>

\* PutRecords answers per record: some may be rejected, which the command
\* does not look at.
PutRecords(c) ==
    /\ Doing(c, "put")
    /\ \/ stream = <<>> /\ Exits(c, "error") /\ UNCHANGED stream
       \/ /\ stream # <<>>
          /\ Len(Head(stream)) + Len(Cmd(c).records) <= MaxRecords
          /\ \E taken \in SUBSET ToSet(Cmd(c).records) :
                stream' = << Head(stream) \o SelectSeq(Cmd(c).records, LAMBDA r : r \in taken) >>
          /\ Exits(c, "ok")
    /\ UNCHANGED <<fns, secret, api, nats>>

\* nats publish: connect, Publish, Flush, LastError.  The result of Flush is
\* not looked at, and one that timed out leaves no last error.
publishTopic(c) ==
    /\ Doing(c, "nats")
    /\ \/ nats' = "done" /\ Exits(c, "ok")
       \/ nats' = "lost" /\ Exits(c, "error")
       \/ nats' = "lost" /\ Exits(c, "ok")
    /\ UNCHANGED <<fns, secret, api, stream>>

-----------------------------------------------------------------------------
(* External: functions and the secret come and go; a client is             *)
(* interrupted or a call of it fails.                                      *)

FunctionChanges(f) ==
    /\ fns' = IF f \in fns THEN fns \ {f} ELSE fns \union {f}
    /\ cl' = [c \in Clients |-> IF cl[c].cmd = <<>> THEN cl[c]
                                ELSE [cl[c] EXCEPT !.seen = @ \union fns']]
    /\ UNCHANGED <<secret, api, cloud>>

SecretChanges(s) ==
    /\ s # secret
    /\ secret' = s
    /\ UNCHANGED <<fns, api, cloud, cl>>

Interrupted(c) ==
    /\ cl[c].cmd # <<>>
    /\ Exits(c, "error")
    /\ UNCHANGED <<fns, secret, api, cloud>>

Next ==
    \/ \E c \in Clients :
          \/ \E cmd \in Commands : Enter(c, cmd)
          \/ GetFunctionCustomResource(c) \/ GetSecret(c) \/ GetTrigger(c)
          \/ CreateTrigger(c) \/ UpdateTrigger(c) \/ DeleteTrigger(c)
          \/ CreateStream(c) \/ PutRecords(c) \/ publishTopic(c)
          \/ Interrupted(c)
    \/ \E f \in Functions : FunctionChanges(f)
    \/ \E s \in {"none", "nokeys", "keys"} : SecretChanges(s)

Spec == Init /\ [][Next]_vars

-----------------------------------------------------------------------------
(* Properties.                                                             *)

\* Type invariant; a client holds a trigger only between its reading and its
\* writing, or the end of a dry run.
TypeOK ==
    /\ fns \subseteq Functions /\ secret \in {"none", "nokeys", "keys"}
    /\ rv \in 0..MaxVersion /\ nats \in {"none", "lost", "done"}
    /\ \A k \in Kinds : trig[k] # <<>> => Head(trig[k]).rv \in 1..rv /\ DOMAIN Head(trig[k]).spec = FieldsOf(k)
    /\ \A c \in Clients :
          /\ cl[c].seen \subseteq Functions /\ cl[c].exit \in {"none", "ok", "error"}
          /\ (cl[c].cmd = <<>>) = (cl[c].todo = <<>>)
          /\ cl[c].snap # <<>> => /\ cl[c].cmd # <<>> /\ ~Contains(cl[c].todo, "get")
                                  /\ Contains(cl[c].todo, "update") \/ Cmd(c).dryrun

\* Client c's write of a trigger took effect in this step.
Wrote(c, op) == Doing(c, op) /\ cl'[c].exit = "ok" /\ cl'[c].cmd = <<>>

\* The fields an update writes whatever its flags are.
Always(kind) == IF kind = "cronjob" THEN FieldsOf(kind) ELSE IF kind = "http" THEN {"acme"} ELSE {}

\* An update that succeeds leaves every field it has no flag for as the other
\* users' last write left it, and neither revives a deleted trigger nor
\* overwrites one created since it read (update.go of the five kinds).
NoLostUpdate ==
    [][\A c \in Clients : Wrote(c, "update") =>
          LET k == Cmd(c).kind IN
          /\ trig[k] # <<>>
          /\ \A x \in FieldsOf(k) \ (DOMAIN Cmd(c).set \union Always(k)) :
                Head(trig'[k]).spec[x] = Head(trig[k]).spec[x]]_vars

\* A function a command puts in a trigger existed at some time while the
\* command ran, however the look-up and the write were interleaved with other
\* users (http/create.go:73, cronjob/update.go:100, kinesis/create.go:62).
FunctionLookedUp ==
    [][\A c \in Clients : Wrote(c, "create") \/ Wrote(c, "update") =>
          LET k == Cmd(c).kind IN
          "function" \in FieldsOf(k) =>
             \/ Head(trig'[k]).spec["function"] \in cl[c].seen
             \/ trig[k] # <<>> /\ Head(trig'[k]).spec["function"] = Head(trig[k]).spec["function"]]_vars

=============================================================================
