---------------------------- MODULE MCTriggerCLI ----------------------------
(* A small instance of TriggerCLI.                                         *)
EXTENDS TriggerCLI, TLC

Base == [kind |-> "http", op |-> "create", set |-> <<>>, dryrun |-> FALSE, bad |-> {}, records |-> <<>>]
Line(kind, op, set) == [Base EXCEPT !.kind = kind, !.op = op, !.set = set]
F(f) == "function" :> f

HttpCommands == {
    Line("http", "create", F("f1") @@ ("secret" :> "t1")), Line("http", "create", F("f1") @@ ("gateway" :> "kong")),
    Line("http", "create", F("f1") @@ ("acme" :> "true") @@ ("secret" :> "t1")),
    Line("http", "update", F("f2")), Line("http", "update", "path" :> "p1"),
    [Line("http", "update", F("f2")) EXCEPT !.dryrun = TRUE], Line("http", "delete", <<>>)}
CronCommands == {
    Line("cronjob", "create", F("f1") @@ ("schedule" :> "s1") @@ ("payload" :> "{a}")),
    Line("cronjob", "create", F("f1") @@ ("schedule" :> "s1") @@ ("payload" :> "{a}") @@ ("file" :> "{b}")),
    Line("cronjob", "update", F("f2") @@ ("schedule" :> "s2") @@ ("file" :> "{b}")),
    Line("cronjob", "update", "schedule" :> "s2"),
    [Line("cronjob", "update", F("f2")) EXCEPT !.bad = {"schedule"}]}
QueueCommands == {
    Line("kafka", "create", "topic" :> "t1" @@ "selector" :> "l1"), Line("nats", "create", "topic" :> "t1"),
    Line("nats", "create", "topic" :> "t1" @@ "selector" :> "l1"),
    Line("kafka", "update", "topic" :> "t2"), Line("kafka", "update", "selector" :> "l2"),
    Line("nats", "update", "topic" :> "t2"), Line("nats", "update", "selector" :> "l2"),
    [Line("kafka", "update", "topic" :> "t3") EXCEPT !.dryrun = TRUE], Line("kafka", "delete", <<>>),
    Line("nats", "publish", <<>>)}
Kinesis(op) == Line("kinesis", op, F("f1") @@ ("region" :> "r1") @@ ("stream" :> "k1") @@ ("shard" :> "h1")
                                    @@ ("secret" :> "aws"))
Publish(records) == [Kinesis("publish") EXCEPT !.records = records]
KinesisCommands == {
    Kinesis("create"), Kinesis("create-stream"), Publish(<<"r1", "r2">>),
    Line("kinesis", "update", "shard" :> "h2"), Line("kinesis", "update", "stream" :> "k2")}

AllCommands == HttpCommands \union CronCommands \union QueueCommands \union KinesisCommands

=============================================================================
