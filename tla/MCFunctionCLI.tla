--------------------------- MODULE MCFunctionCLI ---------------------------
(* Small instances of FunctionCLI.                                         *)
EXTENDS FunctionCLI, TLC

Base == [kind |-> "update", set |-> [x \in {} |-> 0], labels |-> <<>>, nodes |-> <<>>, secrets |-> <<>>,
         schedule |-> 0, dryrun |-> FALSE, bad |-> {}, min |-> 1, max |-> 1, metric |-> "cpu"]

Code == ("runtime" :> 1 @@ "handler" :> 1 @@ "content" :> 1 @@ "env" :> 1 @@ "memory" :> 1 @@ "cpu" :> 1)
NewDeploy == [Base EXCEPT !.kind = "deploy", !.set = Code, !.labels = << <<"l1", 1>> >>, !.secrets = <<"s1">>]
NewImage == [Base EXCEPT !.set = ("image" :> 2 @@ "content" :> 2), !.labels = << <<"l2", 1>>, <<"l1">> >>,
                            !.nodes = << <<"n1", 1>> >>]
Scale(m) == [Base EXCEPT !.kind = "scale", !.metric = m, !.max = 2]

MixedCommands == {
    NewDeploy, [NewDeploy EXCEPT !.schedule = 1], [NewDeploy EXCEPT !.schedule = 2],
    [NewDeploy EXCEPT !.bad = {"runtime"}], [NewDeploy EXCEPT !.dryrun = TRUE],
    [NewDeploy EXCEPT !.set = ("runtime" :> 1)],
    NewImage, [Base EXCEPT !.set = ("memory" :> 2), !.secrets = <<"s2">>], [NewImage EXCEPT !.bad = {"port"}],
    [NewImage EXCEPT !.dryrun = TRUE],
    Scale("cpu"), Scale("qps"), [Scale("cpu") EXCEPT !.min = 3], [Scale("qps") EXCEPT !.bad = {"value"}], [Base EXCEPT !.kind = "unscale"],
    [Base EXCEPT !.kind = "delete"]}

HpaCommands == {NewDeploy, NewImage, Scale("cpu")}

=============================================================================
