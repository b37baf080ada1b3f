--------------------------- MODULE MCFunctionPod ---------------------------
(* Small instances of FunctionPod.                                         *)
EXTENDS FunctionPod

Image(i, secrets) == [image |-> i, env |-> <<>>, secrets |-> secrets]

\* python has no compilation, go compiles; "nodejs _ distroless" needs the
\* separator; the two hooks of go share a secret.
RuntimeTable == <<
    [id |-> <<"python">>, probe |-> "", dep |-> TRUE, suffix |-> ".py", versions |-> <<
        [version |-> <<"2.7">>, pull |-> <<>>,
         images |-> [runtime |-> Image("py27", <<>>), installation |-> Image("py27-init", <<"s1">>)]]>>],
    [id |-> <<"go">>, probe |-> "", dep |-> TRUE, suffix |-> ".go", versions |-> <<
        [version |-> <<"1.10">>, pull |-> <<"pull2">>,
         images |-> [runtime |-> Image("go110", <<>>), installation |-> Image("go-init", <<"s1">>),
                     compilation |-> Image("go-build", <<"s1", "s2">>)]]>>],
    [id |-> <<"nodejs", "_", "distroless">>, probe |-> "exec", dep |-> TRUE, suffix |-> ".js", versions |-> <<
        [version |-> <<"8">>, pull |-> <<>>,
         images |-> [runtime |-> Image("node8", <<>>)]]>>]>>

py == <<"python", "2.7">>
go == <<"go", "1.10">>
node == <<"nodejs", "_", "distroless", "8">>
unknown == <<"python", "9">>

EnvImage == [r \in {node} |-> "node8-override"]
Pulls == <<"pull1">>

Box(image, env, mounts) == [image |-> image, env |-> env, mounts |-> mounts, ports |-> <<>>]
Dep(containers, volumes, selector) ==
    [containers |-> containers, volumes |-> volumes, labels |-> {"team"}, selector |-> selector]

\* The configuration has a second container, so that a Function needs one too.
ConfigTwo == Dep(<<Box("", <<"C">>, <<>>), Box("", <<"C">>, <<>>)>>, <<>>, "none")

Two(image, mounts, volumes) == Dep(<<Box(image, <<"F">>, mounts), Box("side", <<>>, <<>>)>>, volumes, "none")
Plain == Two("", <<>>, <<>>)
WithSecret == Two("", <<[vol |-> "k-vol", path |-> "/k"]>>, <<[name |-> "k-vol", secret |-> "k"]>>)
Taken == Two("", <<>>, <<[name |-> "s1", secret |-> NoSecret]>>)
OwnImage(volumes) == Two("mine", <<>>, volumes)
One == Dep(<<Box("", <<>>, <<>>)>>, <<>>, "expressions")
Bare == Dep(<<>>, <<>>, "none")

File(text, ext, src) == [text |-> text, ext |-> ext, src |-> src]
Files == {File(TRUE, "", "local"), File(FALSE, "", "local"), File(FALSE, "zip", "url")}

Req(file, rt, handler, dep, deps, cli) ==
    [file |-> file, rt |-> rt, handler |-> handler, dep |-> dep, deps |-> deps, cli |-> cli]

Good == UNION {{
    Req(f, py, "mod.fn", WithSecret, "d1", TRUE), Req(f, go, "mod.fn", Plain, "d2", TRUE),
    Req(f, node, "mod.fn", Plain, NoDeps, TRUE), Req(f, go, "mod.fn", Plain, NoDeps, FALSE)} : f \in Files}

\* One for every way to fail: the merge panics, the API server refuses the
\* merged containers, a malformed handler, an unknown runtime, a volume whose
\* name is taken; and Functions with their own image, whose deployment keeps the
\* init containers of an earlier one: the first can run beside them, the volumes
\* of the second take the place of theirs.
Odd == LET f == File(TRUE, "", "local") IN {
    Req(f, py, "mod.fn", One, NoDeps, TRUE), Req(f, go, "mod.fn", Bare, NoDeps, FALSE),
    Req(f, py, "mod", Plain, NoDeps, TRUE), Req(f, unknown, "mod.fn", Plain, NoDeps, FALSE),
    Req(f, go, "mod.fn", Taken, "d1", FALSE), Req(f, go, "mod.fn", OwnImage(<<>>), NoDeps, FALSE),
    Req(f, go, "", OwnImage(<<[name |-> "k-vol", secret |-> "k"]>>), NoDeps, FALSE)}

RequestsDef == Good \union Odd

\* The hypotheses of the theorems hold of this instance.
ASSUME SmallInstance == WellNamed /\ ArchivesAreBinary /\ VolumesDeclaredOnce

=============================================================================
