# A TLA+ model of kubeless

kubeless turns `Function` custom resources into Kubernetes objects. This
directory holds TLA+ modules translated from the Go sources, TLC configurations
that check them on small instances, and TLAPS proofs for every instance.
Paths such as `pkg/controller/function_controller.go` are relative to the
repository.

## 1. Inventory

| Component | State | Operations | Talks to |
|---|---|---|---|
| Function controller (`pkg/controller`, `cmd/function-controller`) | informer store, rate-limited work queue, the item being processed; configuration read once at start | the event handlers, `processNextItem`, `processItem`, `ensureK8sResources`, `deleteK8sResources`, finalizer add and remove | API server (watch, CRUD), registry |
| Object helpers (`pkg/utils/kubelessutil.go`, `k8sutil.go`) | none; they write ConfigMap, Service, Deployment, ServiceMonitor, HPA, Job | `EnsureFunc*`, `CreateServiceMonitor`, `Create/Update/DeleteAutoscale`, `FunctionObj*Finalizer`, `MergeDeployments` | API server |
| Image build (`startImageBuildJob`, `pkg/registry`, `pkg/function-image-builder`) | build jobs, images in a registry | tag, look up, create the job; the builder adds a layer and pushes | API server, registry |
| Language runtimes (`pkg/langruntime`) | table of runtimes parsed from the configuration | look-ups, init containers, probes | controller |
| Function proxy (`pkg/function-proxy`) | requests in flight, metrics, the native process | `Handler`, `logReq`, `health`, `GracefulShutdown` | HTTP clients, the function's process |
| Remote execution (`pkg/utils/exec.go`) | one websocket, two goroutines, an error channel | `RoundTripCallback` | API server |
| CLI (`cmd/kubeless`): functions, autoscale, topics, triggers | none | read a Function, build a new one, create, patch or update it | API server |
| CLI: function top, metrics (`top.go`, `pkg/utils/metrics.go`) | one goroutine per function, a channel, a timer | `doTop`, `GetFunctionMetrics`, `parseMetrics` | API server, the functions' endpoints |
| CLI: list, logs, describe, call, version, completion | none | read and print | API server |
| Generated clients (`pkg/client`) | none | REST calls | API server |

The parts do not call each other: they meet in the API server. The CLI writes
Functions; the controller's informer receives revisions of them, later and
possibly not all of them; the handlers put keys into the queue; one worker takes
a key, reads the *cached* Function and issues a sequence of API calls, each of
which may fail, or succeed with its answer lost; the process may die between any
two. Deletion is a protocol between the API server and the controller: the
finalizer `kubeless.io/function` keeps a deleted Function in the cluster, marked,
until the controller has removed what it made.

What is hard here: stale reads; events that arrive while their key is being
processed; coalesced events; retries that repeat half of a reconciliation; the
controller's own writes waking it up; writes into objects the informer owns;
crashes in the middle of a clean-up; pods that read a ConfigMap newer than
themselves; read-modify-write commands of several users; goroutines that share a
channel with a timer or a broken connection; and, in the proxy, deadlines that
race answers. `PROJECT.json` lists these under `hazards`, each at its line.

What makes each part correct:

* controller: what it made follows the current spec once it has settled; it never
  leaves an object behind; it never removes the workload of a function nobody
  deleted; it stops working when nothing changes; a deletion completes.
* object helpers: they never touch what kubeless did not make; repeating them
  changes nothing.
* pod: what starts is one revision's content with that revision's dependencies;
  a runtime the command line accepts resolves; the latest good revision starts.
* image build: an image holds the content it was built for and is well formed
  however often the builder was restarted; a deployed image appears.
* proxy: every accepted request gets exactly one answer or ends with the process;
  a request past its deadline is followed by a restart; metrics count every call.
* remote execution: the command ends once the remote side has, and says "ok" only
  if the script did and everything was copied both ways, as far as it can tell.
* CLI: no update undoes a concurrent one it did not see; a command changes what
  its flags name and nothing else; a function put into a trigger existed.
* function top: it ends, whatever the endpoints do, and blocks nobody.

## 2. Modules

| Module | Contents | Extended by |
|---|---|---|
| `FunctionController` | API server, informer, queue, worker, process; properties; the inductive invariant | `MCFunctionController`, the proofs |
| `FunctionLifecycle` | abstract specification: the phases of a function and the kinds of objects owned on its behalf | instantiated by `FunctionController` |
| `FunctionControllerProofs` | type correctness, the ownership invariant, NoOrphans, WorkloadKept, QueueHoldsDirty, NoWriteBack, Converged; the refinement of `FunctionLifecycle` | |
| `FunctionPod` | content, runtimes, merged configuration, pod spec, init containers: from a file to a running pod | `MCFunctionPod`, the proofs |
| `FunctionPodProofs` | the pod invariant, StartsOneRevision, ValidRuntimeResolves, PrepareAccepts, InitMountsSound | |
| `ImageBuild` | tag, registry look-up, build job, image and layer builder | `MCImageBuild`, the proofs |
| `ImageBuildProofs` | the build invariant, WellFormedImage, BuiltFromItsSpec | |
| `FunctionProxy` | requests, deadlines, native process, listener, health, shutdown | `MCFunctionProxy`, the proofs |
| `FunctionProxyProofs` | the proxy invariant, CutOnlyForACause, MetricsMatchAnswers | |
| `TopicExec` | topic commands over a websocket: goroutines, error channel, wait group | the proofs |
| `TopicExecProofs` | the execution invariant, ErrChanSafe, OkMeansCompleteOrCut | |
| `FunctionCLI` | deploy, update, delete, autoscale of several users | `MCFunctionCLI`, the proofs |
| `FunctionCLIProofs` | the snapshot invariant, AutoscalerHasMetric, AutoscaleOnlyHpa, UpdateKeeps, ScheduleReported | |
| `TriggerCLI` | the commands of the five kinds of triggers | `MCTriggerCLI`, the proofs |
| `TriggerCLIProofs` | the invariant on planned calls, NoLostUpdate, FunctionLookedUp | |
| `FunctionTop` | function top: goroutines, channel, timer, metrics | `MCFunctionTop`, the proofs |
| `FunctionTopProofs` | where results are, SendNeverBlocks, MissingOnlyIfLate, AverageOfRow | |

The modules meet where the programs do, in what they leave in the API server.
`FunctionController` treats the content of a pod as accepted or refused
(`populatePodSpec`, `splitHandler`) and `FunctionPod` says when; it treats a build
job as one object and `ImageBuild` says what the job does; the users' operations
of `FunctionController` are the API calls that `FunctionCLI` takes apart.

### State and code

| Variable | Code |
|---|---|
| `api` | the Function objects in the API server; `rv` is the resourceVersion (counted per name), `uid` the revision at which the object was created, `fin` the finalizer, `del` a DeletionTimestamp, `~live` a removal |
| `res` | the objects named after a function, by kind; `by` is the `created-by=kubeless` label, `uid` the owner reference, `spec` the spec they were last written from. `"job"` stands for all build jobs of a function |
| `cache`, `watch`, `unsynced` | the informer's store, the revisions on their way to it, and the part of the first list `WaitForCacheSync` still waits for |
| `mutated`, `attached` | `ensureK8sResources` writes into the object the store holds (`funcObj.Spec.Deployment`, `HorizontalPodAutoscaler.OwnerReferences`); `attached` tells whether the worker's pointer is still the store's object |
| `queue`, `dirty`, `waiting`, `requeues` | client-go's rate-limited queue; the set being processed is `{key}`, because there is one worker |
| `pc`, `key`, `funcObj` | where the worker is in `processItem`, with one step per API call |
| `gaveUp` | history: the last attempt ended in "giving up" |
| `ops`, `faults`, `crashes` | how much of the bounds is spent |

A spec is reduced to four fields: `code` (all fields `functionObjChanged`
compares one by one, and the deployment), `runtime` (which it does not compare),
`svcType` (the service spec outside its ports) and `hpa`. `NoHPA`, `PlainHPAs`
and `ObjectHPAs` are the three branches at `function_controller.go:360-376`.

Every API call of the worker is one action. It is refused for a reason that a
retry will meet again (`Refuse`), or fails before it has any effect
(`CallFails`), or is carried out, after which the answer arrives or is lost
(`Answered`). Create, and Get plus Update on AlreadyExists, are one step: the
object is not written by anyone else in between but for `CreateForeign`, which
needs its absence.

Decisions a reader may ask about:

* `DeletionTimestamp` is a pointer and compared as one, so two marked revisions
  always count as changed (`functionObjChanged`, first disjunct). `Relist` needs
  this: it hands the handler two copies of one revision.
* A cached object that was written into differs from every later revision
  (`written`), whatever the user changed.
* `Deliver` may skip revisions (a broken watch followed by a list) but never goes
  back. A skipped deletion and re-creation reaches `UpdateFunc` as an update.
* The garbage collector, which would remove children whose owner is gone, is not
  modelled. `NoOrphans` shows that the finalizer leaves it nothing to do.
* Other finalizers, users who edit finalizers or children by hand, and HPA names
  different from the function's are outside the model: the CLI produces none.

The other modules:

* `FunctionPod`. `subs` are the revisions of one Function, `cache` the controller's
  copy, into which the configured deployment is merged at every attempt; `cm`,
  `sent` and `dpm` are the config map and the deployment as sent and as stored;
  `pod` walks through the init containers. An existing deployment is merge-patched
  (`Patched`): an empty list is left out of the patch, so the init containers, volumes
  and pull secrets of an earlier revision stay when the new one has none, and `prep`
  says which revision the init containers are of. The pod is replaced only when the
  stored template changed (`Template`). A runtime name is a sequence of tokens,
  because the table joins identifier and version and the controller cuts them
  apart again with regular expressions. Content is named by its file and version;
  base64 is a flag next to it, so that encoding and decoding can fail to match. A URL is
  downloaded from the address in the prepare container's own command, not from the one
  in the config map.
  The checks of the prepare container are two actions, verify and copy, because
  the volume of the config map may change in between. A loop that returns the first
  match is `First`; the loop that adds volumes for the secrets of the init containers
  is the set of what it adds, in some order, since nothing depends on the order.
* `ImageBuild`. The controller's loop for one Function with the registry's answers
  (`doRequest`, `getTags`), one job per tag, and its containers command by command.
  `history` holds the revisions of the spec; the ConfigMap and a job are of the revision
  they were written for. Content is text, base64 or behind a URL, with a checksum or
  without; `function` is what the spec says (and the tag digests), `bytes` what it stands
  for. The file behind a URL may be in any version whenever it is downloaded. A digest is
  what it digests: the tag is the concatenation of `function` and dependencies, a layer is
  its content with the dependency file that was copied and what was installed. All specs
  are of one language and kind of file, so the files in the ConfigMap keep their names.
* `FunctionProxy`. One handler and one goroutine per request with a channel of
  capacity one, both arms of the `select`, the goroutine `logReq` starts after a 408,
  the native process, the listener, which may fail to bind or later and then panics
  (`ListenPanics`), SIGTERM and `server.Shutdown`.
* `TopicExec`. `pc` is the command, `stdin` and `recv` the two goroutines of
  `RoundTripCallback`, `errChan` their channel, `inbox` the connection. A connection is
  hung up by the server, breaks with an error, or is cut: the stream just ends, which the
  websocket library reports as `io.EOF`, like a regular end.
* `FunctionCLI` and `TriggerCLI`. Each user runs one command after the other; each
  call of a command to the API server is a step, other users act in between, and a
  command may be interrupted anywhere. Flags are small values; whatever a command
  refuses of its own flags it refuses when it is entered. A patch merges into what
  is stored and carries no version, an update carries the version read. Memory and cpu
  are two fields, both of which either flag writes (`Named`).
* `FunctionTop`. `gor` are the goroutines, `ch` the channel, `timer` when the
  `time.After` of the current `select` fires, `now` the clock. The command reacts to
  a result within a tick (`Tick` waits for it), which rules out most races of a result
  with the timer; a scrape may take for ever.

## 3. Runs

All runs start from nothing: no functions, a stopped controller, idle users.
Deadlock is checked in `Build`, whose controller reconciles for ever; the other
systems rest once their commands are done or the bounds are spent.

| Run | Instance | Distinct states |
|---|---|---|
| `Cleanup` | 1 function, 2 codes; build step and configuration merge on; optional qps autoscaler; a foreign Deployment; 3 operations, 1 fault, 1 crash, 1 retry; fair | 637,000 |
| `TwoFunctions` | 2 functions; a good and a bad handler; 3 operations, 1 fault, 1 crash, 1 retry; fair | 272,000 |
| `Pod` | 2 submissions out of 19: four good ones of three runtimes with text, binary and downloaded content, one for every way to fail and two with an image of their own; 1 failed call or lost pod, 1 retry, 2 versions of the URL's file; fair | 63,000 |
| `Build` | 5 specs: text, base64 and a URL in two versions, with and without checksum and dependencies; 1 update, 1 restart of a job's containers; fair | 111,000 |
| `Proxy` | 2 requests, 1 probe; fair | 60,000 |
| `TopicExec` | the four topic commands, 2 chunks of input, 3 messages of output; fair | 65,000 |
| `CliCommands` | 2 users, one of whom may not read the configuration, 16 command lines, 4 versions | 120,000 |
| `Triggers` | 2 users, 2 functions, 27 command lines of five kinds, one kind in use at a time, 3 versions, 2 records | 1,016,000 |
| `Top` | 3 functions, 3 kinds of scrapes, timer of 2 ticks; fair | 144,000 |

Controller.

* `Converged`: if the controller has nothing left to do for a function and did not
  give up on it, its ConfigMap, Service, Deployment and autoscaler were written
  from the current code and autoscaler, and it is not waiting to be deleted. A
  function without an autoscaler has none that kubeless made; one of another tool may
  appear under its name at any time.
* `NoOrphans`: whatever kubeless made belongs to the Function stored now, and that
  Function carries the finalizer.
* `NoWriteBack`: the finalizer Updates send the cached object, which may hold the
  merged deployment; such an object is never accepted.
* `WorkloadKept`: no step removes the workload of a function that is not marked.
* `QueueHoldsDirty`: the queue holds each dirty key the worker is not busy with,
  once.
* `RefinesLifecycle`: the controller implements `FunctionLifecycle`.
* `ComesToRest`: with finitely many operations and failures the controller stops
  working, although it writes into the cached object, which then differs from every
  later revision, and fails on its own service monitor; checked in `Cleanup`, where
  both happen. `DeletionCompletes`: a marked function goes or the controller gave up.

Pod and image.

* `StartsOneRevision`: content and dependencies of a started function are those of
  the revision its init containers were made for, although the config map, or the URL,
  may be newer (plain text is exempt: see the divergences), and what was compiled was
  compiled from the prepared file with those dependencies installed. That revision is
  the deployment's own, unless that one has an image of its own and keeps the init
  containers of an earlier one.
* `InitMountsSound`: volumes are declared once, and each init container mounts its
  secrets from volumes of those secrets.
* `PrepareAccepts`: the prepare container undoes what the command line encoded, or
  downloads what it took the checksum of, as long as that is served.
* `ValidRuntimeResolves`: validation and look-up, which use different expressions,
  agree on the runtimes.
* `LatestStarts`: again and again the pod runs the latest revision if that is
  deployable. The retry counter belongs to the key, not to the revision: when an
  earlier revision used it up, one transient failure makes the controller give up on
  a good one, so the property asks for either no failed call or no bad revision. Nor is
  a revision with its own image expected to start after one with init containers, which
  the merge patch keeps (`BringsItsInit`).
* `BuiltFromItsSpec`: what is published under a tag was built for a revision with that
  tag, has that revision's dependencies installed, and its content is accounted for
  (`Sourced`): the bytes the checksum was taken of if the file verified is the file
  copied; for text, which is read again after it was verified, and for base64 without a
  checksum, the content of that revision or a later one. A URL without a checksum may
  be anything.
* `WellFormedImage`: manifest and description list the same layers, after any restart.
* `DeployedImageAppears`: a deployed image is published, replaced, or its job failed.

Proxy, remote execution, top.

* `CutOnlyForACause`: only a failed native server, a failed listener, the end of the
  drain or somebody else's timeout ends the process under an open request.
* `MetricsMatchAnswers`: the counters agree with what clients were told.
* `Answered`, `TimeoutEndsProcess`: every accepted request is answered or ends with
  the process; after a 408 the process ends.
* `ErrChanSafe`: nobody blocks on the error channel or sends on it after it is closed.
* `OkMeansCompleteOrCut`: a command that reports success wrote all the output that
  arrived and, if it is publish, sent all its input and closed the connection; and its
  script succeeded, with two exceptions that the code cannot tell from success: the
  stream was cut, or the server answered publish's close before the script had ended.
  `CommandEnds`: once the script has ended or the connection is gone, so does the
  command.
* `SendNeverBlocks`: goroutines whose result comes too late do not block.
* `MissingOnlyIfLate`: a function is missing from the output only if it had no rows
  when the last timer fired. `AverageOfRow`: rows are consistent for any methods.
* `TopEnds`: the command ends, although a scrape may not.

Commands.

* `AutoscalerHasMetric`: no sequence of commands, merge patches included, leaves an
  autoscaler without the metric whose absence makes the controller panic.
* `AutoscaleOnlyHpa`: autoscale commands write the whole Function and still change
  nothing but the autoscaler.
* `UpdateKeeps`: an update alone at work keeps what no flag names; `--memory` or `--cpu`
  alone names both.
* `ScheduleReported`: a scheduled deploy that reports success made its trigger.
* `NoLostUpdate`: a trigger update that succeeds undoes nobody's change, except in the
  fields an update writes whatever its flags are (`Always`: the ACME switch of http, every
  field of a cronjob trigger).
* `FunctionLookedUp`: a function put into a trigger existed while the command ran. It may
  be gone when the trigger is written.

Bounds. `maxRetries` is 5 in the code; one retry already separates the first
failure, a retry and giving up, and the counter means nothing else. Three
operations are enough for create, delete and create again, and for two updates
nobody has seen yet. One fault and one crash put each kind of failure between any
two steps; the controller properties that must survive more of them are proved for
every bound. Two functions are enough for the queue, whose entries do not look at
each other. Two revisions are enough for a pod or a build job to meet a config map
that is not its own: checksums compare one revision with one other. Two users are
enough for a read-modify-write to be overtaken; one kind of trigger at a time,
because commands of different kinds share only the functions. Two requests are
enough for one to end the process under the other. Three functions let `top`'s
timer be started again twice.

Fairness. Users, faults, crashes, signals, remote scripts and functions are never
fair.

* `Cleanup`, `TwoFunctions`: weak fairness of `Start` (the controller runs in a Deployment,
  which restarts it), of each `Deliver` (the reflector reconnects for ever), of each
  `DelayExpires` (a timer) and of `Worker` (`wait.Until` runs the loop again and
  again, `function_controller.go:148`). `DeletionCompletes` allows for giving up:
  after `maxRetries` failures nothing wakes the controller until the next event.
* `Pod`: the controller as above, and the kubelet, which restarts a failing init
  container until it succeeds.
* `Build`: the controller and running pods are weakly fair; strong fairness of the
  look-up answered with a tag list and of a job created says that registry and API
  server answer again and again. Builder failures are not fair.
* `Proxy`, `TopicExec`, `Top`: goroutines are scheduled and timers fire. In
  `TopicExec` a connection whose script ended, or that was closed, is hung up; in
  `Top` a scrape may take for ever.

### Where code and documentation disagree

Three runs are expected to be violated; each states what a test, a document or a
comment says of the code.

| Run | Violated | Shortest behaviour |
|---|---|---|
| `RuntimeChange` | `RuntimeFollowed` | a function is deployed, its runtime alone is updated, `functionObjChanged` says no |
| `ForeignDeleted` | `ForeignKept` | a Deployment of another tool makes the function fail; deleting the function deletes the Deployment |
| `CliLostUpdate` | `UpdateMaintainsHpa` | an update reads the Function, another user creates an autoscaler, the patch removes its target and limits |

Other divergences met while modelling. The models do what the code does here; no
run is spent on them.

* Service (`kubelessutil.go:302`): of an existing Service only the ports are updated,
  although `docs/architecture.md:147` lets the service spec control it.
* Service monitor (`kubelessutil.go:833`): when it exists the reconciliation fails, so a
  second qps rule never reaches the HPA; a look-up that fails (`:830`) counts as
  success and the monitor is never made ("A service monitor is needed when the metric
  is an object", `function_controller.go:363`).
* Merge (`k8sutil.go`): a retry appends the configured environment, mounts and ports
  to the cached object again (`:395`; `k8sutil_test.go:167` expects one of each); a
  configuration with more containers than the function panics (`:388`); a selector
  without match labels resets the deployment's labels (`:360`, a function that
  "initializes all nil maps"); volumes are only filled when there are none while mounts
  are always appended (`:378`), so a function with its own volume mounts one its pod
  does not declare.
* Runtimes (`langruntime.go`): a version without a runtime image yields an empty image
  and no error (`:205` builds the message into a shadowed variable); the probe of a
  runtime whose identifier holds a separator is never found (`:153`), although "each
  runtime can have its own liveness probe info" (`docs/runtimes.md:623`).
* Content (`kubelessutil.go:1004`): an archive whose bytes are valid UTF-8 is stored in
  base64 under a type that tells the prepare container not to decode it. Plain text is
  verified in the config map's volume and copied from there by a later command
  (`:138`), so a reconciliation in between puts the next content into this pod or image.
  Without a checksum (`:102`) nothing is verified, and a build for a spec without
  dependencies bundles whatever dependency file the config map holds by then (`:147`).
* Deployment (`kubelessutil.go:789`): the merge patch leaves out empty lists. A function
  that moves from a prepared pod to an image of its own keeps the old init containers;
  they run against a config map they were not made for, or the deployment is rejected
  because the new volumes replaced theirs, and the function may never start.
* Image tag (`function_controller.go:268`): it digests content and dependencies, one
  after the other. A change of runtime, of the file behind an unchanged URL, or text moved
  between the two, finds the old image, although "any change in the function will generate a different image"
  (`docs/building-functions.md:80`). A failed job is taken for one under way
  (`kubelessutil.go:492`).
* Registry (`registry.go:72`): a secret without auths indexes an empty slice.
* Proxy (`proxy.go`): an exception of the function arrives as 200 and is not counted
  (`:52`; `function_failures_total` is the "Number of exceptions in user function"); a
  failing health check panics in the handler (`:61`) and the process goes on, although
  the next line but one would end it; a listener that fails panics (`:95`) and drops the
  requests in flight, which a signal would let finish.
* Remote execution (`exec.go:67`): a stream that ends without a close is taken for the
  end of the script, so `topic create` reports success although its script may have been
  cut off.
* function update (`update.go:240`): flags with a default overwrite what the Function
  had (`function_test.go:215`); `--memory` without `--cpu` sets the cpu to zero, and the
  other way round (`function.go:173`); a secret named twice is mounted twice
  (`function.go:245`); node selectors are united, not replaced (`k8sutil.go:218`,
  `function_test.go:225`).
* Triggers: `http update --enableTLSAcme` leaves an earlier TLS secret in place, although
  both together are refused (`http/update.go:100`); an unknown gateway is refused on
  create and accepted on update; `cronjob update` without a schedule empties it; a
  payload that cannot be parsed is replaced by the error value instead of being refused
  (`cronjob_trigger.go:82`);
  `kinesis update --function-name` checks the function and does not store it; `kinesis
  publish` and `nats publish` report success when records were rejected or the flush
  failed.
* function top (`top.go:97`): "timeout all go routines after 5 seconds", but every
  result starts the timer again.

## 4. Proofs

Every theorem holds for every value of the constants that satisfies the named
assumptions of its module. TLC evaluates those assumptions in every run, and each
inductive invariant was an invariant of a TLC run before it was proved.

| Module | Assumptions | Theorems |
|---|---|---|
| `FunctionControllerProofs` | `ControllerAssumption`: codes, runtimes and service types exist, bounds are numbers, switches Boolean, the idle key is no name, no autoscaler is a value of its own, other tools make workload and autoscalers | `TypeCorrect`, `OwnershipInvariant`, `NoOrphansTheorem`, `WorkloadKeptTheorem`, `QueueTheorem`, `NoWriteBackTheorem`, `ConvergedTheorem`, `Refinement`: `Spec => RefinesLifecycle` |
| `FunctionPodProofs` | `PodBounds`; `TokenClasses`: no character is both in `[a-zA-Z_-]` and in `[0-9.]`; `PodTypes`: the table and the deployments are of their Go types | `PodInvariant`, `StartsOneRevisionTheorem`; under the hypotheses below `ValidRuntimeResolvesTheorem`, `PrepareAcceptsTheorem`, `InitMountsSoundTheorem` |
| `ImageBuildProofs` | `BuildAssumption`: specs are of their type (text stands for itself), the secret names a registry, the bounds are numbers, `None` is no job | `BuildInvariant`, `WellFormedImageTheorem`, `BuiltFromItsSpecTheorem` |
| `FunctionProxyProofs` | `ClientsAssumption`: finitely many requests and probes, told apart | `ProxyInvariant`, `ProxyTypeCorrect`, `CutOnlyForACauseTheorem`, `MetricsMatchAnswersTheorem` |
| `TopicExecProofs` | `BoundsAssumption` | `ExecInvariant`, `ExecTypeCorrect`, `ErrChanSafeTheorem`, `OkMeansCompleteOrCutTheorem` |
| `FunctionTopProofs` | `TopAssumption`: a positive timeout, finitely many functions | `TopInvariant`, `TopTypeCorrect`, `SendNeverBlocksTheorem`, `MissingOnlyIfLateTheorem`, `AverageOfRowTheorem` |
| `FunctionCLIProofs` | `CliBounds`, `CommandsAssumption`: schedules are numbers, secrets lists of names | `CliInvariant`, `CliTypeCorrect`, `AutoscalerHasMetricTheorem`, `AutoscaleOnlyHpaTheorem`, `ScheduleReportedTheorem`, `UpdateKeepsTheorem` |
| `TriggerCLIProofs` | `TriggerBounds`, `CommandsAssumption`: commands exist as the program has them (streams for Kinesis only) | `TriggerInvariant`, `TriggerTypeCorrect`, `NoLostUpdateTheorem`, `FunctionLookedUpTheorem` |

### The controller

`NoOrphans` is not inductive: a worker that reads a stale object could make
children for a Function that is gone. The argument that it does not is about what
an old revision still tells about the present (`OwnershipInv`):

* `ProtectionLasts`: a revision the informer knows that has the finalizer and no
  mark speaks of a Function that is *still* stored and *still* protected, because
  only the worker takes the finalizer off, and only from the newest revision, which
  is marked. So `ensureK8sResources` always works for the Function that is
  there (`EnsuringProtected`).
* `MarkLasts`: after a revision with the mark no protected and unmarked Function
  appears under that name as long as the informer still knows the mark, because the
  finalizer of the next one is only added by an Update of the newest revision, and
  accepted only if the informer knows nothing older. So deleting by name hits
  nothing alive (`DeletingMarked`).
* `SnapshotOld` and `RevisionsOrdered` say that the worker's copy is no newer than
  the store and the store no newer than the API server; equal revisions are equal
  objects. This is where resourceVersion conflicts do their work.
* `DeletingMarked` also says which kinds are already gone at each step, so that
  nothing is owned when the finalizer is removed.
* `DownIsEmpty` and `MarkedProtected` carry this through restarts and through
  deletions of unprotected Functions.

The proof of `NextOwnership` has one lemma per group of actions; the steps that
work on children share `ChildFrame`. `ChildSteps` and `FunctionSteps` classify what
a step does to the children and to the Functions, and `WorkloadKept` and the
refinement follow by cases.

`QueueHoldsDirty` is inductive with the types alone; its lemmas say what Append and
Tail do to the set of keys in a sequence without repetitions.

`NoWriteBack` needs to know which objects can have been written into
(`WriteBackInv`): such an object in the store is not marked, so it is never sent to
remove the finalizer, and it has the finalizer or is out of date, so it is not sent
to add one or is refused. The first half rests on `HeldInStore`: while the worker's
pointer is the store's, the two are the same object.

`Converged` says that no wake-up is lost. `ConvergenceInv`:

* `NewestKnown`: the newest revision of a live Function is in the store or on its way.
* `Handled`: for a key that is neither queued, waiting, given up nor being processed,
  the object in the store is dealt with: deployed if it is not marked, already
  superseded if it is.
* `SnapshotCurrent`: the worker's copy agrees with the store in all that counts, or its
  key is dirty and will be processed again. `ReplacedOrAdded` is the lemma behind it:
  what `functionObjChanged` ignores is nothing that `Deployed` looks at.
* `EnsureProgress`: what `ensureK8sResources` has made by each step.

At rest nothing is on its way, so the store holds the newest revision, and `Handled`
says it is deployed. The runtime and the service type are left out of `Deployed`,
because there it is false (see the divergences).

### From a file to a pod

The revisions, the cached Function, the config map, the deployments and the pod are
written at different times, and any number of submissions may come in between.
`PodInv` says of each of them which submitted revision it belongs to and what it has
of it:

* `CacheInv`: however often the configuration was merged into it, the cached Function
  differs from its revision in the deployment alone, and there the volumes are the
  user's or, if there were none, the configured ones (`MergeFacts`): containers grow
  with every merge, volumes do not.
* `CmInv`: the config map is what its revision, unmerged, would be written as.
* `SentInv`, `DpmInv`: a deployment sent has no init containers or those of its revision,
  in the order prepare, install, compile, with the checksums and the address of that
  revision (`Shape`, from `ContainersShape` and `MountedShape`). The stored one, into
  which it was patched, has those of `prep`, as a whole: a patch replaces the list or
  leaves it.
* `PodsInv`: what a pod holds after its first k init containers (`PodSound`). Verified
  bytes equal the checksum of the revision of the init containers, and so do installed
  dependencies, although both were read from a config map of any revision.
* `ErrInv`: the error "runtime" is only left for a Function whose runtime was not found
  (`Outcome`, with one case for every way `EnsureFuncDeployment` ends).

`StartsOneRevision` follows from `PodsInv` without further hypotheses. The other three
properties depend on data that users and operators write, and the theorems say on what:

* `WellNamed` (for `ValidRuntimeResolves`): identifiers are letters and separators,
  versions digits and dots, no identifier is listed twice. `NameCut` shows that the two
  regular expressions then cut a name where `GetRuntimes` joined it. The table of
  `langruntimetestutils.go` satisfies it, and `docs/runtimes.md:603` asks for letters in
  the identifier of a custom runtime; a version such as `8-alpine` would be accepted by
  the command line and never be resolved.
* `ArchivesAreBinary` (for `PrepareAccepts`): no archive is valid UTF-8; without it the
  property is false (`kubelessutil.go:1004`, see the divergences).
* `VolumesDeclaredOnce` (for `InitMountsSound`): users and operators declare each volume
  once and not under the names of the two that `populatePodSpec` takes. Then no number of
  secrets, used by one init container or shared by several, makes the controller
  declare a name twice (`SecretVolumesAdded`, `NamesCount`).

`MCFunctionPod` assumes the three of its instance, where TLC evaluates them.

### The other components

* `ImageBuild`. `JobOK` says what a job's volumes and the builder's directory hold at
  each step; a restart goes back to `pull`, where nothing of the earlier attempt counts.
  What unverified content can be follows from the ConfigMap never being older than a job:
  it is written before the job is created, and the worker never goes back to an earlier
  revision. `BuiltFromItsSpecTheorem` says nothing of the runtime, which the tag does not
  digest, and nothing of a dependency file that is copied and not installed.
* `FunctionProxy`. Each counter is the cardinality of the set of requests it is about
  (`CountersExact`); `HandlerInStep` bounds how far a handler and its goroutine may be
  apart; `CauseJustified` records why the process ended.
* `TopicExec`. Input and output are conserved: chunks are with the writer, in hand or
  sent (`InputInv`), messages in the inbox or written (`OutputInv`), and each goroutine
  leaves at most one error (`GoroutinesInv`), so a channel of two never fills.
* `FunctionTop`. Every result is counted, in the channel or late (`ResultsCounted`), and a
  function not yet reported had its rows in this very tick (`PendingNow`), because the
  command reacts before the clock goes on. The rows are shown consistent for any set of
  methods by following the three metrics through `Family`.
* `FunctionCLI`. What a command has read is the stored object if its number is the same
  (`SnapshotOK`); an accepted Update therefore changes the object it read.
* `TriggerCLI`. A command is a list of calls; `PlanOK` says that each list looks up before
  it writes and reads before it writes back, with what was read and looked up so far.
  The attempt to prove `TypeOK` showed that a dry run of `http update --function` ends
  without a write, which the type invariant had excluded; it now says so and `Triggers`
  has such a command.

Every invariant and every action property of the passing runs is proved. Only
model-checked are the liveness properties (`ComesToRest`, `DeletionCompletes`,
`LatestStarts`, `DeployedImageAppears`, `Answered`, `TimeoutEndsProcess`, `CommandEnds`,
`TopEnds`), which need fairness and ENABLED and are out of the prover's reach.

## 5. Not modelled

Not modelled: the commands that only read and print (`function call`, `logs`, `list`,
`describe`, the `list` commands of triggers and topics, `version`, `completion`,
`get-server-config`); generated clients, informers and listers, whose behaviour as
the controller sees it is in `FunctionController`; the trigger controllers and the
UI, which are in other repositories. Within the modelled parts: bodies, headers and
the text of messages; replicas, strategy and annotations in the merge, which mergo
fills the way it fills labels; TLS and URL construction of the websocket.

What could come next: theorems about `FunctionLifecycle` itself, which the controller
inherits through `Refinement`; a second Function in `FunctionPod`, whose pods share
nothing but the runtime table and the configuration.
