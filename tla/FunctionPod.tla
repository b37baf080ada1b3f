---------------------------- MODULE FunctionPod ----------------------------
(***************************************************************************)
(* From a function's source file to its running pod.                       *)
(*                                                                         *)
(* The command line reads a file, gives it a content type and a checksum   *)
(* and stores it in a Function (GetContentType, ParseContent).  The        *)
(* controller merges the configured deployment into its cached copy of the *)
(* Function (MergeDeployments), writes the config map, resolves the        *)
(* runtime in the language table (langruntime.go) and assembles the pod:   *)
(* init containers prepare, install and compile, then the function's own   *)
(* container (populatePodSpec, EnsureFuncDeployment).  The kubelet runs    *)
(* the init containers against whatever the config map holds at that time. *)
(*                                                                         *)
(* A runtime name is a sequence of tokens, e.g. nodejs _ distroless 8, so  *)
(* that the regular expressions of langruntime.go can cut it; a look-up    *)
(* that may fail returns <<the first match>> or <<>>.  Bytes are named by  *)
(* the file and its version; base64 text is the flag b64 beside the bytes. *)
(***************************************************************************)
EXTENDS Integers, Sequences, SequencesExt

CONSTANTS
    Table,        \* the runtimes of kubeless-config, a sequence of RuntimeInfo
    Alpha, Sep, Num,  \* the tokens matched by [a-zA-Z], by [_-] and by [0-9.]
    EnvImages,    \* images given by <ID><VERSION>_RUNTIME variables
    Config,       \* the configured deployment ("deployment" of kubeless-config)
    PullSecrets,  \* the controller's pull secrets
    Requests,     \* [file, rt, handler, dep, deps, cli] a user asks for
    MaxRev,       \* bound: submissions of the function
    MaxFaults,    \* bound: failed API calls and pods lost
    MaxTries,     \* the worker's maxRetries
    MaxVersion    \* bound: versions of the file behind a URL

NoDeps == "no-deps"
Bundled == "bundled-deps"

NoSecret == "no-secret"  \* the volume is not a secret's
NoHandler == ""          \* the Function has no handler
NoExt == ""              \* the file is not an archive

VARIABLES
    subs,    \* every revision of the Function the API server stored
    url,     \* the version of the file behind the user's URL
    cache,   \* <<>> or <<the controller's cached Function>>
    queued,  \* the Function's key is in the work queue
    tries,   \* failed attempts since the key was last forgotten
    faults,  \* API calls that failed and pods lost
    cm,      \* <<>> or <<the function's config map>>
    sent,    \* <<>> or <<the last deployment sent to the API server>>
    dpm,     \* <<>> or <<the stored deployment>>
    err,     \* the outcome of the last reconciliation
    pod      \* the pod of the stored deployment

vars == <<subs, url, cache, queued, tries, faults, cm, sent, dpm, err, pod>>

ASSUME PodBounds == {MaxRev, MaxFaults, MaxTries, MaxVersion} \subseteq Nat

\* A character is in at most one of the classes [a-zA-Z_-] and [0-9.].
ASSUME TokenClasses == (Alpha \union Sep) \cap Num = {}

IsVersion(v) ==
    /\ v.version \in Seq(Alpha \union Sep \union Num)
    /\ \A phase \in DOMAIN v.images : v.images[phase].secrets \in Seq(STRING)

IsRuntime(t) ==
    /\ t.id \in Seq(Alpha \union Sep \union Num)
    /\ t.versions \in Seq(ToSet(t.versions))
    /\ \A v \in ToSet(t.versions) : IsVersion(v)

Volumes == [name : STRING, secret : STRING]

IsDeployment(d) ==
    /\ DOMAIN d = {"containers", "volumes", "labels", "selector"}
    /\ d.volumes \in Seq(Volumes)

\* What ReadConfigMap decodes, and the deployments of the configuration and of
\* the users.
ASSUME PodTypes ==
    /\ Table \in Seq(ToSet(Table))
    /\ \A t \in ToSet(Table) : IsRuntime(t)
    /\ IsDeployment(Config)
    /\ \A r \in Requests : IsDeployment(r.dep) /\ r.cli \in BOOLEAN

-----------------------------------------------------------------------------
(* Language runtimes (langruntime.go).                                     *)

PrefixIn(s, T) ==
    SubSeq(s, 1, CHOOSE n \in 0..Len(s) : /\ \A i \in 1..n : s[i] \in T
                                          /\ n < Len(s) => s[n + 1] \notin T)

getVersionFromRuntime(rt) ==
    SubSeq(rt, CHOOSE n \in 1..Len(rt) + 1 :
                       /\ \A i \in n..Len(rt) : rt[i] \in Num
                       /\ n > 1 => rt[n - 1] \notin Num, Len(rt))

GetRuntimes == UNION {{Table[i].id \o Table[i].versions[j].version :
                          j \in DOMAIN Table[i].versions} : i \in DOMAIN Table}

IsValidRuntime(rt) == rt \in GetRuntimes

\* The first element at which the test of a loop holds, if there is one.
First(s, Test(_)) ==
    IF \A i \in DOMAIN s : ~Test(s[i]) THEN <<>>
    ELSE <<s[CHOOSE i \in DOMAIN s : Test(s[i]) /\ \A j \in 1..(i - 1) : ~Test(s[j])]>>

WithID(id) == First(Table, LAMBDA t : t.id = id)

\* Mutant: the identifier is cut as GetLivenessProbeInfo cuts it.
GetRuntimeInfoLetters(rt) == WithID(PrefixIn(rt, Alpha))

GetRuntimeInfo(rt) == WithID(PrefixIn(rt, Alpha \union Sep))

WithVersion(vs, version) == First(vs, LAMBDA v : v.version = version)

findRuntimeVersion(rt) ==
    IF GetRuntimeInfo(rt) = <<>> THEN <<>>
    ELSE WithVersion(Head(GetRuntimeInfo(rt)).versions, getVersionFromRuntime(rt))

HasImage(phase, v) == phase \in DOMAIN v.images

GetLivenessProbeInfo(rt) ==
    LET inf == WithID(PrefixIn(rt, Alpha))
    IN  IF inf = <<>> \/ Head(inf).probe = "" THEN "healthz" ELSE Head(inf).probe

\* The image, or <<>> for an error.  A version without a runtime image builds
\* its error into a shadowed variable and returns the empty name.
GetFunctionImage(rt) ==
    CASE GetRuntimeInfo(rt) = <<>> -> <<>>
      [] rt \in DOMAIN EnvImages -> <<EnvImages[rt]>>
      [] findRuntimeVersion(rt) = <<>> -> <<>>
      [] OTHER -> LET v == Head(findRuntimeVersion(rt))
                  IN  <<IF HasImage("runtime", v) THEN v.images["runtime"].image ELSE "">>

GetImageSecrets(v) == v.pull

name2phase(name) ==
    CASE name = "compile" -> "compilation"
      [] name = "install" -> "installation"
      [] OTHER -> name

GetInitContainerSecrets(v, name) ==
    IF HasImage(name2phase(name), v) THEN v.images[name2phase(name)].secrets ELSE <<>>

\* The container of a phase's hook, <<>> for a runtime without one.
HookContainer(v, phase, name, env, mount, check) ==
    IF ~HasImage(phase, v) THEN <<>>
    ELSE <<[name |-> name, image |-> v.images[phase].image, mounts |-> <<mount>>,
            env |-> env \o <<"INSTALL_VOLUME">> \o v.images[phase].env, check |-> check]>>

GetBuildContainer(v, sum, env, mount) ==
    HookContainer(v, "installation", "install", env, mount, sum)

GetCompilationContainer(v, env, mount) ==
    HookContainer(v, "compilation", "compile", env, mount, NoDeps)

-----------------------------------------------------------------------------
(* Content of a function: the command line's encoding and the commands of  *)
(* the prepare container that undo it.                                     *)

GetContentType(f) ==
    [enc |-> IF f.src = "url" THEN "url" ELSE IF f.text THEN "text" ELSE "base64",
     comp |-> f.ext, deps |-> FALSE]

PlainText(ct) == ct.enc = "text" /\ ct.comp = NoExt /\ ~ct.deps

\* Mutant: binary files are stored as they are.
ParseContentRaw(ct, bytes) ==
    [bytes |-> bytes, b64 |-> FALSE]

\* What the Function stores; for a URL the address itself.
ParseContent(ct, bytes) ==
    [bytes |-> bytes, b64 |-> ct.enc # "url" /\ ~PlainText(ct)]

splitHandler(h) == h = "mod.fn"

\* A Function without a handler must bring its own image.
HandlerOk(f) == f.handler = NoHandler \/ splitHandler(f.handler)

\* The suffix is guessed only where the content is the file itself.
getFileName(ct, rt) ==
    IF ct.comp = NoExt /\ ~ct.deps /\ GetRuntimeInfo(rt) # <<>>
    THEN <<"mod", Head(GetRuntimeInfo(rt)).suffix>> ELSE <<"mod", "">>

runtimeMount == [vol |-> "fn", path |-> "/kubeless"]
srcMount == [vol |-> "fn-deps", path |-> "/src"]

\* The address that the command of the prepare container downloads.
Address(f) == IF f.ct.enc = "url" THEN <<f.body.bytes.file>> ELSE <<>>

\* Mutant: the checksum is not verified.
getProvisionContainerUnchecked(f) ==
    [name |-> "prepare", image |-> "unzip", mounts |-> <<runtimeMount, srcMount>>, env |-> <<>>,
     key |-> getFileName(f.ct, f.rt), decode |-> f.ct.enc, from |-> Address(f), check |-> <<>>,
     copyDeps |-> GetRuntimeInfo(f.rt) # <<>> /\ Head(GetRuntimeInfo(f.rt)).dep /\ ~f.ct.deps]

\* decode is what happens to the file before its checksum is verified.
getProvisionContainer(f) ==
    [name |-> "prepare", image |-> "unzip", mounts |-> <<runtimeMount, srcMount>>, env |-> <<>>,
     key |-> getFileName(f.ct, f.rt), decode |-> f.ct.enc, from |-> Address(f), check |-> f.sum,
     copyDeps |-> GetRuntimeInfo(f.rt) # <<>> /\ Head(GetRuntimeInfo(f.rt)).dep /\ ~f.ct.deps]

-----------------------------------------------------------------------------
(* The configured deployment merged into the Function's (k8sutil.go).      *)

\* With a selector that has no match labels the deployment's labels are reset.
initializeEmptyMaps(d) == [d EXCEPT !.labels = IF d.selector = "expressions" THEN {} ELSE @]

\* mergo without options fills only what is empty; maps are united.
MergeEmpty(d, s) ==
    [containers |-> IF d.containers = <<>> THEN s.containers ELSE d.containers,
     volumes |-> IF d.volumes = <<>> THEN s.volumes ELSE d.volumes,
     labels |-> d.labels \union s.labels,
     selector |-> IF d.selector = "none" THEN s.selector ELSE d.selector]

\* mergo.WithAppendSlice
MergeContainer(d, s) ==
    [image |-> IF d.image = "" THEN s.image ELSE d.image,
     env |-> d.env \o s.env, mounts |-> d.mounts \o s.mounts, ports |-> d.ports \o s.ports]

\* <<the merged deployment>>, or <<>> for the index out of range.
MergeDeployments(dst, src) ==
    LET m == MergeEmpty(initializeEmptyMaps(dst), initializeEmptyMaps(src))
        n == Len(src.containers)
    IN  IF n > Len(m.containers) THEN <<>>
        ELSE <<[m EXCEPT !.containers =
                   [i \in DOMAIN @ |-> IF i <= n THEN MergeContainer(@[i], src.containers[i])
                                       ELSE @[i]]]>>

-----------------------------------------------------------------------------
(* The pod (kubelessutil.go).                                              *)

VolumeNames(vols) == {vols[i].name : i \in DOMAIN vols}

\* The uses of secrets: the position of an init container and a secret of it.
InitSecrets(v, init) ==
    UNION {{i} \X ToSet(GetInitContainerSecrets(v, init[i].name)) : i \in DOMAIN init}

\* A secret's name is taken by a volume of another kind.
Clash(vols, uses) ==
    \E i \in DOMAIN vols, u \in uses : vols[i].name = u[2] /\ vols[i].secret # vols[i].name

SecretVolume(u) == [name |-> u[2], secret |-> u[2]]

\* Mutant: a volume is added for every use of a secret.
addSecretVolumesAlways(vols, uses) ==
    LET u == SetToSeq(uses) IN vols \o [i \in DOMAIN u |-> SecretVolume(u[i])]

\* One volume for each secret that has none yet, in some order.
addSecretVolumes(vols, uses) ==
    vols \o SetToSeq({SecretVolume(u) : u \in {w \in uses : w[2] \notin VolumeNames(vols)}})

MountSecrets(v, c) ==
    LET secrets == GetInitContainerSecrets(v, c.name)
    IN  [c EXCEPT !.mounts = @ \o [i \in DOMAIN secrets |->
                                      [vol |-> secrets[i], path |-> secrets[i]]]]

hasDeps(f) == f.deps # NoDeps \/ f.ct.deps

InitContainers(f, v, env) ==
    <<getProvisionContainer(f)>>
    \o (IF hasDeps(f) THEN GetBuildContainer(v, f.deps, env, runtimeMount) ELSE <<>>)
    \o GetCompilationContainer(v, env, runtimeMount)

PodError(e) == [err |-> e, init |-> <<>>, volumes |-> <<>>, pull |-> <<>>]

BaseVolumes(d) ==
    d.volumes \o <<[name |-> "fn", secret |-> NoSecret], [name |-> "fn-deps", secret |-> NoSecret]>>

WithInit(d, v, init, uses) ==
    [err |-> "none", init |-> [i \in DOMAIN init |-> MountSecrets(v, init[i])],
     volumes |-> addSecretVolumes(BaseVolumes(d), uses), pull |-> PullSecrets \o GetImageSecrets(v)]

\* The outcome for the deployment d of f and the matching runtime versions vs.
\* The runtime is looked up once more for every part; the first look-up that
\* fails ends the assembly.  Here and below the outcome is a set of one, whose
\* bound variables name the intermediate results.
populatePodSpec(f, d, vs) ==
    CASE f.ct.enc \notin {"base64", "url", "text"} -> {PodError("format")}
      [] vs = <<>> -> {PodError("runtime")}
      [] OTHER ->
            UNION {{IF Clash(BaseVolumes(d), uses) THEN PodError("volume")
                    ELSE WithInit(d, Head(vs), init, uses) : uses \in {InitSecrets(Head(vs), init)}}
                   : init \in {InitContainers(f, Head(vs), d.containers[1].env)}}

NoContainer == [image |-> "", env |-> <<>>, mounts |-> <<>>, ports |-> <<>>]

\* The environment a custom runtime adds to the function's container.
UpdateDeployment(rt) ==
    IF findRuntimeVersion(rt) = <<>> THEN <<>>
    ELSE LET v == Head(findRuntimeVersion(rt))
         IN  <<"INSTALL_VOLUME">> \o (IF HasImage("runtime", v) THEN v.images["runtime"].env ELSE <<>>)

\* The cached Function's deployment, of which the controller changes a copy.
OwnDeployment(f) ==
    IF f.dep.containers = <<>> THEN [f.dep EXCEPT !.containers = <<NoContainer>>] ELSE f.dep

\* The pod is assembled only for a function without an image of its own.
Assembled(f) == OwnDeployment(f).containers[1].image = "" /\ f.handler # NoHandler

PodSpec(f, own, vs) ==
    IF Assembled(f) THEN populatePodSpec(f, own, vs)
    ELSE {[err |-> "none", init |-> <<>>, volumes |-> own.volumes,
           pull |-> IF f.handler # NoHandler THEN PullSecrets ELSE <<>>]}

ImageOf(f, own) == IF Assembled(f) THEN GetFunctionImage(f.rt) ELSE <<own.containers[1].image>>

FunctionContainer(f, own, image) ==
    [own.containers[1] EXCEPT
        !.image = image,
        !.mounts = IF Assembled(f) THEN Append(@, runtimeMount) ELSE @,
        !.env = @ \o (IF f.handler # NoHandler THEN <<"FUNC">> ELSE <<>>) \o <<"PORT">> \o UpdateDeployment(f.rt),
        !.ports = Append(@, "http")]

\* The outcome for the cached Function f: an error, or the deployment it sends.
EnsureFuncDeployment(f) ==
    UNION {{IF spec.err # "none" \/ image = <<>>
            THEN [err |-> IF spec.err # "none" THEN spec.err ELSE "runtime", sent |-> <<>>]
            ELSE [err |-> "none", sent |-> <<
                    [rev |-> f.rev, prep |-> f.rev,
                     init |-> spec.init, volumes |-> spec.volumes, pull |-> spec.pull,
                     containers |-> [own.containers EXCEPT ![1] = FunctionContainer(f, own, Head(image))],
                     labels |-> own.labels, probe |-> GetLivenessProbeInfo(f.rt)]>>]
               : spec \in UNION {PodSpec(f, own, vs) : vs \in {findRuntimeVersion(f.rt)}}, image \in {ImageOf(f, own)}}
           : own \in {OwnDeployment(f)}}

KeptIfEmpty(new, old) == IF new = <<>> THEN old ELSE new

\* An existing deployment is changed with a merge patch: a list replaces the
\* stored one, but an empty list is left out of the patch and the stored one
\* stays.  The deployment's own labels are those of the Function, which it has
\* already.  prep is the revision that the init containers are of.
Patched(old, d) ==
    [d EXCEPT !.prep = IF d.init = <<>> THEN old.prep ELSE d.prep,
              !.init = KeptIfEmpty(d.init, old.init),
              !.volumes = KeptIfEmpty(d.volumes, old.volumes),
              !.pull = KeptIfEmpty(d.pull, old.pull),
              !.labels = old.labels]

\* What the API server holds once it has accepted d.
Stored(d) == IF dpm = <<>> THEN d ELSE Patched(Head(dpm), d)

\* The part of a deployment whose change replaces the pod.
Template(d) == <<d.init, d.volumes, d.pull, d.containers, d.probe>>

\* External: what the API server refuses in a pod template.
Accepts(d) ==
    /\ \A i, j \in DOMAIN d.volumes : d.volumes[i].name = d.volumes[j].name => i = j
    /\ \A k \in DOMAIN d.init :
          \A i \in DOMAIN d.init[k].mounts : d.init[k].mounts[i].vol \in VolumeNames(d.volumes)
    /\ \A k \in DOMAIN d.containers :
          LET m == d.containers[k].mounts
          IN  /\ d.containers[k].image # ""
              /\ \A i, j \in DOMAIN m : m[i].path = m[j].path => i = j
              /\ \A i \in DOMAIN m : m[i].vol \in VolumeNames(d.volumes)

-----------------------------------------------------------------------------
(* The user, the controller, the API server and the kubelet.               *)

NoPod == [st |-> "none", next |-> 1, raw |-> <<>>, bytes |-> <<>>, deps |-> NoDeps,
          installed |-> NoDeps, compiled |-> <<>>]
NewPod == [NoPod EXCEPT !.st = "init"]

Init ==
    /\ subs = <<>> /\ url = 1 /\ cache = <<>> /\ queued = FALSE /\ tries = 0 /\ faults = 0
    /\ cm = <<>> /\ sent = <<>> /\ dpm = <<>> /\ err = "none" /\ pod = NoPod

\* A user deploys a file, with the command line (which refuses an unknown
\* runtime and computes the checksum) or with a manifest.
Submit(r, bundled) ==
    /\ Len(subs) < MaxRev
    /\ r.cli => IsValidRuntime(r.rt) /\ ~bundled
    /\ bundled => r.file.ext # NoExt /\ r.deps = NoDeps
    /\ LET ct == [GetContentType(r.file) EXCEPT !.deps = bundled]
           bytes == [file |-> r.file, v |-> IF r.file.src = "url" THEN url ELSE Len(subs) + 1]
       IN  subs' = Append(subs, [rt |-> r.rt, handler |-> r.handler, dep |-> r.dep,
                                 ct |-> ct, body |-> ParseContent(ct, bytes),
                                 sum |-> IF r.cli THEN <<bytes>> ELSE <<>>,
                                 deps |-> r.deps, rev |-> Len(subs) + 1])
    /\ UNCHANGED <<url, cache, queued, tries, faults, cm, sent, dpm, err, pod>>

\* External: the file behind the URL changes.
Republish ==
    /\ url < MaxVersion
    /\ url' = url + 1
    /\ UNCHANGED <<subs, cache, queued, tries, faults, cm, sent, dpm, err, pod>>

\* The informer replaces the cached object and its handler enqueues the key;
\* after a panic the restarted controller lists the Functions again.
Observe ==
    /\ subs # <<>>
    /\ IF cache = <<>> THEN TRUE ELSE Head(cache).rev < Len(subs)
    /\ cache' = <<Last(subs)>>
    /\ queued' = TRUE
    /\ err' = "none"
    /\ UNCHANGED <<subs, url, tries, faults, cm, sent, dpm, pod>>

\* Without a handler it holds no files.
ConfigMapOf(f) ==
    LET files == f.handler # NoHandler
    IN  [rev |-> f.rev, key |-> IF files THEN getFileName(f.ct, f.rt) ELSE <<>>, body |-> f.body,
         deps |-> IF files /\ GetRuntimeInfo(f.rt) # <<>> /\ Head(GetRuntimeInfo(f.rt)).dep
                  THEN f.deps ELSE "missing"]

\* Mutant: a failed reconciliation is not retried.
FailedNoRetry(e) == err' = e /\ queued' = FALSE /\ tries' = 0

\* The reconciliation ended with error e: the key is retried or forgotten.
Failed(e) ==
    /\ err' = e
    /\ queued' = (tries < MaxTries)
    /\ tries' = IF tries < MaxTries THEN tries + 1 ELSE 0

\* The merge runs past the end of the containers and the process dies.
ReconcilePanics ==
    /\ queued
    /\ MergeDeployments(Head(cache).dep, Config) = <<>>
    /\ err' = "panic"
    /\ cache' = <<>> /\ queued' = FALSE /\ tries' = 0
    /\ UNCHANGED <<subs, url, faults, cm, sent, dpm, pod>>

\* The cached object itself is the destination of the merge.
Merged == {[Head(cache) EXCEPT !.dep = d] : d \in ToSet(MergeDeployments(Head(cache).dep, Config))}

\* ensureK8sResources ends early: a malformed handler, or an API call that
\* fails before or after the config map is written.
ReconcileFails(f, stage) ==
    /\ cache' = <<f>>
    /\ \/ /\ stage = "handler"
          /\ ~HandlerOk(f)
          /\ UNCHANGED <<faults, cm>>
       \/ /\ stage \in {"configmap", "service"}
          /\ HandlerOk(f)
          /\ faults < MaxFaults
          /\ faults' = faults + 1
          /\ cm' = IF stage = "service" THEN <<ConfigMapOf(f)>> ELSE cm
    /\ Failed(stage)
    /\ UNCHANGED <<subs, url, sent, dpm, pod>>

\* ensureK8sResources up to the deployment, which the API server may refuse;
\* r is the outcome of EnsureFuncDeployment.
Reconcile(f, r) ==
    /\ HandlerOk(f)
    /\ cache' = <<f>>
    /\ cm' = <<ConfigMapOf(f)>>
    /\ sent' = IF r.err = "none" THEN r.sent ELSE sent
    /\ IF r.err = "none" /\ Accepts(Stored(Head(r.sent)))
       THEN /\ dpm' = <<Stored(Head(r.sent))>>
            /\ pod' = IF dpm # <<>> /\ Template(Head(dpm')) = Template(Head(dpm)) THEN pod ELSE NewPod
            /\ err' = "none" /\ queued' = FALSE /\ tries' = 0
       ELSE /\ Failed(IF r.err = "none" THEN "rejected" ELSE r.err)
            /\ UNCHANGED <<dpm, pod>>
    /\ UNCHANGED <<subs, url, faults>>

\* The file the prepare container works on: decoded from the config map's
\* volume or downloaded from the address in its command, both into /tmp, or,
\* for text, the volume itself.
Raw(c) ==
    CASE c.decode = "url" -> [bytes |-> [file |-> Head(c.from), v |-> url], b64 |-> FALSE]
      [] c.decode = "base64" -> [Head(cm).body EXCEPT !.b64 = FALSE]
      [] OTHER -> Head(cm).body

\* Its commands up to the checksum succeed.
PrepareOk(c) ==
    /\ c.decode # "url" => c.key = Head(cm).key
    /\ c.decode = "base64" => Head(cm).body.b64
    /\ c.check # <<>> => ~Raw(c).b64 /\ Raw(c).bytes = Head(c.check)

RunVerify ==
    LET c == Head(dpm).init[pod.next]
    IN  /\ pod.st = "init" /\ pod.next <= Len(Head(dpm).init)
        /\ c.name = "prepare" /\ pod.raw = <<>> /\ PrepareOk(c)
        /\ pod' = [pod EXCEPT !.raw = <<Raw(c).bytes>>]
        /\ UNCHANGED <<subs, url, cache, queued, tries, faults, cm, sent, dpm, err>>

\* The commands after the checksum: text is read from the volume once more.
\* When a file is no longer there the container is run again.
RunCopy ==
    LET c == Head(dpm).init[pod.next]
        there == /\ c.decode = "text" => c.key = Head(cm).key
                 /\ c.copyDeps => Head(cm).deps # "missing"
    IN  /\ pod.st = "init" /\ pod.raw # <<>>
        /\ pod' = IF ~there THEN [pod EXCEPT !.raw = <<>>]
                  ELSE [pod EXCEPT !.next = @ + 1, !.raw = <<>>,
                                   !.bytes = IF c.decode = "text" THEN <<Head(cm).body.bytes>> ELSE pod.raw,
                                   !.deps = IF c.copyDeps THEN Head(cm).deps ELSE Bundled]
        /\ UNCHANGED <<subs, url, cache, queued, tries, faults, cm, sent, dpm, err>>

RunHook ==
    LET c == Head(dpm).init[pod.next]
    IN  /\ pod.st = "init" /\ pod.next <= Len(Head(dpm).init)
        /\ \/ /\ c.name = "install"
              /\ c.check = NoDeps \/ c.check = pod.deps
              /\ pod' = [pod EXCEPT !.next = @ + 1, !.installed = pod.deps]
           \/ /\ c.name = "compile"
              /\ pod' = [pod EXCEPT !.next = @ + 1, !.compiled = <<pod.bytes, pod.installed>>]
        /\ UNCHANGED <<subs, url, cache, queued, tries, faults, cm, sent, dpm, err>>

StartFunction ==
    /\ pod.st = "init" /\ pod.next > Len(Head(dpm).init)
    /\ pod' = [pod EXCEPT !.st = "started"]
    /\ UNCHANGED <<subs, url, cache, queued, tries, faults, cm, sent, dpm, err>>

\* External: the pod is lost and its replacement starts from the beginning.
PodLost ==
    /\ pod.st # "none" /\ faults < MaxFaults
    /\ faults' = faults + 1
    /\ pod' = NewPod
    /\ UNCHANGED <<subs, url, cache, queued, tries, cm, sent, dpm, err>>

User == \E r \in Requests, bundled \in BOOLEAN : Submit(r, bundled)
Controller ==
    \/ Observe
    \/ ReconcilePanics
    \/ queued /\ \E f \in Merged : \E r \in EnsureFuncDeployment(f) : Reconcile(f, r)
Faulty == queued /\ \E f \in Merged, stage \in {"handler", "configmap", "service"} : ReconcileFails(f, stage)
Kubelet == RunVerify \/ RunCopy \/ RunHook \/ StartFunction

Next ==
    User \/ Republish \/ Controller \/ Faulty \/ Kubelet \/ PodLost

Spec == Init /\ [][Next]_vars

\* The informer and the worker are goroutines that run whenever they have
\* work, and the kubelet restarts an init container until it succeeds.
FairSpec == Spec /\ WF_vars(Controller) /\ WF_vars(Kubelet)

-----------------------------------------------------------------------------
(* Properties.                                                             *)

\* A started function that was prepared in its pod has the bytes and the
\* dependencies of the very revision its init containers were made for, which
\* is the deployment's own unless that one brings an image and the merge patch
\* left an earlier revision's in place (kubelessutil.go:782-789), although
\* they read a config map, or a URL, that may be newer: the
\* checksums of kubelessutil.go:101-117 and langruntime.go:304-313.  Content
\* that is decoded or downloaded is verified where it is then copied from;
\* text is read from the volume again after its checksum, so only its
\* dependencies are.  What was compiled was compiled last, from the prepared
\* file with the dependencies in place (kubelessutil.go:407-443).
StartsOneRevision ==
    pod.st = "started" /\ Head(dpm).init # <<>> =>
        LET s == subs[Head(dpm).prep]
            v == Head(findRuntimeVersion(s.rt))
        IN  /\ s.sum # <<>> /\ s.ct.enc # "text" => pod.bytes = s.sum
            /\ hasDeps(s) /\ HasImage("installation", v) =>
                  pod.installed = IF s.deps = NoDeps THEN Bundled ELSE s.deps
            /\ HasImage("compilation", v) => pod.compiled = <<pod.bytes, pod.installed>>

\* Whatever was merged before, the deployment sent declares each volume once
\* and each init container mounts the secrets of its phase from volumes of
\* those secrets (kubelessutil.go:445-480).
InitMountsSound ==
    sent # <<>> =>
        LET d == Head(sent)
            s == subs[d.rev]
        IN  /\ Cardinality(VolumeNames(d.volumes)) = Len(d.volumes)
            /\ \A i \in DOMAIN d.init :
                  LET v == Head(findRuntimeVersion(s.rt))
                      m == d.init[i].mounts
                      phase == [install |-> "installation", compile |-> "compilation"]
                  IN  /\ \A j \in DOMAIN m : m[j].vol \in VolumeNames(d.volumes)
                      /\ d.init[i].name \in DOMAIN phase =>
                            \A k \in ToSet(v.images[phase[d.init[i].name]].secrets) :
                                /\ \E j \in DOMAIN m : m[j].vol = k
                                /\ [name |-> k, secret |-> k] \in ToSet(d.volumes)

\* A runtime the command line accepts is one the controller can resolve:
\* validity compares whole names, the controller takes the name apart again
\* (langruntime.go:101-108, :123-138, :165-177).
ValidRuntimeResolves == err = "runtime" => ~IsValidRuntime(Head(cache).rt)

\* Its URL, if any, still serves the file whose checksum was taken.
Served(s) == s.ct.enc = "url" => s.body.bytes.v = url

\* Once the config map and the init containers are of the same revision, the
\* prepare container undoes the encoding the command line chose, downloads
\* what the checksum was taken of, and its checksum matches
\* (kubelessutil.go:85-117, :951-1016).
PrepareAccepts ==
    cm # <<>> /\ dpm # <<>> =>
        LET s == subs[Head(dpm).prep]
        IN  Head(cm).rev = Head(dpm).prep /\ Head(dpm).init # <<>> /\ Served(s)
            => PrepareOk(Head(Head(dpm).init))

\* The Function is one the merge, the handler's and the runtime's look-up and
\* the volumes allow.
Deployable(s) ==
    /\ HandlerOk(s)
    /\ IsValidRuntime(s.rt)
    /\ Len(Config.containers) <= Len(s.dep.containers)
    /\ \A i \in DOMAIN s.dep.volumes : s.dep.volumes[i].secret # NoSecret

\* Its pod is assembled, or no init containers of an assembled one were left
\* behind that the merge patch would keep.
BringsItsInit(s) ==
    Assembled(s) \/ \A i \in 1..(s.rev - 1) : ~Assembled(subs[i])

\* Whatever was submitted before, retried or lost, again and again the pod of
\* the latest revision's deployment is started if that revision is deployable:
\* the repeated merge into the cached object, the merge patch into the stored
\* deployment, the encoding, the order of config map and deployment and an
\* earlier revision's failure or panic never wedge it.  The queue counts the
\* failures of a key, not of a revision (function_controller.go:178): only when
\* no earlier revision used up the retries does it outlive a failed call.
LatestStarts ==
    LET expected == /\ subs # <<>>
                    /\ Deployable(Last(subs)) /\ Served(Last(subs)) /\ BringsItsInit(Last(subs))
                    /\ faults = 0 \/ \A i \in DOMAIN subs : Deployable(subs[i])
    IN  []<>(expected => pod.st = "started" /\ Head(dpm).rev = Len(subs))

-----------------------------------------------------------------------------
(* What users and operators are trusted with.  MCFunctionPod assumes the   *)
(* same of its instance.                                                   *)

\* In the runtime table identifiers are of letters and separators, versions of
\* digits and dots, and no identifier is listed twice: the form that the code's
\* regular expressions take apart (langruntimetestutils.go:15-46; for a runtime
\* of one's own docs/runtimes.md:603).
WellNamed ==
    /\ \A i, j \in DOMAIN Table : Table[i].id = Table[j].id => i = j
    /\ \A t \in ToSet(Table) :
          /\ t.id \in Seq(Alpha \union Sep)
          /\ \A v \in ToSet(t.versions) : v.version \in Seq(Num)

\* No archive is valid UTF-8.  GetContentType would call it text, which the
\* prepare container does not decode, and ParseContent would encode it.
ArchivesAreBinary ==
    \A r \in Requests : r.file.text /\ r.file.src # "url" => r.file.ext = NoExt

\* Each volume is declared once, and not under the two names that
\* populatePodSpec takes from the Function's.
DeclaredOnce(vols) ==
    /\ \A i, j \in DOMAIN vols : vols[i].name = vols[j].name => i = j
    /\ VolumeNames(vols) \cap {"fn", "fn-deps"} = {}

VolumesDeclaredOnce ==
    DeclaredOnce(Config.volumes) /\ \A r \in Requests : DeclaredOnce(r.dep.volumes)

=============================================================================
