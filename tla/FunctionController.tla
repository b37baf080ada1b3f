------------------------- MODULE FunctionController -------------------------
(***************************************************************************)
(* The function controller of kubeless (pkg/controller) and the objects it *)
(* manages: the Function custom resources in the API server, the informer  *)
(* cache that lags behind them, the rate-limited work queue, the single    *)
(* worker that turns one Function at a time into Kubernetes objects, and   *)
(* the crashes and failed API calls it has to survive.                     *)
(***************************************************************************)
EXTENDS Integers, Sequences, FiniteSets

CONSTANTS
    Names,          \* names of Function objects (one namespace)
    Codes,          \* values of the spec fields functionObjChanged compares
    Runtimes,       \* values of spec.runtime, which it does not compare
    SvcTypes,       \* values of spec.service outside its ports
    PlainHPAs,      \* autoscalers on a resource metric (cpu)
    ObjectHPAs,     \* autoscalers on an object metric (qps)
    NoHPA,          \* the function asks for no autoscaler
    BadHandlers,    \* codes whose handler splitHandler refuses
    BadRuntimes,    \* runtimes populatePodSpec refuses
    EnableBuild,    \* "enable-build-step" of the kubeless-config ConfigMap
    ConfigMerges,   \* whether its "deployment" entry alters a function's
    ForeignKinds,   \* kinds other tools may create under a function's name
    MaxRetries,     \* maxRetries
    MaxOps,         \* bound: operations of users and other tools
    MaxFaults,      \* bound: failed API calls and broken watches
    MaxCrashes,     \* bound: crashes of the controller
    NoKey           \* the idle worker's key

HPAs == PlainHPAs \cup ObjectHPAs \cup {NoHPA}

\* FunctionSpec, reduced to what the controller tells apart.
Specs == [code: Codes, runtime: Runtimes, svcType: SvcTypes, hpa: HPAs]

\* The spec of an object that does not exist: some value, never looked at.
NoSpec == CHOOSE s \in Specs : TRUE

\* Kinds of the objects made for a function, all named after it.
Workload == {"configmap", "service", "deployment"}
Kinds == Workload \cup {"monitor", "autoscaler", "job"}

ASSUME ControllerAssumption ==
    /\ Codes # {} /\ Runtimes # {} /\ SvcTypes # {}
    /\ NoKey \notin Names
    /\ NoHPA \notin PlainHPAs \cup ObjectHPAs
    /\ EnableBuild \in BOOLEAN
    /\ ConfigMerges \in BOOLEAN
    /\ ForeignKinds \subseteq Workload \cup {"autoscaler"}
    /\ MaxRetries \in Nat
    /\ MaxOps \in Nat
    /\ MaxFaults \in Nat
    /\ MaxCrashes \in Nat

(***************************************************************************)
(* A Function object as one revision of it.  rv is its resourceVersion,    *)
(* counted per name; uid is the rv at which it was created; fin tells      *)
(* whether it carries the finalizer kubeless.io/function, del whether its  *)
(* DeletionTimestamp is set; ~live is the revision that removed it.        *)
(***************************************************************************)
Objs == [live: BOOLEAN, uid: Nat, rv: Nat, fin: BOOLEAN, del: BOOLEAN,
         spec: Specs]

Gone(rv) == [live |-> FALSE, uid |-> 0, rv |-> rv, fin |-> FALSE,
             del |-> FALSE, spec |-> NoSpec]

\* An object made for a function: by kubeless for the Function with that
\* uid, or by another tool (no created-by=kubeless label), or not there.
Children == [by: {"none", "kubeless", "other"}, uid: Nat, spec: Specs]

Absent == [by |-> "none", uid |-> 0, spec |-> NoSpec]
Foreign == [by |-> "other", uid |-> 0, spec |-> NoSpec]

EnsureSteps == {"configmap", "service", "image", "deployment", "monitor",
                "autoscaler", "dropMonitor", "dropAutoscaler"}
DeleteSteps == {"delDeployment", "delService", "delConfigmap", "delMonitor",
                "delAutoscaler", "delJobs", "removeFinalizer"}
Steps == {"idle", "lookup", "addFinalizer"} \cup EnsureSteps \cup DeleteSteps

VARIABLES
    api,        \* the newest revision of every Function
    res,        \* the objects made for every function, by kind
    up,         \* the controller process runs
    cache,      \* the revision in the informer's store
    mutated,    \* the worker has written into that cached object
    watch,      \* revisions the informer has not received yet
    unsynced,   \* names of the first list that are not in the store yet
    queue,      \* the work queue: keys in order
    dirty,      \* its set of keys that need processing
    waiting,    \* its keys waiting for their back-off to expire
    requeues,   \* its NumRequeues
    gaveUp,     \* the last attempt failed and is not retried
    pc,         \* the worker's next step
    key,        \* the key the worker processes
    funcObj,    \* the cached object it read
    attached,   \* funcObj is still the object in the store
    ops, faults, crashes    \* how much of each bound is spent

informerVars == <<cache, mutated, watch, unsynced>>
queueVars == <<queue, dirty, waiting, requeues, gaveUp>>
workerVars == <<pc, key, funcObj, attached>>
envVars == <<ops, faults, crashes>>
vars == <<api, res, up, informerVars, queueVars, workerVars, envVars>>

TypeOK ==
    /\ api \in [Names -> Objs]
    /\ res \in [Names -> [Kinds -> Children]]
    /\ up \in BOOLEAN
    /\ cache \in [Names -> Objs]
    /\ mutated \in [Names -> BOOLEAN]
    /\ watch \in [Names -> SUBSET Objs]
    /\ unsynced \subseteq Names
    /\ queue \in Seq(Names)
    /\ dirty \subseteq Names
    /\ waiting \subseteq Names
    /\ requeues \in [Names -> 0..MaxRetries]
    /\ gaveUp \in [Names -> BOOLEAN]
    /\ pc \in Steps
    /\ key \in Names \cup {NoKey}
    /\ (pc = "idle") <=> (key = NoKey)
    /\ funcObj \in Objs
    /\ attached \in BOOLEAN
    /\ ops \in 0..MaxOps
    /\ faults \in 0..MaxFaults
    /\ crashes \in 0..MaxCrashes

Owned(c) == c.by = "kubeless"

Init ==
    /\ api = [n \in Names |-> Gone(0)]
    /\ res = [n \in Names |-> [k \in Kinds |-> Absent]]
    /\ up = FALSE
    /\ cache = [n \in Names |-> Gone(0)]
    /\ mutated = [n \in Names |-> FALSE]
    /\ watch = [n \in Names |-> {}]
    /\ unsynced = {}
    /\ queue = <<>>
    /\ dirty = {}
    /\ waiting = {}
    /\ requeues = [n \in Names |-> 0]
    /\ gaveUp = [n \in Names |-> FALSE]
    /\ pc = "idle"
    /\ key = NoKey
    /\ funcObj = Gone(0)
    /\ attached = FALSE
    /\ ops = 0
    /\ faults = 0
    /\ crashes = 0

-----------------------------------------------------------------------------
(* Users and other tools.                                                  *)

\* The API server stores a revision and tells a running informer of it.
Store(n, obj) ==
    /\ api' = [api EXCEPT ![n] = obj]
    /\ watch' = IF up THEN [watch EXCEPT ![n] = @ \cup {obj}] ELSE watch

SpendOp == ops < MaxOps /\ ops' = ops + 1

CreateFunction(n, s) ==
    /\ ~api[n].live
    /\ SpendOp
    /\ LET rv == api[n].rv + 1
       IN  Store(n, [live |-> TRUE, uid |-> rv, rv |-> rv, fin |-> FALSE,
                     del |-> FALSE, spec |-> s])
    /\ UNCHANGED <<res, up, cache, mutated, unsynced, queueVars, workerVars,
                   faults, crashes>>

UpdateFunction(n, s) ==
    /\ api[n].live
    /\ s # api[n].spec
    /\ SpendOp
    /\ Store(n, [api[n] EXCEPT !.rv = @ + 1, !.spec = s])
    /\ UNCHANGED <<res, up, cache, mutated, unsynced, queueVars, workerVars,
                   faults, crashes>>

\* Without the finalizer the object goes at once; with it, it is marked.
DeleteFunction(n) ==
    /\ api[n].live
    /\ ~api[n].del
    /\ SpendOp
    /\ Store(n, IF api[n].fin THEN [api[n] EXCEPT !.rv = @ + 1, !.del = TRUE]
                ELSE Gone(api[n].rv + 1))
    /\ UNCHANGED <<res, up, cache, mutated, unsynced, queueVars, workerVars,
                   faults, crashes>>

\* Another tool owns an object that happens to have the function's name.
CreateForeign(n, k) ==
    /\ k \in ForeignKinds
    /\ res[n][k] = Absent
    /\ SpendOp
    /\ res' = [res EXCEPT ![n][k] = Foreign]
    /\ UNCHANGED <<api, up, informerVars, queueVars, workerVars,
                   faults, crashes>>

-----------------------------------------------------------------------------
(* The work queue (client-go) and the informer with its event handlers.    *)

\* workqueue.Add: a key that is being processed waits in dirty until Done.
Add(n) ==
    /\ dirty' = dirty \cup {n}
    /\ queue' = IF n \in dirty \/ n = key THEN queue ELSE Append(queue, n)

\* The back-off of AddRateLimited expires.
DelayExpires(n) ==
    /\ up
    /\ n \in waiting
    /\ waiting' = waiting \ {n}
    /\ Add(n)
    /\ UNCHANGED <<api, res, up, informerVars, requeues, gaveUp, workerVars,
                   envVars>>

\* Mutant: the autoscaler is not compared.
ChangedButForHPA(old, new, written) ==
    \/ old.del \/ new.del
    \/ /\ old.rv # new.rv
       /\ \/ old.spec.code # new.spec.code
          \/ old.spec.svcType # new.spec.svcType
          \/ written

\* Mutant: the deletion timestamp is not compared.
ChangedButForDeletion(old, new, written) ==
    /\ old.rv # new.rv
    /\ \/ old.spec.code # new.spec.code
       \/ old.spec.svcType # new.spec.svcType
       \/ old.spec.hpa # new.spec.hpa
       \/ written

\* DeletionTimestamp is compared by address: equal only when both are nil.
\* A cached object the worker wrote into differs from any new revision.
functionObjChanged(old, new, written) ==
    \/ old.del \/ new.del
    \/ /\ old.rv # new.rv
       /\ \/ old.spec.code # new.spec.code
          \/ old.spec.svcType # new.spec.svcType
          \/ old.spec.hpa # new.spec.hpa
          \/ written

\* Which of AddFunc, UpdateFunc and DeleteFunc the informer calls, and
\* whether that handler adds the key.
HandlerAdds(old, new, written) ==
    IF old.live /\ new.live
        THEN functionObjChanged(old, new, written)
        ELSE old.live \/ new.live

\* The store gets a new object for n; one the worker holds is detached.
Replace(n, obj) ==
    /\ cache' = [cache EXCEPT ![n] = obj]
    /\ mutated' = [mutated EXCEPT ![n] = FALSE]
    /\ attached' = (attached /\ key # n)
    /\ IF HandlerAdds(cache[n], obj, mutated[n])
           THEN Add(n)
           ELSE UNCHANGED <<queue, dirty>>

\* The informer receives a revision.  After a broken watch it lists again
\* and so may skip revisions, but it never goes back.
Deliver(n) ==
    /\ up
    /\ \E obj \in watch[n] :
           /\ Replace(n, obj)
           /\ watch' = [watch EXCEPT ![n] = {o \in @ : o.rv > obj.rv}]
    /\ unsynced' = unsynced \ {n}
    /\ UNCHANGED <<api, res, up, waiting, requeues, gaveUp, pc, key, funcObj,
                   envVars>>

SpendFault == faults < MaxFaults /\ faults' = faults + 1

\* The watch breaks and the new list holds the revision already in the
\* store, which is decoded into a new object.
Relist(n) ==
    /\ up
    /\ watch[n] = {}
    /\ cache[n].live
    /\ SpendFault
    /\ Replace(n, cache[n])
    /\ UNCHANGED <<api, res, up, watch, unsynced, waiting, requeues, gaveUp,
                   pc, key, funcObj, ops, crashes>>

-----------------------------------------------------------------------------
(* The worker: processNextItem.                                            *)

\* queue.Get, by a worker that Run starts once the informer has synced.
GetItem ==
    /\ up
    /\ unsynced = {}
    /\ pc = "idle"
    /\ queue # <<>>
    /\ key' = Head(queue)
    /\ queue' = Tail(queue)
    /\ dirty' = dirty \ {Head(queue)}
    /\ pc' = "lookup"
    /\ UNCHANGED <<api, res, up, informerVars, waiting, requeues, gaveUp,
                   funcObj, attached, envVars>>

\* Mutant: maxRetries is not looked at.
EndItemUnbounded(ok) ==
    /\ requeues' = [requeues EXCEPT ![key] = IF ok THEN 0 ELSE @ + 1]
    /\ waiting' = IF ok THEN waiting ELSE waiting \cup {key}
    /\ queue' = IF key \in dirty THEN Append(queue, key) ELSE queue
    /\ pc' = "idle"
    /\ key' = NoKey
    /\ funcObj' = Gone(0)
    /\ attached' = FALSE
    /\ UNCHANGED <<dirty, gaveUp>>

\* Mutant: Forget also on the retry path, so NumRequeues never grows.
EndItemForgets(ok) ==
    /\ requeues' = [requeues EXCEPT ![key] = 0]
    /\ waiting' = IF ok THEN waiting ELSE waiting \cup {key}
    /\ queue' = IF key \in dirty THEN Append(queue, key) ELSE queue
    /\ pc' = "idle"
    /\ key' = NoKey
    /\ funcObj' = Gone(0)
    /\ attached' = FALSE
    /\ UNCHANGED <<dirty, gaveUp>>

\* Mutant: Done is not called.
EndItemWithoutDone(ok) ==
    LET retry == ~ok /\ requeues[key] < MaxRetries
    IN  /\ requeues' = [requeues EXCEPT ![key] = IF retry THEN @ + 1 ELSE 0]
        /\ waiting' = IF retry THEN waiting \cup {key} ELSE waiting
        /\ gaveUp' = [gaveUp EXCEPT ![key] = ~ok /\ ~retry]
        /\ UNCHANGED <<queue, dirty>>
        /\ pc' = "idle"
        /\ key' = NoKey
        /\ funcObj' = Gone(0)
        /\ attached' = FALSE

\* processItem returned: Forget, AddRateLimited or give up; then Done.
EndItem(ok) ==
    LET retry == ~ok /\ requeues[key] < MaxRetries
    IN  /\ requeues' = [requeues EXCEPT ![key] = IF retry THEN @ + 1 ELSE 0]
        /\ waiting' = IF retry THEN waiting \cup {key} ELSE waiting
        /\ gaveUp' = [gaveUp EXCEPT ![key] = ~ok /\ ~retry]
        /\ queue' = IF key \in dirty THEN Append(queue, key) ELSE queue
        /\ dirty' = dirty
        /\ pc' = "idle"
        /\ key' = NoKey
        /\ funcObj' = Gone(0)
        /\ attached' = FALSE

Goto(step) == pc' = step /\ UNCHANGED <<key, funcObj, attached, queueVars>>

\* The API server has carried out the call: its answer arrives and the
\* worker goes on ("done": processItem returns nil), or the answer is lost
\* and the worker sees an error.
Answered(step) ==
    \/ /\ IF step = "done" THEN EndItem(TRUE) ELSE Goto(step)
       /\ UNCHANGED faults
    \/ /\ SpendFault
       /\ EndItem(FALSE)

\* ensureK8sResources writes into the object it was given, which is the
\* informer's own.
MutateCached(written) ==
    mutated' = IF attached /\ written THEN [mutated EXCEPT ![key] = TRUE]
                                      ELSE mutated

\* Mutant: the finalizer is removed before the resources are.
FirstStepFinalizerFirst(obj) ==
    CASE ~obj.live \/ (obj.del /\ ~obj.fin) -> "done"
      [] obj.live /\ obj.del /\ obj.fin -> "removeFinalizer"
      [] obj.live /\ ~obj.del /\ ~obj.fin -> "addFinalizer"
      [] obj.live /\ ~obj.del /\ obj.fin -> "configmap"

\* Where processItem goes with the object it read from the store.
FirstStep(obj) ==
    CASE ~obj.live \/ (obj.del /\ ~obj.fin) -> "done"
      [] obj.live /\ obj.del /\ obj.fin -> "delDeployment"
      [] obj.live /\ ~obj.del /\ ~obj.fin -> "addFinalizer"
      [] obj.live /\ ~obj.del /\ obj.fin -> "configmap"

\* Mutant: the configuration is merged as soon as the object is read.
MergesAtOnce(step) == ConfigMerges

\* ensureK8sResources starts by merging the configuration's deployment.
MergesBefore(step) == step = "configmap" /\ ConfigMerges

LookUp ==
    /\ pc = "lookup"
    /\ LET obj == cache[key]
           step == FirstStep(obj)
       IN  \/ /\ step = "done"
              /\ EndItem(TRUE)
              /\ UNCHANGED mutated
           \/ /\ step # "done"
              /\ pc' = step
              /\ funcObj' = obj
              /\ attached' = TRUE
              /\ mutated' = [mutated EXCEPT
                               ![key] = @ \/ MergesBefore(step)]
              /\ UNCHANGED <<key, queueVars>>
    /\ UNCHANGED <<api, res, up, cache, watch, unsynced, envVars>>

\* Mutant: the finalizer is patched in whatever the resourceVersion.
AddFinalizerByPatch ==
    /\ pc = "addFinalizer"
    /\ api[key].live
    /\ Store(key, [api[key] EXCEPT !.rv = @ + 1, !.fin = TRUE])
    /\ Goto("configmap")
    /\ MutateCached(MergesBefore("configmap"))
    /\ UNCHANGED <<res, up, cache, unsynced, envVars>>

\* FunctionObjAddFinalizer: an Update that carries the resourceVersion of
\* the cached object, so it fails once the object has moved on.
AddFinalizer ==
    /\ pc = "addFinalizer"
    /\ \/ /\ funcObj.rv = api[key].rv
          /\ Store(key, [api[key] EXCEPT !.rv = @ + 1, !.fin = TRUE])
          /\ \/ /\ Goto("configmap")
                /\ MutateCached(MergesBefore("configmap"))
                /\ UNCHANGED faults
             \/ /\ SpendFault
                /\ EndItem(FALSE)
                /\ UNCHANGED mutated
       \/ /\ funcObj.rv # api[key].rv
          /\ EndItem(FALSE)
          /\ UNCHANGED <<api, watch, mutated, faults>>
    /\ UNCHANGED <<res, up, cache, unsynced, ops, crashes>>

-----------------------------------------------------------------------------
(* ensureK8sResources, one step per object.                                *)

Made(spec) == [by |-> "kubeless", uid |-> funcObj.uid, spec |-> spec]

Put(k, child) == res' = [res EXCEPT ![key][k] = child]

\* The worker sees an error it will meet again on every retry.
Refuse == EndItem(FALSE) /\ UNCHANGED <<res, faults>>

\* The handler of a spec is module_name.handler_name, or it is empty.
splitHandler(spec) == spec.code \notin BadHandlers

EnsureFuncConfigMap ==
    /\ pc = "configmap"
    /\ \/ /\ \/ ~splitHandler(funcObj.spec)
             \/ res[key]["configmap"] = Foreign
          /\ Refuse
       \/ /\ splitHandler(funcObj.spec)
          /\ res[key]["configmap"] # Foreign
          /\ Put("configmap", Made(funcObj.spec))
          /\ Answered("service")
    /\ UNCHANGED <<api, up, informerVars, ops, crashes>>

\* Of a Service that exists only the ports are replaced.
ServiceSpec(old) ==
    IF Owned(old) THEN [funcObj.spec EXCEPT !.svcType = old.spec.svcType]
                  ELSE funcObj.spec

EnsureFuncService ==
    /\ pc = "service"
    /\ \/ /\ res[key]["service"] = Foreign
          /\ Refuse
       \/ /\ res[key]["service"] # Foreign
          /\ Put("service", Made(ServiceSpec(res[key]["service"])))
          /\ Answered(IF EnableBuild THEN "image" ELSE "deployment")
    /\ UNCHANGED <<api, up, informerVars, ops, crashes>>

\* The pod spec of a runtime the configuration knows can be built.
populatePodSpec(spec) == spec.runtime \notin BadRuntimes

\* "job" stands for all build jobs of a function, one per content: there may
\* be one for this content already, or one is created.
EnsureFuncImage ==
    \/ UNCHANGED res
    \/ /\ populatePodSpec(funcObj.spec)
       /\ Put("job", Made(funcObj.spec))

\* The registry may hold the image, and the credentials or the registry may
\* be out of reach: neither stops the deployment.
startImageBuildJob ==
    /\ pc = "image"
    /\ UNCHANGED res \/ EnsureFuncImage
    /\ Goto("deployment")
    /\ UNCHANGED <<api, up, informerVars, envVars>>

\* A runtime nobody knows is refused unless an image was built before.
\* Before the autoscaler steps OwnerReferences is written into the object.
EnsureFuncDeployment ==
    /\ pc = "deployment"
    /\ \/ /\ \/ ~populatePodSpec(funcObj.spec)
             \/ res[key]["deployment"] = Foreign
          /\ Refuse
          /\ UNCHANGED mutated
       \/ /\ populatePodSpec(funcObj.spec) \/ EnableBuild
          /\ res[key]["deployment"] # Foreign
          /\ Put("deployment", Made(funcObj.spec))
          /\ \/ /\ Goto(CASE funcObj.spec.hpa \in ObjectHPAs -> "monitor"
                          [] funcObj.spec.hpa \in PlainHPAs -> "autoscaler"
                          [] OTHER -> "dropMonitor")
                /\ MutateCached(funcObj.spec.hpa # NoHPA)
                /\ UNCHANGED faults
             \/ /\ SpendFault
                /\ EndItem(FALSE)
                /\ UNCHANGED mutated
    /\ UNCHANGED <<api, up, cache, watch, unsynced, ops, crashes>>

\* An existing monitor is an error; a Get that fails otherwise is not.
CreateServiceMonitor ==
    /\ pc = "monitor"
    /\ \/ /\ res[key]["monitor"] # Absent
          /\ Refuse
       \/ /\ res[key]["monitor"] = Absent
          /\ Put("monitor", Made(funcObj.spec))
          /\ Answered("autoscaler")
       \/ /\ SpendFault
          /\ Goto("autoscaler")
          /\ UNCHANGED res
    /\ UNCHANGED <<api, up, informerVars, ops, crashes>>

\* CreateAutoscale, or UpdateAutoscale of whatever has that name.
EnsureAutoscaler ==
    /\ pc = "autoscaler"
    /\ Put("autoscaler", Made(funcObj.spec))
    /\ Answered("done")
    /\ UNCHANGED <<api, up, informerVars, ops, crashes>>

-----------------------------------------------------------------------------
(* deleteK8sResources and deleteAutoscale: every Delete ignores NotFound   *)
(* and, but for the jobs, none looks at who made the object.               *)

DeleteStep(step, k, next) ==
    /\ pc = step
    /\ Put(k, Absent)
    /\ Answered(next)
    /\ UNCHANGED <<api, up, informerVars, ops, crashes>>

deleteAutoscale ==
    \/ DeleteStep("dropMonitor", "monitor", "dropAutoscaler")
    \/ DeleteStep("dropAutoscaler", "autoscaler", "done")

\* Mutant: the autoscaler is forgotten.
deleteAllButAutoscaler ==
    \/ DeleteStep("delDeployment", "deployment", "delService")
    \/ DeleteStep("delService", "service", "delConfigmap")
    \/ DeleteStep("delConfigmap", "configmap", "delMonitor")
    \/ DeleteStep("delMonitor", "monitor", "delJobs")
    \/ DeleteStep("delJobs", "job", "removeFinalizer")

deleteK8sResources ==
    \/ DeleteStep("delDeployment", "deployment", "delService")
    \/ DeleteStep("delService", "service", "delConfigmap")
    \/ DeleteStep("delConfigmap", "configmap", "delMonitor")
    \/ DeleteStep("delMonitor", "monitor", "delAutoscaler")
    \/ DeleteStep("delAutoscaler", "autoscaler", "delJobs")
    \/ DeleteStep("delJobs", "job", "removeFinalizer")

\* FunctionObjRemoveFinalizer: the Update of the last finalizer of a marked
\* object removes it.
RemoveFinalizer ==
    /\ pc = "removeFinalizer"
    /\ \/ /\ funcObj.rv = api[key].rv
          /\ Store(key, Gone(api[key].rv + 1))
          /\ Answered("done")
       \/ /\ funcObj.rv # api[key].rv
          /\ EndItem(FALSE)
          /\ UNCHANGED <<api, watch, faults>>
    /\ UNCHANGED <<res, up, cache, mutated, unsynced, ops, crashes>>

\* A call fails before it has any effect, and the item with it.
CallFails ==
    /\ pc \in ({"addFinalizer"} \cup EnsureSteps \cup DeleteSteps) \ {"image"}
    /\ SpendFault
    /\ EndItem(FALSE)
    /\ UNCHANGED <<api, res, up, informerVars, ops, crashes>>

-----------------------------------------------------------------------------
(* The process.                                                            *)

\* NewFunctionController and Run: a new queue and a new, empty store that
\* the first list fills.
Start ==
    /\ ~up
    /\ up' = TRUE
    /\ watch' = [n \in Names |-> IF api[n].live THEN {api[n]} ELSE {}]
    /\ unsynced' = {n \in Names : api[n].live}
    /\ UNCHANGED <<api, res, cache, mutated, queueVars, workerVars, envVars>>

Crash ==
    /\ up
    /\ crashes < MaxCrashes
    /\ crashes' = crashes + 1
    /\ up' = FALSE
    /\ cache' = [n \in Names |-> Gone(0)]
    /\ mutated' = [n \in Names |-> FALSE]
    /\ watch' = [n \in Names |-> {}]
    /\ unsynced' = {}
    /\ queue' = <<>>
    /\ dirty' = {}
    /\ waiting' = {}
    /\ requeues' = [n \in Names |-> 0]
    /\ gaveUp' = [n \in Names |-> FALSE]
    /\ pc' = "idle"
    /\ key' = NoKey
    /\ funcObj' = Gone(0)
    /\ attached' = FALSE
    /\ UNCHANGED <<api, res, ops, faults>>

Worker ==
    \/ GetItem
    \/ LookUp
    \/ AddFinalizer
    \/ EnsureFuncConfigMap
    \/ EnsureFuncService
    \/ startImageBuildJob
    \/ EnsureFuncDeployment
    \/ CreateServiceMonitor
    \/ EnsureAutoscaler
    \/ deleteAutoscale
    \/ deleteK8sResources
    \/ RemoveFinalizer
    \/ CallFails

Environment ==
    \/ \E n \in Names, s \in Specs : CreateFunction(n, s)
    \/ \E n \in Names, s \in Specs : UpdateFunction(n, s)
    \/ \E n \in Names : DeleteFunction(n)
    \/ \E n \in Names, k \in Kinds : CreateForeign(n, k)

Next ==
    \/ Environment
    \/ \E n \in Names : Deliver(n)
    \/ \E n \in Names : Relist(n)
    \/ \E n \in Names : DelayExpires(n)
    \/ Worker
    \/ Start
    \/ Crash

Spec == Init /\ [][Next]_vars

\* The process manager restarts the controller, the informer's goroutine,
\* the delaying queue's timer and the worker's loop all keep running.
Fairness ==
    /\ WF_vars(Start)
    /\ WF_vars(Worker)
    /\ \A n \in Names : WF_vars(Deliver(n)) /\ WF_vars(DelayExpires(n))

FairSpec == Spec /\ Fairness

-----------------------------------------------------------------------------
(* Properties.                                                             *)

\* Whatever kubeless made for a Function belongs to the Function stored now
\* under that name, and that Function carries the finalizer: nothing made by
\* ensureK8sResources outlives its Function, whatever crashes, stale reads
\* and lost answers come between processItem's steps.
NoOrphans ==
    \A n \in Names, k \in Kinds :
        Owned(res[n][k]) =>
            /\ api[n].live
            /\ api[n].fin
            /\ api[n].uid = res[n][k].uid

\* Nothing in the controller is about to act on n.
Settled(n) ==
    /\ up
    /\ key # n
    /\ n \notin dirty \cup waiting
    /\ watch[n] = {}

\* An object made for n reflects the current value of a spec field.
Follows(n, k, field) ==
    /\ Owned(res[n][k])
    /\ res[n][k].spec[field] = api[n].spec[field]

\* Once the controller has settled on a function and did not give up on it,
\* its ConfigMap, Service, Deployment and autoscaler follow the current spec
\* and no deletion is pending: no event dropped by functionObjChanged, lost
\* between Get and Done, or overtaken by a stale read leaves an old version
\* deployed.
Converged ==
    \A n \in Names :
        Settled(n) /\ ~gaveUp[n] /\ api[n].live =>
            /\ ~api[n].del
            /\ \A k \in Workload : Follows(n, k, "code")
            /\ IF api[n].spec.hpa = NoHPA
                   THEN ~Owned(res[n]["autoscaler"]) /\ ~Owned(res[n]["monitor"])
                   ELSE Follows(n, "autoscaler", "hpa")

\* The Update calls that add and remove the finalizer send back the cached
\* object.  One that ensureK8sResources has written into is never accepted
\* by the API server: the merged deployment never gets into the user's
\* Function.
NoWriteBack ==
    /\ pc \in {"addFinalizer", "removeFinalizer"}
    /\ attached
    /\ funcObj.rv = api[key].rv
    => ~mutated[key]

\* A key that is in the queue is there once, and the queue holds exactly the
\* dirty keys the worker is not processing: no key is processed twice at the
\* same time and none is forgotten.
QueueHoldsDirty ==
    /\ \A i, j \in DOMAIN queue : queue[i] = queue[j] => i = j
    /\ {queue[i] : i \in DOMAIN queue} = dirty \ {key}

\* No step takes away the ConfigMap, Service or Deployment kubeless made for
\* a function that is not marked for deletion, and none hands it over to
\* another Function: deleteK8sResources works by name, on a cached object
\* that may be stale.
WorkloadKept ==
    [][\A n \in Names, k \in Workload :
           Owned(res[n][k]) /\ ~api[n].del =>
               /\ Owned(res'[n][k])
               /\ res'[n][k].uid = res[n][k].uid]_vars

\* The stored Function and the children, as the lifecycle sees them.
PhaseOf(obj) ==
    CASE ~obj.live -> "absent"
      [] obj.live /\ obj.del -> "terminating"
      [] obj.live /\ ~obj.del /\ obj.fin -> "protected"
      [] OTHER -> "fresh"

lifecyclePhase == [n \in Names |-> PhaseOf(api[n])]

lifecycleOwned == [n \in Names |-> {k \in Kinds : Owned(res[n][k])}]

Lifecycle ==
    INSTANCE FunctionLifecycle WITH phase <- lifecyclePhase,
                                    owned <- lifecycleOwned

\* Behind its cache, queue, retries and crashes the controller does to each
\* function only what the lifecycle allows: it provisions only what is
\* protected, and a protected Function leaves only when nothing made for it
\* is left.
RefinesLifecycle == Lifecycle!Spec

\* With finitely many operations, faults and crashes the controller comes to
\* rest: its own finalizer Update and its writes into the informer's objects
\* (function_controller.go:361), which make the next revision look changed, do
\* not keep waking it up, and a function whose every pass fails on the service
\* monitor of the first one (kubelessutil.go:833) is not retried for ever.
ComesToRest == <>[](\A n \in Names : Settled(n))

\* A function marked for deletion goes, unless the controller gives up on it.
DeletionCompletes ==
    \A n \in Names :
        (api[n].live /\ api[n].del) ~> (~api[n].live \/ gaveUp[n])

-----------------------------------------------------------------------------
(* The inductive invariant behind NoOrphans, WorkloadKept and the          *)
(* refinement.                                                             *)

\* What the informer has stored or has yet to receive of n.
Known(n) == watch[n] \cup {cache[n]}

\* The store, the revisions on their way and the API server are in order, and
\* a revision as new as the API server's is the API server's.
RevisionsOrdered ==
    \A n \in Names :
        /\ api[n].live => api[n].rv > 0
        /\ cache[n].rv <= api[n].rv
        /\ \A obj \in watch[n] : cache[n].rv < obj.rv /\ obj.rv <= api[n].rv
        /\ \A obj \in Known(n) : obj.live /\ obj.rv = api[n].rv => obj = api[n]

\* A stopped controller knows nothing.
DownIsEmpty ==
    ~up => pc = "idle" /\ \A n \in Names : cache[n] = Gone(0) /\ watch[n] = {}

\* A known revision that has the finalizer and no mark speaks of the Function
\* that is still stored, and still protected.
ProtectionLasts ==
    \A n \in Names : \A obj \in Known(n) :
        obj.live /\ obj.fin /\ ~obj.del =>
            api[n].live /\ api[n].fin /\ api[n].uid = obj.uid

\* After a known revision with the mark, no protected unmarked Function has
\* appeared under the name.
MarkLasts ==
    \A n \in Names : \A obj \in Known(n) :
        obj.live /\ obj.del => ~(api[n].live /\ api[n].fin /\ ~api[n].del)

\* The object the worker reads is older than the store, or in it.
SnapshotOld ==
    pc \in {"addFinalizer"} \cup EnsureSteps \cup DeleteSteps =>
        /\ funcObj.live
        /\ funcObj.rv <= cache[key].rv
        /\ funcObj.rv = api[key].rv => funcObj = api[key]
        /\ funcObj.del <=> pc \in DeleteSteps

\* The worker makes objects only for a protected Function.
EnsuringProtected ==
    pc \in EnsureSteps =>
        api[key].live /\ api[key].fin /\ api[key].uid = funcObj.uid

\* While the worker deletes, the name is not a protected, unmarked Function,
\* and what it has deleted stays deleted.
DeletingMarked ==
    pc \in DeleteSteps =>
        /\ ~(api[key].live /\ api[key].fin /\ ~api[key].del)
        /\ \A k \in Kinds : Owned(res[key][k]) => k \in
               CASE pc = "delDeployment" -> Kinds
                 [] pc = "delService" -> Kinds \ {"deployment"}
                 [] pc = "delConfigmap" -> Kinds \ {"deployment", "service"}
                 [] pc = "delMonitor" -> Kinds \ Workload
                 [] pc = "delAutoscaler" -> {"autoscaler", "job"}
                 [] pc = "delJobs" -> {"job"}
                 [] OTHER -> {}

\* A Function is marked only while it carries the finalizer.
MarkedProtected == \A n \in Names : api[n].del => api[n].live /\ api[n].fin

\* All of it: what makes deletion by name, on a stale object, by a worker that
\* may crash between any two calls, safe.
OwnershipInv ==
    /\ RevisionsOrdered
    /\ DownIsEmpty
    /\ ProtectionLasts
    /\ MarkLasts
    /\ SnapshotOld
    /\ EnsuringProtected
    /\ DeletingMarked
    /\ MarkedProtected
    /\ NoOrphans

-----------------------------------------------------------------------------
(* What the documentation says and the code does not do.                   *)

\* "continuously watches changes to function objects and reacts
\* accordingly" (docs/architecture.md): a new runtime is deployed too.
RuntimeFollowed ==
    \A n \in Names :
        Settled(n) /\ ~gaveUp[n] /\ api[n].live =>
            Follows(n, "deployment", "runtime")

\* "deleteK8sResources removes k8s objects of the function"
\* (function_controller.go): of the function, and of nobody else.
ForeignKept ==
    [][\A n \in Names, k \in ForeignKinds :
           res[n][k] = Foreign => res'[n][k] = Foreign]_vars
=============================================================================
