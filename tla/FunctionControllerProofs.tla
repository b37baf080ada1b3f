---------------------- MODULE FunctionControllerProofs ----------------------
(***************************************************************************)
(* Proofs about FunctionController for every set of names, every set of    *)
(* specs and every bound.                                                  *)
(***************************************************************************)
EXTENDS FunctionController, SequenceTheorems, TLAPS

-----------------------------------------------------------------------------
(* Type correctness.                                                       *)

\* The part of TypeOK that the end of an item and the answer of an API call
\* are about.
QueueAndWorkerType ==
    /\ queue \in Seq(Names)
    /\ dirty \subseteq Names
    /\ waiting \subseteq Names
    /\ requeues \in [Names -> 0..MaxRetries]
    /\ gaveUp \in [Names -> BOOLEAN]
    /\ pc \in Steps
    /\ key \in Names \cup {NoKey}
    /\ (pc = "idle") <=> (key = NoKey)
    /\ funcObj \in Objs
    /\ attached \in BOOLEAN

\* There is a spec, so the placeholder is one.
LEMMA NoSpecType == NoSpec \in Specs
  <1>1. PICK c \in Codes, r \in Runtimes, t \in SvcTypes : TRUE
    BY ControllerAssumption
  <1>2. [code |-> c, runtime |-> r, svcType |-> t, hpa |-> NoHPA] \in Specs
    BY <1>1 DEF Specs, HPAs
  <1>3. QED
    BY <1>2 DEF NoSpec

\* A removed object is an object.
LEMMA GoneType == ASSUME NEW rv \in Nat PROVE Gone(rv) \in Objs
  BY NoSpecType DEF Gone, Objs

\* The revisions that users and the worker derive from an object.
LEMMA RevisionType ==
    ASSUME NEW obj \in Objs
    PROVE  /\ \A s \in Specs : [obj EXCEPT !.rv = @ + 1, !.spec = s] \in Objs
           /\ [obj EXCEPT !.rv = @ + 1, !.del = TRUE] \in Objs
           /\ [obj EXCEPT !.rv = @ + 1, !.fin = TRUE] \in Objs
           /\ Gone(obj.rv + 1) \in Objs
  <1>1. obj.rv + 1 \in Nat
    BY DEF Objs
  <1>2. [obj EXCEPT !.rv = @ + 1] \in Objs
    BY <1>1 DEF Objs
  <1>3. QED
    BY <1>1, <1>2, GoneType DEF Objs

\* EndItem leaves a well-typed queue and an idle worker.
LEMMA EndItemType ==
    ASSUME TypeOK, pc # "idle", NEW ok \in BOOLEAN, EndItem(ok)
    PROVE  QueueAndWorkerType' /\ pc' = "idle"
  <1>1. key \in Names
    BY DEF TypeOK
  <1>2. queue' \in Seq(Names)
    BY <1>1 DEF TypeOK, EndItem
  <1>3. /\ dirty' \subseteq Names
        /\ waiting' \subseteq Names
    BY <1>1 DEF TypeOK, EndItem
  <1>4. requeues' \in [Names -> 0..MaxRetries]
    BY <1>1, ControllerAssumption DEF TypeOK, EndItem
  <1>5. gaveUp' \in [Names -> BOOLEAN]
    BY <1>1 DEF TypeOK, EndItem
  <1>6. /\ pc' = "idle"
        /\ key' = NoKey
        /\ funcObj' \in Objs
        /\ attached' \in BOOLEAN
    BY GoneType DEF EndItem
  <1>7. QED
    BY <1>2, <1>3, <1>4, <1>5, <1>6 DEF QueueAndWorkerType, Steps

\* Goto leaves them well typed too.
LEMMA GotoType ==
    ASSUME TypeOK, pc # "idle", NEW step \in Steps \ {"idle"}, Goto(step)
    PROVE  QueueAndWorkerType' /\ pc' = step /\ funcObj' = funcObj
                               /\ key' = key
  BY DEF TypeOK, Goto, QueueAndWorkerType, queueVars

\* The two ways an API call ends.
LEMMA AnsweredType ==
    ASSUME TypeOK, pc # "idle", NEW step \in (Steps \ {"idle"}) \cup {"done"},
           Answered(step)
    PROVE  /\ QueueAndWorkerType'
           /\ faults' \in 0..MaxFaults
           /\ \/ pc' = "idle"
              \/ pc' = step /\ step # "done" /\ funcObj' = funcObj /\ key' = key
  <1>1. CASE EndItem(TRUE) /\ UNCHANGED faults
    BY <1>1, EndItemType DEF TypeOK
  <1>2. CASE step # "done" /\ Goto(step) /\ UNCHANGED faults
    BY <1>2, GotoType DEF TypeOK
  <1>3. CASE SpendFault /\ EndItem(FALSE)
    <2>1. faults' \in 0..MaxFaults
      BY <1>3, ControllerAssumption DEF SpendFault, TypeOK
    <2>2. QED
      BY <1>3, <2>1, EndItemType
  <1>4. QED
    BY <1>1, <1>2, <1>3 DEF Answered

\* A stored revision reaches the API server and the informer's stream only.
LEMMA StoreType ==
    ASSUME TypeOK, NEW n \in Names, NEW obj \in Objs, Store(n, obj)
    PROVE  /\ api' \in [Names -> Objs]
           /\ watch' \in [Names -> SUBSET Objs]
  BY DEF TypeOK, Store

\* The children that the controller did not make are children.
LEMMA AbsentType == Absent \in Children /\ Foreign \in Children
  BY NoSpecType DEF Absent, Foreign, Children

\* What ensureK8sResources makes for the object it read is a child.
LEMMA MadeType ==
    ASSUME TypeOK, NEW spec \in Specs
    PROVE  Made(spec) \in Children
  BY DEF TypeOK, Made, Children, Objs

\* workqueue.Add keeps the queue a sequence of names.
LEMMA AddType ==
    ASSUME TypeOK, NEW n \in Names, Add(n)
    PROVE  queue' \in Seq(Names) /\ dirty' \subseteq Names
  BY DEF TypeOK, Add

\* A new object in the store leaves store and queue well typed.
LEMMA ReplaceType ==
    ASSUME TypeOK, NEW n \in Names, NEW obj \in Objs, Replace(n, obj)
    PROVE  /\ cache' \in [Names -> Objs]
           /\ mutated' \in [Names -> BOOLEAN]
           /\ attached' \in BOOLEAN
           /\ queue' \in Seq(Names)
           /\ dirty' \subseteq Names
  <1>1. queue' \in Seq(Names) /\ dirty' \subseteq Names
    <2>1. CASE Add(n)
      BY <2>1, AddType
    <2>2. CASE UNCHANGED <<queue, dirty>>
      BY <2>2 DEF TypeOK
    <2>3. QED
      BY <2>1, <2>2 DEF Replace
  <1>2. QED
    BY <1>1 DEF Replace, TypeOK

\* The steps of users and other tools.
LEMMA EnvironmentType == TypeOK /\ Environment => TypeOK'
  <1> SUFFICES ASSUME TypeOK, Environment PROVE TypeOK'
    OBVIOUS
  <1>1. ops' \in 0..MaxOps
    <2>1. SpendOp
      BY Zenon DEF Environment, CreateFunction, UpdateFunction,
                   DeleteFunction, CreateForeign
    <2>2. QED
      BY <2>1, ControllerAssumption DEF TypeOK, SpendOp
  <1>2. ASSUME NEW n \in Names, NEW s \in Specs, CreateFunction(n, s)
        PROVE  TypeOK'
    <2>1. api[n].rv \in Nat
      BY DEF TypeOK, Objs
    <2>2. [live |-> TRUE, uid |-> api[n].rv + 1, rv |-> api[n].rv + 1,
           fin |-> FALSE, del |-> FALSE, spec |-> s] \in Objs
      BY <2>1 DEF Objs
    <2>3. api' \in [Names -> Objs] /\ watch' \in [Names -> SUBSET Objs]
      BY <1>2, <2>2, StoreType DEF CreateFunction
    <2>4. QED
      BY <1>1, <1>2, <2>3 DEF TypeOK, CreateFunction, queueVars, workerVars
  <1>3. ASSUME NEW n \in Names, NEW s \in Specs, UpdateFunction(n, s)
        PROVE  TypeOK'
    <2>1. api[n] \in Objs
      BY DEF TypeOK
    <2>2. api' \in [Names -> Objs] /\ watch' \in [Names -> SUBSET Objs]
      BY <1>3, <2>1, RevisionType, StoreType DEF UpdateFunction
    <2>3. QED
      BY <1>1, <1>3, <2>2 DEF TypeOK, UpdateFunction, queueVars, workerVars
  <1>4. ASSUME NEW n \in Names, DeleteFunction(n)
        PROVE  TypeOK'
    <2>1. api[n] \in Objs
      BY DEF TypeOK
    <2>2. api' \in [Names -> Objs] /\ watch' \in [Names -> SUBSET Objs]
      BY <1>4, <2>1, RevisionType, StoreType DEF DeleteFunction
    <2>3. QED
      BY <1>1, <1>4, <2>2 DEF TypeOK, DeleteFunction, queueVars, workerVars
  <1>5. ASSUME NEW n \in Names, NEW k \in Kinds, CreateForeign(n, k)
        PROVE  TypeOK'
    BY <1>1, <1>5, AbsentType
       DEF TypeOK, CreateForeign, informerVars, queueVars, workerVars
  <1>6. QED
    BY <1>2, <1>3, <1>4, <1>5 DEF Environment

\* The informer and the queue's timer.
LEMMA InformerType ==
    ASSUME TypeOK, NEW n \in Names, Deliver(n) \/ Relist(n) \/ DelayExpires(n)
    PROVE  TypeOK'
  <1>1. CASE Deliver(n)
    <2>1. PICK obj \in watch[n] :
              /\ Replace(n, obj)
              /\ watch' = [watch EXCEPT ![n] = {o \in @ : o.rv > obj.rv}]
      BY <1>1 DEF Deliver
    <2>2. obj \in Objs
      BY <2>1 DEF TypeOK
    <2>3. watch' \in [Names -> SUBSET Objs]
      BY <2>1 DEF TypeOK
    <2>4. QED
      BY <1>1, <2>1, <2>2, <2>3, ReplaceType DEF TypeOK, Deliver, envVars
  <1>2. CASE Relist(n)
    <2>1. cache[n] \in Objs
      BY DEF TypeOK
    <2>2. faults' \in 0..MaxFaults
      BY <1>2, ControllerAssumption DEF Relist, SpendFault, TypeOK
    <2>3. Replace(n, cache[n])
      BY <1>2 DEF Relist
    <2>4. QED
      BY <1>2, <2>1, <2>2, <2>3, ReplaceType DEF TypeOK, Relist
  <1>3. CASE DelayExpires(n)
    BY <1>3, AddType
       DEF TypeOK, DelayExpires, informerVars, workerVars, envVars
  <1>4. QED
    BY <1>1, <1>2, <1>3

\* processItem branches to one of four places after its look-up.
LEMMA FirstStepType ==
    ASSUME NEW obj \in Objs
    PROVE  FirstStep(obj) \in {"done", "delDeployment", "addFinalizer",
                               "configmap"}
  BY DEF FirstStep, Objs

\* The steps that read the store and write the finalizer.
LEMMA FinalizerStepType ==
    ASSUME TypeOK, GetItem \/ LookUp \/ AddFinalizer \/ RemoveFinalizer
    PROVE  TypeOK'
  <1>1. CASE GetItem
    <2>1. Head(queue) \in Names /\ Tail(queue) \in Seq(Names)
      BY <1>1 DEF GetItem, TypeOK
    <2>2. key' \in Names \cup {NoKey} /\ pc' \in Steps
      BY <1>1, <2>1 DEF GetItem, Steps
    <2>3. (pc' = "idle") <=> (key' = NoKey)
      BY <1>1, <2>1, ControllerAssumption DEF GetItem
    <2>4. QED
      BY <1>1, <2>1, <2>2, <2>3 DEF TypeOK, GetItem, informerVars, envVars
  <1>2. CASE LookUp
    <2>1. key \in Names /\ pc # "idle" /\ cache[key] \in Objs
      BY <1>2 DEF LookUp, TypeOK
    <2>2. CASE EndItem(TRUE) /\ UNCHANGED mutated
      BY <1>2, <2>1, <2>2, EndItemType
         DEF TypeOK, QueueAndWorkerType, LookUp, envVars
    <2>3. CASE /\ pc' = FirstStep(cache[key])
               /\ FirstStep(cache[key]) # "done"
               /\ funcObj' = cache[key]
               /\ attached' = TRUE
               /\ mutated' = [mutated EXCEPT
                        ![key] = @ \/ MergesBefore(FirstStep(cache[key]))]
               /\ UNCHANGED <<key, queueVars>>
      <3>1. pc' \in Steps \ {"idle"}
        BY <2>1, <2>3, FirstStepType DEF Steps, EnsureSteps, DeleteSteps
      <3>2. mutated' \in [Names -> BOOLEAN]
        BY <2>3, <2>1 DEF TypeOK
      <3>3. QED
        BY <1>2, <2>1, <2>3, <3>1, <3>2 DEF TypeOK, LookUp, queueVars, envVars
    <2>4. QED
      BY <1>2, <2>2, <2>3 DEF LookUp
  <1>3. CASE AddFinalizer
    <2>1. key \in Names /\ pc # "idle" /\ api[key] \in Objs
      BY <1>3 DEF AddFinalizer, TypeOK
    <2>2. mutated' \in [Names -> BOOLEAN]
      BY <1>3, <2>1 DEF AddFinalizer, MutateCached, TypeOK
    <2>3. api' \in [Names -> Objs] /\ watch' \in [Names -> SUBSET Objs]
      <3>1. CASE Store(key, [api[key] EXCEPT !.rv = @ + 1, !.fin = TRUE])
        BY <2>1, <3>1, RevisionType, StoreType
      <3>2. CASE UNCHANGED <<api, watch>>
        BY <3>2 DEF TypeOK
      <3>3. QED
        BY <1>3, <3>1, <3>2 DEF AddFinalizer
    <2>4. QueueAndWorkerType' /\ faults' \in 0..MaxFaults
      <3>1. CASE Goto("configmap") /\ UNCHANGED faults
        BY <2>1, <3>1, GotoType DEF Steps, EnsureSteps, TypeOK
      <3>2. CASE EndItem(FALSE) /\ (SpendFault \/ UNCHANGED faults)
        <4>1. faults' \in 0..MaxFaults
          BY <3>2, ControllerAssumption DEF SpendFault, TypeOK
        <4>2. QED
          BY <2>1, <3>2, <4>1, EndItemType
      <3>3. QED
        BY <1>3, <3>1, <3>2 DEF AddFinalizer
    <2>5. QED
      BY <1>3, <2>2, <2>3, <2>4 DEF TypeOK, QueueAndWorkerType, AddFinalizer
  <1>4. CASE RemoveFinalizer
    <2>1. key \in Names /\ pc # "idle" /\ api[key] \in Objs
      BY <1>4 DEF RemoveFinalizer, TypeOK
    <2>2. api' \in [Names -> Objs] /\ watch' \in [Names -> SUBSET Objs]
      <3>1. CASE Store(key, Gone(api[key].rv + 1))
        BY <2>1, <3>1, RevisionType, StoreType
      <3>2. CASE UNCHANGED <<api, watch>>
        BY <3>2 DEF TypeOK
      <3>3. QED
        BY <1>4, <3>1, <3>2 DEF RemoveFinalizer
    <2>3. QueueAndWorkerType' /\ faults' \in 0..MaxFaults
      <3>1. CASE Answered("done")
        BY <2>1, <3>1, AnsweredType
      <3>2. CASE EndItem(FALSE) /\ UNCHANGED faults
        BY <2>1, <3>2, EndItemType DEF TypeOK
      <3>3. QED
        BY <1>4, <3>1, <3>2 DEF RemoveFinalizer
    <2>4. QED
      BY <1>4, <2>2, <2>3 DEF TypeOK, QueueAndWorkerType, RemoveFinalizer
  <1>5. QED
    BY <1>1, <1>2, <1>3, <1>4

(***************************************************************************)
(* What the steps that work on children have in common.                    *)
(***************************************************************************)

ChildFrame ==
    /\ UNCHANGED <<api, up, cache, watch, unsynced, ops, crashes>>
    /\ mutated' \in [Names -> BOOLEAN]
    /\ QueueAndWorkerType'
    /\ faults' \in 0..MaxFaults

GoesTo(S) ==
    \/ pc' = "idle"
    \/ pc' \in S /\ funcObj' = funcObj /\ key' = key

\* A step within ChildFrame keeps the types if it keeps those of the children.
LEMMA ChildFrameType ==
    ASSUME TypeOK, ChildFrame, res' \in [Names -> [Kinds -> Children]]
    PROVE  TypeOK'
  BY DEF TypeOK, ChildFrame, QueueAndWorkerType

\* The actions of ensureK8sResources.
EnsureAction ==
    \/ EnsureFuncConfigMap
    \/ EnsureFuncService
    \/ startImageBuildJob
    \/ EnsureFuncDeployment
    \/ CreateServiceMonitor
    \/ EnsureAutoscaler

\* A step makes one child for the object the worker read.
MakesOne ==
    \E k \in Kinds, s \in Specs : res' = [res EXCEPT ![key][k] = Made(s)]

\* A refused item is an ended item.
LEMMA RefuseShape ==
    ASSUME TypeOK, pc # "idle", Refuse
    PROVE  /\ QueueAndWorkerType'
           /\ faults' \in 0..MaxFaults
           /\ pc' = "idle"
           /\ res' = res
  BY EndItemType DEF Refuse, TypeOK

\* A step of ensureK8sResources makes at most one child, for the object the
\* worker read, and stays within ensureK8sResources.
LEMMA EnsureShape ==
    ASSUME TypeOK, EnsureAction
    PROVE  /\ ChildFrame
           /\ pc \in EnsureSteps
           /\ GoesTo(EnsureSteps)
           /\ res' = res \/ MakesOne
  <1>1. CASE EnsureFuncConfigMap
    <2>1. pc = "configmap" /\ pc # "idle" /\ UNCHANGED <<api, up, informerVars, ops, crashes>>
      BY <1>1 DEF EnsureFuncConfigMap
    <2>2. CASE Refuse
      BY <2>1, <2>2, RefuseShape
         DEF ChildFrame, GoesTo, EnsureSteps, informerVars, TypeOK
    <2>3. CASE Put("configmap", Made(funcObj.spec)) /\ Answered("service")
      <3>1. MakesOne
        BY <2>3 DEF MakesOne, Put, Kinds, Workload, TypeOK, Objs
      <3>2. QED
        BY <2>1, <2>3, <3>1, AnsweredType
           DEF ChildFrame, GoesTo, EnsureSteps, Steps, informerVars, TypeOK
    <2>4. QED
      BY <1>1, <2>2, <2>3 DEF EnsureFuncConfigMap
  <1>2. CASE EnsureFuncService
    <2>1. pc = "service" /\ pc # "idle" /\ UNCHANGED <<api, up, informerVars, ops, crashes>>
      BY <1>2 DEF EnsureFuncService
    <2>2. CASE Refuse
      BY <2>1, <2>2, RefuseShape
         DEF ChildFrame, GoesTo, EnsureSteps, informerVars, TypeOK
    <2>3. CASE /\ Put("service", Made(ServiceSpec(res[key]["service"])))
               /\ Answered(IF EnableBuild THEN "image" ELSE "deployment")
      <3>1. res[key]["service"] \in Children /\ funcObj.spec \in Specs
        BY <2>1 DEF TypeOK, Kinds, Workload, Objs
      <3>2. ServiceSpec(res[key]["service"]) \in Specs
        BY <3>1 DEF ServiceSpec, Children, Specs
      <3>3. MakesOne
        BY <2>3, <3>2 DEF MakesOne, Put, Kinds, Workload
      <3>4. QED
        BY <2>1, <2>3, <3>3, AnsweredType
           DEF ChildFrame, GoesTo, EnsureSteps, Steps, informerVars, TypeOK
    <2>4. QED
      BY <1>2, <2>2, <2>3 DEF EnsureFuncService
  <1>3. CASE startImageBuildJob
    <2>1. /\ pc = "image" /\ pc # "idle" /\ Goto("deployment")
          /\ UNCHANGED <<api, up, informerVars, envVars>>
      BY <1>3 DEF startImageBuildJob
    <2>2. res' = res \/ MakesOne
      BY <1>3 DEF startImageBuildJob, EnsureFuncImage, MakesOne, Put, Kinds,
                  TypeOK, Objs
    <2>3. QED
      BY <2>1, <2>2, GotoType
         DEF ChildFrame, GoesTo, EnsureSteps, Steps, informerVars, envVars,
             TypeOK
  <1>4. CASE EnsureFuncDeployment
    <2>1. pc = "deployment" /\ pc # "idle" /\ UNCHANGED <<api, up, cache, watch, unsynced, ops, crashes>>
      BY <1>4 DEF EnsureFuncDeployment
    <2>2. key \in Names
      BY <2>1 DEF TypeOK
    <2>3. CASE Refuse /\ UNCHANGED mutated
      BY <2>1, <2>3, RefuseShape DEF ChildFrame, GoesTo, EnsureSteps, TypeOK
    <2>4. CASE /\ Put("deployment", Made(funcObj.spec))
               /\ Goto(CASE funcObj.spec.hpa \in ObjectHPAs -> "monitor"
                         [] funcObj.spec.hpa \in PlainHPAs -> "autoscaler"
                         [] OTHER -> "dropMonitor")
               /\ MutateCached(funcObj.spec.hpa # NoHPA)
               /\ UNCHANGED faults
      <3> DEFINE next == CASE funcObj.spec.hpa \in ObjectHPAs -> "monitor"
                           [] funcObj.spec.hpa \in PlainHPAs -> "autoscaler"
                           [] OTHER -> "dropMonitor"
      <3>1. next \in {"monitor", "autoscaler", "dropMonitor"}
        OBVIOUS
      <3>2. MakesOne
        BY <2>4 DEF MakesOne, Put, Kinds, Workload, TypeOK, Objs
      <3>3. mutated' \in [Names -> BOOLEAN]
        BY <2>2, <2>4 DEF MutateCached, TypeOK
      <3>4. Goto(next) /\ next \in EnsureSteps /\ next \in Steps \ {"idle"}
        BY <2>4, <3>1 DEF EnsureSteps, Steps
      <3> HIDE DEF next
      <3>5. QueueAndWorkerType' /\ pc' = next /\ funcObj' = funcObj /\ key' = key
        BY <2>1, <3>4, GotoType
      <3>6. QED
        BY <2>1, <2>4, <3>2, <3>3, <3>4, <3>5
           DEF ChildFrame, GoesTo, EnsureSteps, TypeOK
    <2>5. CASE /\ Put("deployment", Made(funcObj.spec))
               /\ SpendFault
               /\ EndItem(FALSE)
               /\ UNCHANGED mutated
      <3>1. MakesOne
        BY <2>5 DEF MakesOne, Put, Kinds, Workload, TypeOK, Objs
      <3>2. faults' \in 0..MaxFaults
        BY <2>5, ControllerAssumption DEF SpendFault, TypeOK
      <3>3. QED
        BY <2>1, <2>5, <3>1, <3>2, EndItemType
           DEF ChildFrame, GoesTo, EnsureSteps, TypeOK
    <2>6. QED
      BY <1>4, <2>3, <2>4, <2>5 DEF EnsureFuncDeployment
  <1>5. CASE CreateServiceMonitor
    <2>1. pc = "monitor" /\ pc # "idle" /\ UNCHANGED <<api, up, informerVars, ops, crashes>>
      BY <1>5 DEF CreateServiceMonitor
    <2>2. CASE Refuse
      BY <2>1, <2>2, RefuseShape
         DEF ChildFrame, GoesTo, EnsureSteps, informerVars, TypeOK
    <2>3. CASE Put("monitor", Made(funcObj.spec)) /\ Answered("autoscaler")
      <3>1. MakesOne
        BY <2>3 DEF MakesOne, Put, Kinds, TypeOK, Objs
      <3>2. QED
        BY <2>1, <2>3, <3>1, AnsweredType
           DEF ChildFrame, GoesTo, EnsureSteps, Steps, informerVars, TypeOK
    <2>4. CASE SpendFault /\ Goto("autoscaler") /\ UNCHANGED res
      <3>1. faults' \in 0..MaxFaults
        BY <2>4, ControllerAssumption DEF SpendFault, TypeOK
      <3>2. QED
        BY <2>1, <2>4, <3>1, GotoType
           DEF ChildFrame, GoesTo, EnsureSteps, Steps, informerVars, TypeOK
    <2>5. QED
      BY <1>5, <2>2, <2>3, <2>4 DEF CreateServiceMonitor
  <1>6. CASE EnsureAutoscaler
    <2>1. /\ pc = "autoscaler" /\ pc # "idle"
          /\ UNCHANGED <<api, up, informerVars, ops, crashes>>
          /\ Put("autoscaler", Made(funcObj.spec)) /\ Answered("done")
      BY <1>6 DEF EnsureAutoscaler
    <2>2. MakesOne
      BY <2>1 DEF MakesOne, Put, Kinds, TypeOK, Objs
    <2>3. QED
      BY <2>1, <2>2, AnsweredType
         DEF ChildFrame, GoesTo, EnsureSteps, informerVars, TypeOK
  <1>7. QED
    BY <1>1, <1>2, <1>3, <1>4, <1>5, <1>6 DEF EnsureAction

\* A Delete call removes one child and goes on to the next.
LEMMA DeleteStepShape ==
    ASSUME TypeOK, NEW step \in Steps \ {"idle"}, NEW k \in Kinds,
           NEW next \in (Steps \ {"idle"}) \cup {"done"},
           DeleteStep(step, k, next)
    PROVE  /\ ChildFrame
           /\ pc = step
           /\ res' = [res EXCEPT ![key][k] = Absent]
           /\ \/ pc' = "idle"
              \/ pc' = next /\ next # "done" /\ funcObj' = funcObj /\ key' = key
  BY AnsweredType DEF DeleteStep, Put, ChildFrame, informerVars, TypeOK

\* A call that fails has no effect but the end of the item.
LEMMA CallFailsShape ==
    ASSUME TypeOK, CallFails
    PROVE  /\ ChildFrame
           /\ pc' = "idle"
           /\ res' = res
  <1>1. pc # "idle"
    BY DEF CallFails, EnsureSteps, DeleteSteps
  <1>2. faults' \in 0..MaxFaults
    BY ControllerAssumption DEF CallFails, SpendFault, TypeOK
  <1>3. QED
    BY <1>1, <1>2, EndItemType DEF CallFails, ChildFrame, informerVars, TypeOK

\* One child made or removed leaves the children well typed.
LEMMA PutsType ==
    ASSUME TypeOK, pc # "idle",
           \/ res' = res
           \/ MakesOne
           \/ \E k \in Kinds : res' = [res EXCEPT ![key][k] = Absent]
    PROVE  res' \in [Names -> [Kinds -> Children]]
  <1>1. key \in Names
    BY DEF TypeOK
  <1>2. CASE MakesOne
    BY <1>1, <1>2, MadeType DEF MakesOne, TypeOK
  <1>3. CASE \E k \in Kinds : res' = [res EXCEPT ![key][k] = Absent]
    BY <1>1, <1>3, AbsentType DEF TypeOK
  <1>4. QED
    BY <1>2, <1>3 DEF TypeOK

\* The shape of the steps of deleteAutoscale and deleteK8sResources.
LEMMA DeletesShape ==
    ASSUME TypeOK, deleteAutoscale \/ deleteK8sResources
    PROVE  /\ ChildFrame
           /\ pc # "idle"
           /\ \E k \in Kinds : res' = [res EXCEPT ![key][k] = Absent]
  <1>1. \E step \in Steps \ {"idle"}, k \in Kinds,
           next \in (Steps \ {"idle"}) \cup {"done"} : DeleteStep(step, k, next)
    BY Zenon DEF deleteAutoscale, deleteK8sResources, Steps, EnsureSteps,
                 DeleteSteps, Kinds, Workload
  <1>2. QED
    BY <1>1, DeleteStepShape

\* Every worker step.
LEMMA WorkerType == TypeOK /\ Worker => TypeOK'
  <1> SUFFICES ASSUME TypeOK, Worker PROVE TypeOK'
    OBVIOUS
  <1>1. CASE GetItem \/ LookUp \/ AddFinalizer \/ RemoveFinalizer
    BY <1>1, FinalizerStepType
  <1>2. CASE EnsureAction
    <2>1. pc # "idle"
      BY <1>2, EnsureShape DEF EnsureSteps
    <2>2. QED
      BY <1>2, <2>1, EnsureShape, PutsType, ChildFrameType
  <1>3. CASE deleteAutoscale \/ deleteK8sResources
    BY <1>3, DeletesShape, PutsType, ChildFrameType
  <1>4. CASE CallFails
    BY <1>4, CallFailsShape, ChildFrameType DEF TypeOK
  <1>5. QED
    BY <1>1, <1>2, <1>3, <1>4 DEF Worker, EnsureAction

\* Starting and stopping.
LEMMA ProcessType == TypeOK /\ (Start \/ Crash) => TypeOK'
  <1> SUFFICES ASSUME TypeOK, Start \/ Crash PROVE TypeOK'
    OBVIOUS
  <1>1. CASE Start
    <2>1. watch' \in [Names -> SUBSET Objs]
      BY <1>1 DEF Start, TypeOK
    <2>2. QED
      BY <1>1, <2>1 DEF Start, TypeOK, queueVars, workerVars, envVars
  <1>2. CASE Crash
    <2>1. Gone(0) \in Objs
      BY GoneType
    <2>2. crashes' \in 0..MaxCrashes
      BY <1>2, ControllerAssumption DEF Crash, TypeOK
    <2>3. requeues' \in [Names -> 0..MaxRetries]
      BY <1>2, ControllerAssumption DEF Crash
    <2>4. queue' \in Seq(Names) /\ dirty' \subseteq Names /\ waiting' \subseteq Names
      BY <1>2 DEF Crash
    <2>5. cache' \in [Names -> Objs] /\ watch' \in [Names -> SUBSET Objs]
      BY <1>2, <2>1 DEF Crash
    <2>6. mutated' \in [Names -> BOOLEAN] /\ gaveUp' \in [Names -> BOOLEAN]
      BY <1>2 DEF Crash
    <2>7. funcObj' \in Objs /\ attached' \in BOOLEAN /\ up' \in BOOLEAN
      BY <1>2, <2>1 DEF Crash
    <2>8. QED
      BY <1>2, <2>2, <2>3, <2>4, <2>5, <2>6, <2>7 DEF Crash, TypeOK, Steps
  <1>3. QED
    BY <1>1, <1>2

\* The controller starts well typed.
LEMMA InitType == Init => TypeOK
  <1> SUFFICES ASSUME Init PROVE TypeOK
    OBVIOUS
  <1>1. Gone(0) \in Objs
    BY GoneType
  <1>2. /\ requeues \in [Names -> 0..MaxRetries]
        /\ ops \in 0..MaxOps
        /\ faults \in 0..MaxFaults
        /\ crashes \in 0..MaxCrashes
    BY ControllerAssumption DEF Init
  <1>3. res \in [Names -> [Kinds -> Children]]
    BY AbsentType DEF Init
  <1>4. queue \in Seq(Names) /\ dirty \subseteq Names /\ waiting \subseteq Names
    BY DEF Init
  <1>5. /\ api \in [Names -> Objs]
        /\ cache \in [Names -> Objs]
        /\ watch \in [Names -> SUBSET Objs]
    BY <1>1 DEF Init
  <1>6. mutated \in [Names -> BOOLEAN] /\ gaveUp \in [Names -> BOOLEAN]
    BY DEF Init
  <1>7. funcObj \in Objs /\ attached \in BOOLEAN /\ up \in BOOLEAN
    BY <1>1 DEF Init
  <1>8. QED
    BY <1>2, <1>3, <1>4, <1>5, <1>6, <1>7 DEF Init, TypeOK, Steps

\* Every step keeps the types.
LEMMA NextType == TypeOK /\ [Next]_vars => TypeOK'
  <1> SUFFICES ASSUME TypeOK, [Next]_vars PROVE TypeOK'
    OBVIOUS
  <1>1. CASE UNCHANGED vars
    BY <1>1 DEF TypeOK, vars, informerVars, queueVars, workerVars, envVars
  <1>2. CASE Next
    BY <1>2, EnvironmentType, InformerType, WorkerType, ProcessType DEF Next
  <1>3. QED
    BY <1>1, <1>2

\* The variables of the controller keep their types in every behaviour,
\* whatever the names, the specs and the bounds: in particular NumRequeues
\* stays within maxRetries and the worker has a key exactly when it is busy.
THEOREM TypeCorrect == Spec => []TypeOK
  BY InitType, NextType, PTL DEF Spec

-----------------------------------------------------------------------------
(* The ownership invariant.                                                *)

\* An empty cluster satisfies the ownership invariant.
LEMMA InitOwnership == Init => OwnershipInv
  <1> SUFFICES ASSUME Init PROVE OwnershipInv
    OBVIOUS
  <1>1. \A n \in Names : /\ api[n] = Gone(0)
                         /\ cache[n] = Gone(0)
                         /\ watch[n] = {}
    BY DEF Init
  <1>2. RevisionsOrdered /\ ProtectionLasts /\ MarkLasts /\ MarkedProtected
    BY <1>1 DEF RevisionsOrdered, ProtectionLasts, MarkLasts,
                MarkedProtected, Known, Gone
  <1>3. DownIsEmpty
    BY <1>1 DEF DownIsEmpty, Init
  <1>4. SnapshotOld /\ EnsuringProtected /\ DeletingMarked
    BY DEF Init, SnapshotOld, EnsuringProtected, DeletingMarked, EnsureSteps,
           DeleteSteps
  <1>5. NoOrphans
    BY DEF Init, NoOrphans, Owned, Absent
  <1>6. QED
    BY <1>2, <1>3, <1>4, <1>5 DEF OwnershipInv

\* A new revision keeps what is known in order and in agreement with the API
\* server, provided it neither takes protection away from a known Function
\* nor brings a protected one after a mark.
LEMMA StoreKnown ==
    ASSUME TypeOK, OwnershipInv, NEW n \in Names, NEW obj \in Objs,
           Store(n, obj), obj.rv = api[n].rv + 1, cache' = cache,
           \A x \in Known(n) : x.live /\ x.fin /\ ~x.del =>
                              obj.live /\ obj.fin /\ obj.uid = x.uid,
           \A x \in Known(n) : x.live /\ x.del =>
                              ~(obj.live /\ obj.fin /\ ~obj.del),
           obj.del => obj.live /\ obj.fin
    PROVE  RevisionsOrdered' /\ ProtectionLasts' /\ MarkLasts' /\ MarkedProtected'
  <1>1. /\ api[n] \in Objs
        /\ cache[n] \in Objs
        /\ \A x \in watch[n] : x \in Objs
    BY DEF TypeOK
  <1>2. /\ api' = [api EXCEPT ![n] = obj]
        /\ api'[n] = obj
        /\ \A m \in Names \ {n} : api'[m] = api[m]
    BY DEF Store, TypeOK
  <1>3. /\ watch'[n] \subseteq watch[n] \cup {obj}
        /\ \A m \in Names \ {n} : watch'[m] = watch[m]
    BY DEF Store, TypeOK
  <1>4. RevisionsOrdered'
    <2> SUFFICES ASSUME NEW m \in Names
                 PROVE  /\ api'[m].live => api'[m].rv > 0
                        /\ cache'[m].rv <= api'[m].rv
                        /\ \A x \in watch'[m] : /\ cache'[m].rv < x.rv
                                                /\ x.rv <= api'[m].rv
                        /\ \A x \in watch'[m] \cup {cache'[m]} :
                              x.live /\ x.rv = api'[m].rv => x = api'[m]
      BY DEF RevisionsOrdered, Known
    <2>1. CASE m = n
      <3>1. /\ cache[n].rv \in Nat
            /\ api[n].rv \in Nat
            /\ cache[n].rv <= api[n].rv
            /\ \A x \in watch[n] : /\ x.rv \in Nat
                                   /\ cache[n].rv < x.rv
                                   /\ x.rv <= api[n].rv
        BY <1>1 DEF OwnershipInv, RevisionsOrdered, Objs
      <3>2. QED
        BY <2>1, <3>1, <1>2, <1>3
    <2>2. CASE m # n
      BY <2>2, <1>2, <1>3 DEF OwnershipInv, RevisionsOrdered, Known
    <2>3. QED
      BY <2>1, <2>2
  <1>5. ProtectionLasts'
    BY <1>2, <1>3 DEF OwnershipInv, ProtectionLasts, Known
  <1>6. MarkLasts'
    BY <1>2, <1>3 DEF OwnershipInv, MarkLasts, Known
  <1>7. MarkedProtected'
    BY <1>2 DEF OwnershipInv, MarkedProtected
  <1>8. QED
    BY <1>4, <1>5, <1>6, <1>7

\* A user's write, which leaves the worker and the children alone, keeps the
\* invariant if it keeps protection and does not grant it.
LEMMA UserStore ==
    ASSUME TypeOK, OwnershipInv, NEW n \in Names, NEW obj \in Objs,
           Store(n, obj), obj.rv = api[n].rv + 1,
           UNCHANGED <<res, up, cache, workerVars>>,
           api[n].live /\ api[n].fin =>
               obj.live /\ obj.fin /\ obj.uid = api[n].uid,
           obj.live /\ obj.fin /\ ~obj.del =>
               api[n].live /\ api[n].fin /\ ~api[n].del,
           obj.del => obj.live /\ obj.fin
    PROVE  OwnershipInv'
  <1>1. RevisionsOrdered' /\ ProtectionLasts' /\ MarkLasts' /\ MarkedProtected'
    <2>1. \A x \in Known(n) : x.live /\ x.fin /\ ~x.del =>
                              obj.live /\ obj.fin /\ obj.uid = x.uid
      BY DEF OwnershipInv, ProtectionLasts
    <2>2. \A x \in Known(n) : x.live /\ x.del =>
                              ~(obj.live /\ obj.fin /\ ~obj.del)
      BY DEF OwnershipInv, MarkLasts
    <2>3. QED
      BY <2>1, <2>2, StoreKnown
  <1>2. /\ api'[n] = obj
        /\ \A m \in Names \ {n} : api'[m] = api[m]
    BY DEF Store, TypeOK
  <1>3. DownIsEmpty'
    BY DEF OwnershipInv, DownIsEmpty, Store, workerVars
  <1>4. SnapshotOld'
    <2> SUFFICES ASSUME pc \in {"addFinalizer"} \cup EnsureSteps \cup DeleteSteps
                 PROVE  /\ funcObj.live
                        /\ funcObj.rv <= cache[key].rv
                        /\ funcObj.rv = api'[key].rv => funcObj = api'[key]
                        /\ funcObj.del <=> pc \in DeleteSteps
      BY DEF SnapshotOld, workerVars
    <2>1. /\ funcObj.live
          /\ funcObj.rv <= cache[key].rv
          /\ funcObj.rv = api[key].rv => funcObj = api[key]
          /\ funcObj.del <=> pc \in DeleteSteps
      BY DEF OwnershipInv, SnapshotOld
    <2>2. key \in Names
      BY DEF TypeOK, EnsureSteps, DeleteSteps
    <2>3. /\ cache[key].rv \in Nat /\ api[key].rv \in Nat /\ funcObj.rv \in Nat
          /\ cache[key].rv <= api[key].rv
      BY <2>2 DEF TypeOK, Objs, OwnershipInv, RevisionsOrdered
    <2>4. CASE key = n
      BY <2>1, <2>3, <2>4, <1>2
    <2>5. CASE key # n
      BY <2>1, <2>2, <2>5, <1>2
    <2>6. QED
      BY <2>4, <2>5
  <1>5. EnsuringProtected'
    <2> SUFFICES ASSUME pc \in EnsureSteps
                 PROVE  api'[key].live /\ api'[key].fin /\ api'[key].uid = funcObj.uid
      BY DEF EnsuringProtected, workerVars
    <2>1. key \in Names
      BY DEF TypeOK, EnsureSteps
    <2>2. api[key].live /\ api[key].fin /\ api[key].uid = funcObj.uid
      BY DEF OwnershipInv, EnsuringProtected
    <2>3. QED
      BY <2>1, <2>2, <1>2
  <1>6. DeletingMarked'
    <2> SUFFICES ASSUME pc \in DeleteSteps
                 PROVE  ~(api'[key].live /\ api'[key].fin /\ ~api'[key].del)
      BY DEF DeletingMarked, OwnershipInv, workerVars
    <2>1. key \in Names
      BY DEF TypeOK, DeleteSteps
    <2>2. ~(api[key].live /\ api[key].fin /\ ~api[key].del)
      BY DEF OwnershipInv, DeletingMarked
    <2>3. QED
      BY <2>1, <2>2, <1>2
  <1>7. NoOrphans'
    BY <1>2 DEF OwnershipInv, NoOrphans
  <1>8. QED
    BY <1>1, <1>3, <1>4, <1>5, <1>6, <1>7 DEF OwnershipInv

\* No operation of a user or of another tool disturbs the invariant.
LEMMA EnvironmentOwnership ==
    ASSUME TypeOK, OwnershipInv, Environment
    PROVE  OwnershipInv'
  <1>1. ASSUME NEW n \in Names, NEW s \in Specs, CreateFunction(n, s)
        PROVE  OwnershipInv'
    <2> DEFINE obj == [live |-> TRUE, uid |-> api[n].rv + 1,
                       rv |-> api[n].rv + 1, fin |-> FALSE, del |-> FALSE,
                       spec |-> s]
    <2>1. obj \in Objs
      BY DEF TypeOK, Objs
    <2>2. /\ Store(n, obj)
          /\ ~api[n].live
          /\ UNCHANGED <<res, up, cache, workerVars>>
      BY <1>1 DEF CreateFunction
    <2>3. QED
      BY <2>1, <2>2, UserStore
  <1>2. ASSUME NEW n \in Names, NEW s \in Specs, UpdateFunction(n, s)
        PROVE  OwnershipInv'
    <2> DEFINE obj == [api[n] EXCEPT !.rv = @ + 1, !.spec = s]
    <2>1. api[n] \in Objs /\ obj \in Objs
      BY RevisionType DEF TypeOK
    <2>2. /\ Store(n, obj)
          /\ UNCHANGED <<res, up, cache, workerVars>>
      BY <1>2 DEF UpdateFunction
    <2>3. /\ obj.rv = api[n].rv + 1
          /\ obj.live = api[n].live
          /\ obj.fin = api[n].fin
          /\ obj.del = api[n].del
          /\ obj.uid = api[n].uid
      BY <2>1 DEF Objs
    <2>4. api[n].del => api[n].live /\ api[n].fin
      BY DEF OwnershipInv, MarkedProtected
    <2> HIDE DEF obj
    <2>5. QED
      BY <2>1, <2>2, <2>3, <2>4, UserStore
  <1>3. ASSUME NEW n \in Names, DeleteFunction(n)
        PROVE  OwnershipInv'
    <2>1. api[n] \in Objs
      BY DEF TypeOK
    <2>2. CASE api[n].fin
      <3> DEFINE obj == [api[n] EXCEPT !.rv = @ + 1, !.del = TRUE]
      <3>1. obj \in Objs
        BY <2>1, RevisionType
      <3>2. /\ Store(n, obj)
            /\ api[n].live
            /\ UNCHANGED <<res, up, cache, workerVars>>
        BY <1>3, <2>2 DEF DeleteFunction
      <3>3. /\ obj.rv = api[n].rv + 1
            /\ obj.live = api[n].live
            /\ obj.fin = api[n].fin
            /\ obj.del
            /\ obj.uid = api[n].uid
        BY <2>1 DEF Objs
      <3> HIDE DEF obj
      <3>4. QED
        BY <2>2, <3>1, <3>2, <3>3, UserStore
    <2>3. CASE ~api[n].fin
      <3>1. Gone(api[n].rv + 1) \in Objs
        BY <2>1, RevisionType
      <3>2. /\ Store(n, Gone(api[n].rv + 1))
            /\ UNCHANGED <<res, up, cache, workerVars>>
        BY <1>3, <2>3 DEF DeleteFunction
      <3>3. /\ Gone(api[n].rv + 1).rv = api[n].rv + 1
            /\ ~Gone(api[n].rv + 1).live
            /\ ~Gone(api[n].rv + 1).del
        BY DEF Gone
      <3>4. QED
        BY <2>3, <3>1, <3>2, <3>3, UserStore
    <2>4. QED
      BY <2>2, <2>3
  <1>4. ASSUME NEW n \in Names, NEW k \in Kinds, CreateForeign(n, k)
        PROVE  OwnershipInv'
    <2>1. \A m \in Names, j \in Kinds : Owned(res'[m][j]) => res'[m][j] = res[m][j]
      BY <1>4 DEF CreateForeign, TypeOK, Owned, Foreign
    <2>2. UNCHANGED <<api, up, cache, watch, pc, key, funcObj>>
      BY <1>4 DEF CreateForeign, informerVars, workerVars
    <2>3. DeletingMarked'
      BY <2>1, <2>2 DEF DeletingMarked, OwnershipInv, TypeOK, DeleteSteps
    <2>4. NoOrphans'
      BY <2>1, <2>2 DEF NoOrphans, OwnershipInv
    <2>5. QED
      BY <2>2, <2>3, <2>4
         DEF OwnershipInv, RevisionsOrdered, DownIsEmpty, ProtectionLasts,
             MarkLasts, SnapshotOld, EnsuringProtected, MarkedProtected, Known
  <1>5. QED
    BY <1>1, <1>2, <1>3, <1>4 DEF Environment

\* The informer only moves forward, so what it knows only shrinks.
LEMMA InformerOwnership ==
    ASSUME TypeOK, OwnershipInv, NEW n \in Names,
           Deliver(n) \/ Relist(n) \/ DelayExpires(n)
    PROVE  OwnershipInv'
  <1>1. CASE Deliver(n)
    <2>1. PICK obj \in watch[n] :
              /\ Replace(n, obj)
              /\ watch' = [watch EXCEPT ![n] = {o \in @ : o.rv > obj.rv}]
      BY <1>1 DEF Deliver
    <2>2. /\ cache'[n] = obj
          /\ \A m \in Names \ {n} : cache'[m] = cache[m]
          /\ watch'[n] = {o \in watch[n] : o.rv > obj.rv}
          /\ \A m \in Names \ {n} : watch'[m] = watch[m]
      BY <2>1 DEF Replace, TypeOK
    <2>3. UNCHANGED <<api, res, pc, key, funcObj, up>> /\ up
      BY <1>1 DEF Deliver
    <2>4. \A m \in Names : Known(m)' \subseteq Known(m)
      BY <2>1, <2>2 DEF Known
    <2>5. /\ obj.rv \in Nat /\ cache[n].rv \in Nat /\ api[n].rv \in Nat
          /\ cache[n].rv < obj.rv /\ obj.rv <= api[n].rv
          /\ \A x \in watch[n] : x.rv \in Nat
      BY <2>1 DEF TypeOK, Objs, OwnershipInv, RevisionsOrdered
    <2>6. RevisionsOrdered'
      <3> SUFFICES ASSUME NEW m \in Names
                   PROVE  /\ api[m].live => api[m].rv > 0
                          /\ cache'[m].rv <= api[m].rv
                          /\ \A x \in watch'[m] : /\ cache'[m].rv < x.rv
                                                  /\ x.rv <= api[m].rv
                          /\ \A x \in Known(m)' :
                                x.live /\ x.rv = api[m].rv => x = api[m]
        BY <2>3 DEF RevisionsOrdered, Known
      <3>1. CASE m = n
        BY <2>2, <2>4, <2>5, <3>1 DEF OwnershipInv, RevisionsOrdered
      <3>2. CASE m # n
        BY <2>2, <2>4, <3>2 DEF OwnershipInv, RevisionsOrdered
      <3>3. QED
        BY <3>1, <3>2
    <2>7. ProtectionLasts' /\ MarkLasts'
      BY <2>3, <2>4 DEF OwnershipInv, ProtectionLasts, MarkLasts
    <2>8. SnapshotOld'
      <3> SUFFICES ASSUME pc \in {"addFinalizer"} \cup EnsureSteps \cup DeleteSteps
                   PROVE  funcObj.rv <= cache'[key].rv
        BY <2>3 DEF OwnershipInv, SnapshotOld
      <3>1. key \in Names /\ funcObj.rv <= cache[key].rv
        BY DEF OwnershipInv, SnapshotOld, TypeOK, EnsureSteps, DeleteSteps
      <3>2. funcObj.rv \in Nat
        BY DEF TypeOK, Objs
      <3>3. QED
        BY <2>2, <2>5, <3>1, <3>2
    <2>9. DownIsEmpty' /\ EnsuringProtected' /\ DeletingMarked'
          /\ MarkedProtected' /\ NoOrphans'
      BY <2>3 DEF OwnershipInv, DownIsEmpty, EnsuringProtected,
                  DeletingMarked, MarkedProtected, NoOrphans
    <2>10. QED
      BY <2>6, <2>7, <2>8, <2>9 DEF OwnershipInv
  <1>2. CASE Relist(n)
    <2>1. cache' = cache
      BY <1>2 DEF Relist, Replace, TypeOK
    <2>2. UNCHANGED <<api, res, up, cache, watch, pc, key, funcObj>>
      BY <1>2, <2>1 DEF Relist
    <2>3. QED
      BY <2>2 DEF OwnershipInv, RevisionsOrdered, DownIsEmpty,
                  ProtectionLasts, MarkLasts, SnapshotOld, EnsuringProtected,
                  DeletingMarked, MarkedProtected, NoOrphans, Known
  <1>3. CASE DelayExpires(n)
    <2>1. UNCHANGED <<api, res, up, cache, watch, pc, key, funcObj>>
      BY <1>3 DEF DelayExpires, informerVars, workerVars
    <2>2. QED
      BY <2>1 DEF OwnershipInv, RevisionsOrdered, DownIsEmpty,
                  ProtectionLasts, MarkLasts, SnapshotOld, EnsuringProtected,
                  DeletingMarked, MarkedProtected, NoOrphans, Known
  <1>4. QED
    BY <1>1, <1>2, <1>3

\* Parts of the invariant that a step of the worker cannot disturb when it
\* leaves the API server's Functions and the informer alone.
LEMMA QuietWorker ==
    ASSUME OwnershipInv, UNCHANGED <<api, up, cache, watch>>, up
    PROVE  /\ RevisionsOrdered'
           /\ DownIsEmpty'
           /\ ProtectionLasts'
           /\ MarkLasts'
           /\ MarkedProtected'
  BY DEF OwnershipInv, RevisionsOrdered, DownIsEmpty, ProtectionLasts,
         MarkLasts, MarkedProtected, Known

\* The worker runs only in a running controller.
LEMMA BusyIsUp == ASSUME TypeOK, OwnershipInv, pc # "idle" PROVE up
  BY DEF OwnershipInv, DownIsEmpty, TypeOK

\* An idle worker has nothing to promise.
LEMMA IdleWorker ==
    ASSUME pc' = "idle"
    PROVE  SnapshotOld' /\ EnsuringProtected' /\ DeletingMarked'
  BY DEF SnapshotOld, EnsuringProtected, DeletingMarked, EnsureSteps,
         DeleteSteps

\* Get and the look-up in the store keep it: the branch processItem takes rests
\* on what the cached revision still says of the stored Function.
LEMMA ReadOwnership ==
    ASSUME TypeOK, OwnershipInv, GetItem \/ LookUp
    PROVE  OwnershipInv'
  <1>1. UNCHANGED <<api, res, up, cache, watch>>
    BY DEF GetItem, LookUp, informerVars
  <1>2. up
    BY BusyIsUp DEF GetItem, LookUp
  <1>3. NoOrphans'
    BY <1>1 DEF OwnershipInv, NoOrphans
  <1>4. SnapshotOld' /\ EnsuringProtected' /\ DeletingMarked'
    <2>1. CASE pc' = "idle"
      BY <2>1, IdleWorker
    <2>2. CASE pc' = "lookup"
      BY <2>2 DEF SnapshotOld, EnsuringProtected, DeletingMarked,
                  EnsureSteps, DeleteSteps
    <2>3. CASE /\ pc = "lookup"
               /\ pc' = FirstStep(cache[key])
               /\ FirstStep(cache[key]) # "done"
               /\ funcObj' = cache[key]
               /\ key' = key
      <3>1. key \in Names /\ cache[key] \in Objs /\ cache[key].rv \in Nat
        BY <2>3 DEF TypeOK, Objs
      <3>2. /\ cache[key] \in Known(key)
            /\ cache[key].live /\ cache[key].rv = api[key].rv =>
                   cache[key] = api[key]
        BY <3>1 DEF Known, OwnershipInv, RevisionsOrdered
      <3>3. CASE /\ pc' = "delDeployment"
                 /\ cache[key].live /\ cache[key].del /\ cache[key].fin
        <4>1. ~(api[key].live /\ api[key].fin /\ ~api[key].del)
          BY <3>1, <3>2, <3>3 DEF OwnershipInv, MarkLasts
        <4>2. QED
          BY <1>1, <2>3, <3>1, <3>2, <3>3, <4>1
             DEF SnapshotOld, EnsuringProtected, DeletingMarked, EnsureSteps,
                 DeleteSteps
      <3>4. CASE pc' = "addFinalizer" /\ cache[key].live /\ ~cache[key].del
        BY <1>1, <2>3, <3>1, <3>2, <3>4
           DEF SnapshotOld, EnsuringProtected, DeletingMarked, EnsureSteps,
               DeleteSteps
      <3>5. CASE /\ pc' = "configmap"
                 /\ cache[key].live /\ ~cache[key].del /\ cache[key].fin
        <4>1. api[key].live /\ api[key].fin /\ api[key].uid = cache[key].uid
          BY <3>1, <3>2, <3>5 DEF OwnershipInv, ProtectionLasts
        <4>2. QED
          BY <1>1, <2>3, <3>1, <3>2, <3>5, <4>1
             DEF SnapshotOld, EnsuringProtected, DeletingMarked, EnsureSteps,
                 DeleteSteps
      <3>6. QED
        BY <2>3, <3>1, <3>3, <3>4, <3>5 DEF FirstStep, Objs
    <2>4. QED
      BY <2>1, <2>2, <2>3 DEF GetItem, LookUp, EndItem
  <1>5. QED
    BY <1>1, <1>2, <1>3, <1>4, QuietWorker DEF OwnershipInv

\* When the worker's Update is accepted, its object is the newest one and the
\* informer knows nothing else.
LEMMA AcceptedIsNewest ==
    ASSUME TypeOK, OwnershipInv, pc \in {"addFinalizer", "removeFinalizer"},
           funcObj.rv = api[key].rv
    PROVE  /\ key \in Names
           /\ funcObj = api[key]
           /\ funcObj.live
           /\ funcObj.del <=> pc = "removeFinalizer"
           /\ \A x \in Known(key) : x.live => x = api[key]
           /\ funcObj.rv <= cache[key].rv
  <1>1. key \in Names
    BY DEF TypeOK
  <1>2. /\ funcObj = api[key]
        /\ funcObj.live
        /\ funcObj.del <=> pc = "removeFinalizer"
        /\ funcObj.rv <= cache[key].rv
    BY DEF OwnershipInv, SnapshotOld, DeleteSteps
  <1>3. /\ cache[key].rv \in Nat /\ api[key].rv \in Nat
        /\ \A x \in watch[key] : x.rv \in Nat
    BY <1>1 DEF TypeOK, Objs
  <1>4. cache[key].rv = api[key].rv /\ watch[key] = {}
    BY <1>1, <1>2, <1>3 DEF OwnershipInv, RevisionsOrdered
  <1>5. QED
    BY <1>1, <1>2, <1>4 DEF OwnershipInv, RevisionsOrdered, Known

\* FunctionObjAddFinalizer keeps it, accepted, refused or unanswered.
LEMMA AddFinalizerOwnership ==
    ASSUME TypeOK, OwnershipInv, AddFinalizer
    PROVE  OwnershipInv'
  <1>1. pc = "addFinalizer" /\ pc # "idle" /\ UNCHANGED <<res, up, cache>> /\ up
    BY BusyIsUp DEF AddFinalizer
  <1>2. CASE funcObj.rv = api[key].rv
    <2> DEFINE obj == [api[key] EXCEPT !.rv = @ + 1, !.fin = TRUE]
    <2>1. /\ key \in Names
          /\ funcObj = api[key]
          /\ api[key].live
          /\ ~api[key].del
          /\ \A x \in Known(key) : x.live => x = api[key]
          /\ funcObj.rv <= cache[key].rv
      BY <1>1, <1>2, AcceptedIsNewest
    <2>2. api[key] \in Objs /\ obj \in Objs
      BY <2>1, RevisionType DEF TypeOK
    <2>3. Store(key, obj)
      BY <1>2 DEF AddFinalizer
    <2>4. /\ obj.rv = api[key].rv + 1
          /\ obj.live
          /\ obj.fin
          /\ ~obj.del
          /\ obj.uid = api[key].uid
      BY <2>1, <2>2 DEF Objs
    <2> HIDE DEF obj
    <2>5. RevisionsOrdered' /\ ProtectionLasts' /\ MarkLasts' /\ MarkedProtected'
      BY <1>1, <2>1, <2>2, <2>3, <2>4, StoreKnown
    <2>6. /\ api'[key] = obj
          /\ \A m \in Names \ {key} : api'[m] = api[m]
      BY <2>1, <2>3 DEF Store, TypeOK
    <2>7. NoOrphans'
      BY <1>1, <2>1, <2>4, <2>6 DEF OwnershipInv, NoOrphans
    <2>8. DownIsEmpty'
      BY <1>1 DEF DownIsEmpty
    <2>9. SnapshotOld' /\ EnsuringProtected' /\ DeletingMarked'
      <3>1. CASE pc' = "idle"
        BY <3>1, IdleWorker
      <3>2. CASE Goto("configmap")
        <4>1. pc' = "configmap" /\ key' = key /\ funcObj' = funcObj
          BY <3>2 DEF Goto
        <4>2. api[key].rv \in Nat
          BY <2>2 DEF Objs
        <4>3. QED
          BY <1>1, <2>1, <2>4, <2>6, <4>1, <4>2
             DEF SnapshotOld, EnsuringProtected, DeletingMarked, EnsureSteps,
                 DeleteSteps
      <3>3. QED
        BY <1>2, <3>1, <3>2 DEF AddFinalizer, EndItem
    <2>10. QED
      BY <2>5, <2>7, <2>8, <2>9 DEF OwnershipInv
  <1>3. CASE funcObj.rv # api[key].rv
    <2>1. UNCHANGED <<api, watch>> /\ pc' = "idle"
      BY <1>3 DEF AddFinalizer, EndItem
    <2>2. NoOrphans'
      BY <1>1, <2>1 DEF OwnershipInv, NoOrphans
    <2>3. QED
      BY <1>1, <2>1, <2>2, QuietWorker, IdleWorker DEF OwnershipInv
  <1>4. QED
    BY <1>2, <1>3

\* FunctionObjRemoveFinalizer keeps it: nothing is owned any more when the
\* Function goes.
LEMMA RemoveFinalizerOwnership ==
    ASSUME TypeOK, OwnershipInv, RemoveFinalizer
    PROVE  OwnershipInv'
  <1>1. pc = "removeFinalizer" /\ pc # "idle" /\ UNCHANGED <<res, up, cache>> /\ up
    BY BusyIsUp DEF RemoveFinalizer
  <1>2. pc' = "idle"
    BY DEF RemoveFinalizer, Answered, EndItem
  <1>3. CASE funcObj.rv = api[key].rv
    <2> DEFINE obj == Gone(api[key].rv + 1)
    <2>1. /\ key \in Names
          /\ api[key].del
          /\ \A x \in Known(key) : x.live => x = api[key]
      BY <1>1, <1>3, AcceptedIsNewest
    <2>2. obj \in Objs /\ Store(key, obj)
      BY <1>3, <2>1, RevisionType DEF RemoveFinalizer, TypeOK
    <2>3. obj.rv = api[key].rv + 1 /\ ~obj.live /\ ~obj.del
      BY DEF Gone
    <2> HIDE DEF obj
    <2>4. RevisionsOrdered' /\ ProtectionLasts' /\ MarkLasts' /\ MarkedProtected'
      BY <1>1, <2>1, <2>2, <2>3, StoreKnown
    <2>5. \A m \in Names \ {key} : api'[m] = api[m]
      BY <2>1, <2>2 DEF Store, TypeOK
    <2>6. \A k \in Kinds : ~Owned(res[key][k])
      BY <1>1 DEF OwnershipInv, DeletingMarked, DeleteSteps
    <2>7. NoOrphans'
      BY <1>1, <2>5, <2>6 DEF OwnershipInv, NoOrphans
    <2>8. DownIsEmpty'
      BY <1>1 DEF DownIsEmpty
    <2>9. QED
      BY <1>2, <2>4, <2>7, <2>8, IdleWorker DEF OwnershipInv
  <1>4. CASE funcObj.rv # api[key].rv
    <2>1. UNCHANGED <<api, watch>>
      BY <1>4 DEF RemoveFinalizer
    <2>2. NoOrphans'
      BY <1>1, <2>1 DEF OwnershipInv, NoOrphans
    <2>3. QED
      BY <1>1, <1>2, <2>1, <2>2, QuietWorker, IdleWorker DEF OwnershipInv
  <1>5. QED
    BY <1>3, <1>4

\* The worker stays within ensureK8sResources, or stops.
LEMMA EnsuringGoesOn ==
    ASSUME OwnershipInv, pc \in EnsureSteps, GoesTo(EnsureSteps),
           UNCHANGED <<api, cache>>
    PROVE  SnapshotOld' /\ EnsuringProtected' /\ DeletingMarked'
  <1>1. CASE pc' = "idle"
    BY <1>1, IdleWorker
  <1>2. CASE pc' \in EnsureSteps /\ funcObj' = funcObj /\ key' = key
    BY <1>2 DEF OwnershipInv, SnapshotOld, EnsuringProtected, DeletingMarked,
                EnsureSteps, DeleteSteps
  <1>3. QED
    BY <1>1, <1>2 DEF GoesTo

\* The steps of ensureK8sResources keep it.
LEMMA EnsureOwnership ==
    ASSUME TypeOK, OwnershipInv, EnsureAction
    PROVE  OwnershipInv'
  <1>1. /\ pc \in EnsureSteps
        /\ pc # "idle"
        /\ key \in Names
        /\ UNCHANGED <<api, up, cache, watch>>
        /\ GoesTo(EnsureSteps)
        /\ res' = res \/ MakesOne
    BY EnsureShape DEF ChildFrame, EnsureSteps, TypeOK
  <1>2. up
    BY <1>1, BusyIsUp
  <1>3. NoOrphans'
    <2>1. CASE res' = res
      BY <1>1, <2>1 DEF OwnershipInv, NoOrphans
    <2>2. CASE MakesOne
      <3>1. PICK k \in Kinds, s \in Specs :
                res' = [res EXCEPT ![key][k] = Made(s)]
        BY <2>2 DEF MakesOne
      <3>2. /\ res'[key][k] = Made(s)
            /\ \A m \in Names, j \in Kinds :
                   <<m, j>> # <<key, k>> => res'[m][j] = res[m][j]
        BY <1>1, <3>1 DEF TypeOK
      <3>3. api[key].live /\ api[key].fin /\ api[key].uid = Made(s).uid
        BY <1>1 DEF OwnershipInv, EnsuringProtected, Made
      <3>4. QED
        BY <1>1, <3>2, <3>3 DEF OwnershipInv, NoOrphans
    <2>3. QED
      BY <1>1, <2>1, <2>2
  <1>4. QED
    BY <1>1, <1>2, <1>3, QuietWorker, EnsuringGoesOn DEF OwnershipInv

\* Removing a child leaves no orphan and no more owned children than before.
LEMMA RemovalOwnership ==
    ASSUME TypeOK, OwnershipInv, key \in Names, NEW k \in Kinds,
           res' = [res EXCEPT ![key][k] = Absent], api' = api
    PROVE  /\ NoOrphans'
           /\ ~Owned(res'[key][k])
           /\ \A j \in Kinds : Owned(res'[key][j]) => Owned(res[key][j])
  <1>1. /\ res'[key][k] = Absent
        /\ \A m \in Names, j \in Kinds :
               <<m, j>> # <<key, k>> => res'[m][j] = res[m][j]
    BY DEF TypeOK
  <1>2. ~Owned(Absent)
    BY DEF Owned, Absent
  <1>3. QED
    BY <1>1, <1>2 DEF OwnershipInv, NoOrphans

\* deleteAutoscale keeps it.
LEMMA DeleteAutoscaleOwnership ==
    ASSUME TypeOK, OwnershipInv, deleteAutoscale
    PROVE  OwnershipInv'
  <1>1. ASSUME NEW step \in EnsureSteps, NEW k \in Kinds,
               NEW next \in EnsureSteps \cup {"done"},
               DeleteStep(step, k, next)
        PROVE  OwnershipInv'
    <2>1. step \in Steps \ {"idle"} /\ next \in (Steps \ {"idle"}) \cup {"done"}
      BY DEF Steps, EnsureSteps
    <2>2. /\ ChildFrame
          /\ pc = step
          /\ res' = [res EXCEPT ![key][k] = Absent]
          /\ \/ pc' = "idle"
             \/ pc' = next /\ next # "done" /\ funcObj' = funcObj /\ key' = key
      BY <1>1, <2>1, DeleteStepShape
    <2>3. pc \in EnsureSteps /\ key \in Names /\ up /\ GoesTo(EnsureSteps)
      BY <2>1, <2>2, BusyIsUp DEF TypeOK, GoesTo
    <2>4. UNCHANGED <<api, up, cache, watch>>
      BY <2>2 DEF ChildFrame
    <2>5. NoOrphans'
      BY <2>2, <2>3, <2>4, RemovalOwnership
    <2>6. QED
      BY <2>3, <2>4, <2>5, QuietWorker, EnsuringGoesOn DEF OwnershipInv
  <1>2. QED
    BY <1>1 DEF deleteAutoscale, EnsureSteps, Kinds

\* The kinds that may still be owned when the worker is about to take a step
\* of deleteK8sResources.
LeftBefore(step) ==
    CASE step = "delDeployment" -> Kinds
      [] step = "delService" -> Kinds \ {"deployment"}
      [] step = "delConfigmap" -> Kinds \ {"deployment", "service"}
      [] step = "delMonitor" -> Kinds \ Workload
      [] step = "delAutoscaler" -> {"autoscaler", "job"}
      [] step = "delJobs" -> {"job"}
      [] OTHER -> {}

\* deleteK8sResources keeps it, and each step narrows what may be left.
LEMMA DeleteK8sResourcesOwnership ==
    ASSUME TypeOK, OwnershipInv, deleteK8sResources
    PROVE  OwnershipInv'
  <1>1. ASSUME NEW step \in DeleteSteps, NEW k \in Kinds,
               NEW next \in DeleteSteps, DeleteStep(step, k, next),
               LeftBefore(step) \ {k} \subseteq LeftBefore(next)
        PROVE  OwnershipInv'
    <2>1. step \in Steps \ {"idle"} /\ next \in Steps \ {"idle"}
      BY DEF Steps, DeleteSteps
    <2>2. /\ ChildFrame
          /\ pc = step
          /\ res' = [res EXCEPT ![key][k] = Absent]
          /\ \/ pc' = "idle"
             \/ pc' = next /\ funcObj' = funcObj /\ key' = key
      BY <1>1, <2>1, DeleteStepShape
    <2>3. pc \in DeleteSteps /\ key \in Names /\ up
      BY <2>1, <2>2, BusyIsUp DEF TypeOK
    <2>4. UNCHANGED <<api, up, cache, watch>>
      BY <2>2 DEF ChildFrame
    <2>5. /\ NoOrphans'
          /\ ~Owned(res'[key][k])
          /\ \A j \in Kinds : Owned(res'[key][j]) => Owned(res[key][j])
      BY <2>2, <2>3, <2>4, RemovalOwnership
    <2>6. SnapshotOld' /\ EnsuringProtected' /\ DeletingMarked'
      <3>1. CASE pc' = "idle"
        BY <3>1, IdleWorker
      <3>2. CASE pc' = next /\ funcObj' = funcObj /\ key' = key
        <4>1. SnapshotOld' /\ EnsuringProtected'
          BY <2>3, <2>4, <3>2
             DEF OwnershipInv, SnapshotOld, EnsuringProtected, EnsureSteps,
                 DeleteSteps
        <4>2. ~(api[key].live /\ api[key].fin /\ ~api[key].del)
          BY <2>3 DEF OwnershipInv, DeletingMarked
        <4>3. \A j \in Kinds : Owned(res[key][j]) => j \in LeftBefore(pc)
          BY <2>3 DEF OwnershipInv, DeletingMarked, LeftBefore
        <4>4. \A j \in Kinds : Owned(res'[key][j]) => j \in LeftBefore(next)
          BY <1>1, <2>2, <2>5, <4>3
        <4>5. DeletingMarked'
          BY <2>4, <3>2, <4>2, <4>4 DEF DeletingMarked, LeftBefore
        <4>6. QED
          BY <4>1, <4>5
      <3>3. QED
        BY <2>2, <3>1, <3>2
    <2>7. QED
      BY <2>3, <2>4, <2>5, <2>6, QuietWorker DEF OwnershipInv
  <1>2. CASE DeleteStep("delDeployment", "deployment", "delService")
    <2>1. LeftBefore("delDeployment") \ {"deployment"} \subseteq LeftBefore("delService")
      BY DEF LeftBefore
    <2>2. QED
      BY <1>1, <1>2, <2>1 DEF DeleteSteps, Kinds, Workload
  <1>3. CASE DeleteStep("delService", "service", "delConfigmap")
    <2>1. LeftBefore("delService") \ {"service"} \subseteq LeftBefore("delConfigmap")
      BY DEF LeftBefore
    <2>2. QED
      BY <1>1, <1>3, <2>1 DEF DeleteSteps, Kinds, Workload
  <1>4. CASE DeleteStep("delConfigmap", "configmap", "delMonitor")
    <2>1. LeftBefore("delConfigmap") \ {"configmap"} \subseteq LeftBefore("delMonitor")
      BY DEF LeftBefore, Workload
    <2>2. QED
      BY <1>1, <1>4, <2>1 DEF DeleteSteps, Kinds, Workload
  <1>5. CASE DeleteStep("delMonitor", "monitor", "delAutoscaler")
    <2>1. LeftBefore("delMonitor") \ {"monitor"} \subseteq LeftBefore("delAutoscaler")
      BY DEF LeftBefore, Kinds
    <2>2. QED
      BY <1>1, <1>5, <2>1 DEF DeleteSteps, Kinds, Workload
  <1>6. CASE DeleteStep("delAutoscaler", "autoscaler", "delJobs")
    <2>1. LeftBefore("delAutoscaler") \ {"autoscaler"} \subseteq LeftBefore("delJobs")
      BY DEF LeftBefore
    <2>2. QED
      BY <1>1, <1>6, <2>1 DEF DeleteSteps, Kinds, Workload
  <1>7. CASE DeleteStep("delJobs", "job", "removeFinalizer")
    <2>1. LeftBefore("delJobs") \ {"job"} \subseteq LeftBefore("removeFinalizer")
      BY DEF LeftBefore
    <2>2. QED
      BY <1>1, <1>7, <2>1 DEF DeleteSteps, Kinds, Workload
  <1>8. QED
    BY <1>2, <1>3, <1>4, <1>5, <1>6, <1>7 DEF deleteK8sResources

\* A call that fails without effect keeps it.
LEMMA CallFailsOwnership ==
    ASSUME TypeOK, OwnershipInv, CallFails
    PROVE  OwnershipInv'
  <1>1. /\ pc' = "idle"
        /\ UNCHANGED <<api, res, up, cache, watch>>
    BY CallFailsShape DEF ChildFrame
  <1>2. up
    BY BusyIsUp DEF CallFails, EnsureSteps, DeleteSteps
  <1>3. NoOrphans'
    BY <1>1 DEF OwnershipInv, NoOrphans
  <1>4. QED
    BY <1>1, <1>2, <1>3, QuietWorker, IdleWorker DEF OwnershipInv

\* A controller that stops forgets all it knew; one that starts lists the
\* Functions as they are.
LEMMA ProcessOwnership ==
    ASSUME TypeOK, OwnershipInv, Start \/ Crash
    PROVE  OwnershipInv'
  <1>1. UNCHANGED <<api, res>>
    BY DEF Start, Crash
  <1>2. MarkedProtected' /\ NoOrphans'
    BY <1>1 DEF OwnershipInv, MarkedProtected, NoOrphans
  <1>3. pc' = "idle" /\ \A n \in Names : cache'[n] = Gone(0)
    BY DEF Start, Crash, workerVars, OwnershipInv, DownIsEmpty
  <1>4. /\ \A n \in Names : \A x \in watch'[n] : api[n].live /\ x = api[n]
        /\ DownIsEmpty'
    BY <1>3 DEF Start, Crash, DownIsEmpty
  <1>5. \A n \in Names : api[n].rv \in Nat /\ (api[n].live => api[n].rv > 0)
    BY DEF TypeOK, Objs, OwnershipInv, RevisionsOrdered
  <1>6. Gone(0).rv = 0 /\ ~Gone(0).live
    BY DEF Gone
  <1>7. RevisionsOrdered'
    BY <1>1, <1>3, <1>4, <1>5, <1>6 DEF RevisionsOrdered, Known
  <1>8. ProtectionLasts' /\ MarkLasts'
    BY <1>1, <1>3, <1>4, <1>6 DEF ProtectionLasts, MarkLasts, Known
  <1>9. QED
    BY <1>2, <1>3, <1>4, <1>7, <1>8, IdleWorker DEF OwnershipInv

\* Every step keeps the ownership invariant.
LEMMA NextOwnership == TypeOK /\ OwnershipInv /\ [Next]_vars => OwnershipInv'
  <1> SUFFICES ASSUME TypeOK, OwnershipInv, [Next]_vars PROVE OwnershipInv'
    OBVIOUS
  <1>1. CASE UNCHANGED vars
    <2>1. UNCHANGED <<api, res, up, cache, watch, pc, key, funcObj>>
      BY <1>1 DEF vars, informerVars, workerVars
    <2>2. QED
      BY <2>1 DEF OwnershipInv, RevisionsOrdered, DownIsEmpty,
                  ProtectionLasts, MarkLasts, SnapshotOld, EnsuringProtected,
                  DeletingMarked, MarkedProtected, NoOrphans, Known
  <1>2. CASE Worker
    BY <1>2, ReadOwnership, AddFinalizerOwnership, EnsureOwnership,
       DeleteAutoscaleOwnership, DeleteK8sResourcesOwnership,
       RemoveFinalizerOwnership, CallFailsOwnership DEF Worker, EnsureAction
  <1>3. QED
    BY <1>1, <1>2, EnvironmentOwnership, InformerOwnership, ProcessOwnership
       DEF Next

\* In every behaviour the informer's knowledge, the worker's snapshot and the
\* children agree with the stored Functions in the way OwnershipInv says.
THEOREM OwnershipInvariant == Spec => []OwnershipInv
  <1>1. Spec => []TypeOK
    BY TypeCorrect
  <1>2. QED
    BY <1>1, InitOwnership, NextOwnership, PTL DEF Spec

\* Nothing the controller makes outlives the Function it was made for, for
\* any number of functions, user operations, failed or unanswered calls and
\* crashes.
THEOREM NoOrphansTheorem == Spec => []NoOrphans
  <1>1. OwnershipInv => NoOrphans
    BY DEF OwnershipInv
  <1>2. QED
    BY <1>1, OwnershipInvariant, PTL

-----------------------------------------------------------------------------
(* What a step does to the children, and the properties of steps.          *)

\* A step removes the child of one of these kinds.
RemovesOne(K) == \E k \in K : res' = [res EXCEPT ![key][k] = Absent]

\* A step leaves the children alone, lets another tool create one where there
\* is none, makes one, drops an autoscaler or its monitor, or deletes one of
\* a function the worker saw marked.
LEMMA ChildSteps ==
    ASSUME TypeOK, OwnershipInv, Next
    PROVE  \/ res' = res
           \/ /\ \E n \in Names, k \in Kinds :
                    res[n][k] = Absent /\ res' = [res EXCEPT ![n][k] = Foreign]
              /\ api' = api
           \/ pc \in EnsureSteps /\ key \in Names /\ MakesOne /\ api' = api
           \/ /\ pc \in EnsureSteps /\ key \in Names /\ api' = api
              /\ RemovesOne({"monitor", "autoscaler"})
           \/ pc \in DeleteSteps /\ key \in Names /\ RemovesOne(Kinds) /\ api' = api
  <1>1. CASE Environment
    BY <1>1 DEF Environment, CreateFunction, UpdateFunction, DeleteFunction,
                CreateForeign
  <1>2. CASE \E n \in Names : Deliver(n) \/ Relist(n) \/ DelayExpires(n)
    BY <1>2 DEF Deliver, Relist, DelayExpires
  <1>3. CASE Start \/ Crash
    BY <1>3 DEF Start, Crash
  <1>4. CASE GetItem \/ LookUp \/ AddFinalizer \/ RemoveFinalizer \/ CallFails
    BY <1>4 DEF GetItem, LookUp, AddFinalizer, RemoveFinalizer, CallFails
  <1>5. CASE EnsureAction
    BY <1>5, EnsureShape DEF ChildFrame, EnsureSteps, TypeOK
  <1>6. CASE deleteAutoscale
    <2>1. ASSUME NEW step \in EnsureSteps, NEW k \in {"monitor", "autoscaler"},
                 NEW next \in EnsureSteps \cup {"done"}, DeleteStep(step, k, next)
          PROVE  /\ pc \in EnsureSteps /\ key \in Names /\ api' = api
                 /\ RemovesOne({"monitor", "autoscaler"})
      <3>1. /\ step \in Steps \ {"idle"} /\ k \in Kinds
            /\ next \in (Steps \ {"idle"}) \cup {"done"}
        BY DEF Steps, EnsureSteps, Kinds
      <3>2. QED
        BY <2>1, <3>1, DeleteStepShape DEF ChildFrame, RemovesOne, TypeOK
    <2>2. QED
      BY <1>6, <2>1 DEF deleteAutoscale, EnsureSteps
  <1>7. CASE deleteK8sResources
    <2>1. ASSUME NEW step \in DeleteSteps, NEW k \in Kinds,
                 NEW next \in DeleteSteps, DeleteStep(step, k, next)
          PROVE  pc \in DeleteSteps /\ key \in Names /\ RemovesOne(Kinds) /\ api' = api
      <3>1. step \in Steps \ {"idle"} /\ next \in (Steps \ {"idle"}) \cup {"done"}
        BY DEF Steps, DeleteSteps
      <3>2. QED
        BY <2>1, <3>1, DeleteStepShape DEF ChildFrame, RemovesOne, TypeOK
    <2>2. QED
      BY <1>7, <2>1 DEF deleteK8sResources, DeleteSteps, Kinds, Workload
  <1>8. QED
    BY <1>1, <1>2, <1>3, <1>4, <1>5, <1>6, <1>7 DEF Next, Worker, EnsureAction

\* The effect of replacing one child.
LEMMA OneChild ==
    ASSUME TypeOK, NEW m \in Names, NEW j \in Kinds, NEW child,
           res' = [res EXCEPT ![m][j] = child]
    PROVE  /\ res'[m][j] = child
           /\ \A n \in Names, k \in Kinds :
                  n # m \/ k # j => res'[n][k] = res[n][k]
  BY DEF TypeOK

\* The controller never takes away, or hands over to another Function, the
\* workload of a function that is not marked for deletion.
THEOREM WorkloadKeptTheorem == Spec => WorkloadKept
  <1>1. ASSUME TypeOK, OwnershipInv, Next,
               NEW n \in Names, NEW k \in Workload,
               Owned(res[n][k]), ~api[n].del
        PROVE  Owned(res'[n][k]) /\ res'[n][k].uid = res[n][k].uid
    <2>1. k \in Kinds /\ k \notin {"monitor", "autoscaler"}
      BY DEF Kinds, Workload
    <2>2. api[n].live /\ api[n].fin /\ api[n].uid = res[n][k].uid
      BY <1>1, <2>1 DEF OwnershipInv, NoOrphans
    <2>3. CASE res' = res
      BY <1>1, <2>3
    <2>4. CASE \E m \in Names, j \in Kinds :
                  res[m][j] = Absent /\ res' = [res EXCEPT ![m][j] = Foreign]
      <3>1. res[n][k] # Absent
        BY <1>1 DEF Owned, Absent
      <3>2. res'[n][k] = res[n][k]
        BY <1>1, <2>1, <2>4, <3>1, OneChild
      <3>3. QED
        BY <1>1, <3>2
    <2>5. CASE pc \in EnsureSteps /\ key \in Names /\ MakesOne
      <3>1. PICK j \in Kinds, s \in Specs : res' = [res EXCEPT ![key][j] = Made(s)]
        BY <2>5 DEF MakesOne
      <3>2. api[key].uid = funcObj.uid
        BY <1>1, <2>5 DEF OwnershipInv, EnsuringProtected
      <3>3. Owned(Made(s)) /\ Made(s).uid = funcObj.uid
        BY DEF Owned, Made
      <3>4. QED
        BY <1>1, <2>1, <2>2, <2>5, <3>1, <3>2, <3>3, OneChild
    <2>6. CASE key \in Names /\ RemovesOne({"monitor", "autoscaler"})
      <3>1. PICK j \in {"monitor", "autoscaler"} :
                res' = [res EXCEPT ![key][j] = Absent]
        BY <2>6 DEF RemovesOne
      <3>2. j \in Kinds
        BY DEF Kinds
      <3>3. QED
        BY <1>1, <2>1, <2>6, <3>1, <3>2, OneChild
    <2>7. CASE pc \in DeleteSteps /\ key \in Names /\ RemovesOne(Kinds)
      <3>1. n # key
        BY <1>1, <2>2, <2>7 DEF OwnershipInv, DeletingMarked
      <3>2. QED
        BY <1>1, <2>1, <2>7, <3>1, OneChild DEF RemovesOne
    <2>8. QED
      BY <1>1, <2>3, <2>4, <2>5, <2>6, <2>7, ChildSteps
  <1> DEFINE Kept == \A n \in Names, k \in Workload :
                         Owned(res[n][k]) /\ ~api[n].del =>
                             /\ Owned(res'[n][k])
                             /\ res'[n][k].uid = res[n][k].uid
  <1>2. TypeOK /\ OwnershipInv /\ [Next]_vars => [Kept]_vars
    BY <1>1
  <1>3. QED
    BY <1>2, TypeCorrect, OwnershipInvariant, PTL DEF Spec, WorkloadKept
-----------------------------------------------------------------------------
(* The work queue.                                                         *)

\* The keys of a queue, and that each is there once.
Keys(q) == {q[i] : i \in DOMAIN q}
Once(q) == \A i, j \in DOMAIN q : q[i] = q[j] => i = j

\* A key that is not there is appended once.
LEMMA AppendKey ==
    ASSUME NEW S, NEW q \in Seq(S), NEW x \in S, Once(q), x \notin Keys(q)
    PROVE  Once(Append(q, x)) /\ Keys(Append(q, x)) = Keys(q) \cup {x}
  <1> DEFINE n == Len(q)
  <1>1. n \in Nat /\ DOMAIN q = 1..n
    BY LenProperties
  <1>2. PICK r : r = Append(q, x)
    OBVIOUS
  <1>3. /\ r \in Seq(S)
        /\ DOMAIN r = 1..(n + 1)
        /\ \A i \in 1..n : r[i] = q[i]
        /\ r[n + 1] = x
    <2>1. Append(q, x) \in Seq(S) /\ Len(Append(q, x)) = n + 1
      BY AppendProperties
    <2>2. DOMAIN Append(q, x) = 1..(n + 1)
      BY <2>1, LenProperties
    <2>3. (\A i \in 1..n : Append(q, x)[i] = q[i]) /\ Append(q, x)[n + 1] = x
      BY AppendProperties
    <2>4. QED
      BY <1>2, <2>1, <2>2, <2>3
  <1> HIDE DEF n
  <1>4. \A i \in 1..(n + 1) : i \in 1..n \/ i = n + 1
    BY <1>1
  <1>5. n + 1 \in 1..(n + 1) /\ 1..n \subseteq 1..(n + 1)
    BY <1>1
  <1>6. Once(r)
    <2> SUFFICES ASSUME NEW i \in 1..(n + 1), NEW j \in 1..(n + 1), r[i] = r[j]
                 PROVE  i = j
      BY <1>3 DEF Once
    <2>1. CASE i \in 1..n /\ j \in 1..n
      BY <1>1, <1>3, <2>1 DEF Once
    <2>2. CASE i = n + 1 /\ j = n + 1
      BY <2>2
    <2>3. CASE i \in 1..n /\ j = n + 1
      BY <1>1, <1>3, <2>3 DEF Keys
    <2>4. CASE i = n + 1 /\ j \in 1..n
      BY <1>1, <1>3, <2>4 DEF Keys
    <2>5. QED
      BY <1>4, <2>1, <2>2, <2>3, <2>4
  <1>7. Keys(r) = Keys(q) \cup {x}
    BY <1>1, <1>3, <1>4, <1>5 DEF Keys
  <1>8. QED
    BY <1>2, <1>6, <1>7

\* The first key leaves a queue.
LEMMA TakeKey ==
    ASSUME NEW S, NEW q \in Seq(S), q # <<>>, Once(q)
    PROVE  Once(Tail(q)) /\ Keys(Tail(q)) = Keys(q) \ {Head(q)} /\ Head(q) \in Keys(q)
  <1> DEFINE n == Len(q)
  <1>1. n \in Nat \ {0} /\ DOMAIN q = 1..n
    BY LenProperties, EmptySeq
  <1>2. PICK r, x : r = Tail(q) /\ x = Head(q)
    OBVIOUS
  <1>3. /\ DOMAIN r = 1..(n - 1)
        /\ \A i \in 1..(n - 1) : r[i] = q[i + 1]
        /\ x = q[1]
    <2>1. Tail(q) \in Seq(S) /\ Len(Tail(q)) = n - 1 /\ Head(q) = q[1]
      BY HeadTailProperties
    <2>2. DOMAIN Tail(q) = 1..(n - 1)
      BY <2>1, LenProperties
    <2>3. \A i \in 1..Len(Tail(q)) : Tail(q)[i] = q[i + 1]
      BY HeadTailProperties
    <2>4. QED
      BY <1>2, <2>1, <2>2, <2>3
  <1> HIDE DEF n
  <1>4. \A i \in 1..(n - 1) : i + 1 \in 1..n /\ i + 1 # 1 /\ i \in Int
    BY <1>1
  <1>5. \A i \in 1..n : i # 1 => i - 1 \in 1..(n - 1) /\ (i - 1) + 1 = i
    BY <1>1
  <1>6. 1 \in 1..n
    BY <1>1
  <1>7. Once(r)
    <2> SUFFICES ASSUME NEW i \in 1..(n - 1), NEW j \in 1..(n - 1), r[i] = r[j]
                 PROVE  i = j
      BY <1>3 DEF Once
    <2>1. i + 1 = j + 1
      BY <1>1, <1>3, <1>4 DEF Once
    <2>2. QED
      BY <1>4, <2>1
  <1>8. Keys(r) \subseteq Keys(q) \ {x}
    <2> SUFFICES ASSUME NEW i \in 1..(n - 1) PROVE r[i] \in Keys(q) \ {x}
      BY <1>3 DEF Keys
    <2>1. q[i + 1] \in Keys(q) /\ q[i + 1] # q[1]
      BY <1>1, <1>4, <1>6 DEF Keys, Once
    <2>2. QED
      BY <1>3, <2>1
  <1>9. Keys(q) \ {x} \subseteq Keys(r)
    <2> SUFFICES ASSUME NEW i \in 1..n, q[i] # x PROVE q[i] \in Keys(r)
      BY <1>1 DEF Keys
    <2>1. i - 1 \in 1..(n - 1) /\ r[i - 1] = q[i]
      BY <1>3, <1>5
    <2>2. QED
      BY <1>3, <2>1 DEF Keys
  <1>10. x \in Keys(q)
    BY <1>1, <1>3, <1>6 DEF Keys
  <1>11. QED
    BY <1>2, <1>7, <1>8, <1>9, <1>10

\* What a step may do to the queue: nothing, Add, Get, Done, or be gone.
LEMMA QueueSteps ==
    ASSUME TypeOK, [Next]_vars
    PROVE  \/ UNCHANGED <<queue, dirty, key>>
           \/ key' = key /\ \E n \in Names : Add(n)
           \/ GetItem
           \/ pc # "idle" /\ \E ok \in BOOLEAN : EndItem(ok)
           \/ Crash
  <1>1. CASE Environment \/ Start \/ UNCHANGED vars
    BY <1>1 DEF Environment, CreateFunction, UpdateFunction, DeleteFunction,
                CreateForeign, Start, queueVars, workerVars, vars
  <1>2. ASSUME NEW n \in Names, Deliver(n) \/ Relist(n) \/ DelayExpires(n)
        PROVE  key' = key /\ (Add(n) \/ UNCHANGED <<queue, dirty>>)
    BY <1>2 DEF Deliver, Relist, DelayExpires, Replace, workerVars
  <1>3. CASE \E step : Goto(step)
    BY <1>3 DEF Goto, queueVars
  <1>4. CASE LookUp \/ AddFinalizer \/ RemoveFinalizer \/ CallFails
    <2>1. pc # "idle"
      BY <1>4 DEF LookUp, AddFinalizer, RemoveFinalizer, CallFails, EnsureSteps, DeleteSteps
    <2>2. \/ \E step : Goto(step)
          \/ \E ok \in BOOLEAN : EndItem(ok)
          \/ UNCHANGED <<key, queueVars>>
      BY <1>4 DEF LookUp, AddFinalizer, RemoveFinalizer, CallFails, Answered
    <2>3. QED
      BY <1>3, <2>1, <2>2 DEF queueVars
  <1>5. CASE EnsureAction
    <2>1. pc # "idle"
      BY <1>5, EnsureShape DEF EnsureSteps
    <2>2. (\E step : Goto(step)) \/ (\E ok \in BOOLEAN : EndItem(ok))
      BY <1>5 DEF EnsureAction, EnsureFuncConfigMap, EnsureFuncService, startImageBuildJob,
                  EnsureFuncDeployment, CreateServiceMonitor, EnsureAutoscaler, Refuse, Answered
    <2>3. QED
      BY <1>3, <2>1, <2>2
  <1>6. CASE deleteAutoscale \/ deleteK8sResources
    <2>1. pc # "idle"
      BY <1>6, DeletesShape
    <2>2. (\E step : Goto(step)) \/ (\E ok \in BOOLEAN : EndItem(ok))
      BY <1>6 DEF deleteAutoscale, deleteK8sResources, DeleteStep, Answered
    <2>3. QED
      BY <1>3, <2>1, <2>2
  <1>7. QED
    BY <1>1, <1>2, <1>4, <1>5, <1>6 DEF Next, Worker, EnsureAction

\* workqueue.Add, Get and Done keep every key of the queue once in it, and exactly the
\* dirty keys that are not being processed.
LEMMA NextQueue == TypeOK /\ QueueHoldsDirty /\ [Next]_vars => QueueHoldsDirty'
  <1> SUFFICES ASSUME TypeOK, QueueHoldsDirty, [Next]_vars PROVE QueueHoldsDirty'
    OBVIOUS
  <1>1. Once(queue) /\ Keys(queue) = dirty \ {key}
    BY DEF QueueHoldsDirty, Once, Keys
  <1>2. queue \in Seq(Names) /\ dirty \subseteq Names /\ NoKey \notin Names
    BY ControllerAssumption DEF TypeOK
  <1> SUFFICES Once(queue') /\ Keys(queue') = dirty' \ {key'}
    BY DEF QueueHoldsDirty, Once, Keys
  <1>3. CASE UNCHANGED <<queue, dirty, key>>
    BY <1>1, <1>3
  <1>4. ASSUME NEW n \in Names, Add(n), key' = key
        PROVE  Once(queue') /\ Keys(queue') = dirty' \ {key'}
    <2>1. CASE n \in dirty \/ n = key
      BY <1>1, <1>4, <2>1 DEF Add
    <2>2. CASE n \notin dirty /\ n # key
      <3>1. queue' = Append(queue, n) /\ dirty' = dirty \cup {n} /\ n \notin Keys(queue)
        BY <1>1, <1>4, <2>2 DEF Add
      <3>2. Once(queue') /\ Keys(queue') = Keys(queue) \cup {n}
        BY <1>1, <1>2, <3>1, AppendKey
      <3>3. QED
        BY <1>1, <1>4, <2>2, <3>1, <3>2
    <2>3. QED
      BY <2>1, <2>2
  <1>5. CASE GetItem
    <2>1. key = NoKey /\ queue # <<>> /\ queue' = Tail(queue) /\ key' = Head(queue)
          /\ dirty' = dirty \ {Head(queue)}
      BY <1>5 DEF GetItem, TypeOK
    <2>2. Once(queue') /\ Keys(queue') = Keys(queue) \ {Head(queue)}
      BY <1>1, <1>2, <2>1, TakeKey
    <2>3. QED
      BY <1>1, <1>2, <2>1, <2>2
  <1>6. ASSUME NEW ok \in BOOLEAN, EndItem(ok), pc # "idle"
        PROVE  Once(queue') /\ Keys(queue') = dirty' \ {key'}
    <2>1. /\ key \in Names /\ key' = NoKey /\ dirty' = dirty
          /\ queue' = IF key \in dirty THEN Append(queue, key) ELSE queue
      BY <1>6 DEF EndItem, TypeOK
    <2>2. CASE key \in dirty
      <3>1. key \notin Keys(queue)
        BY <1>1
      <3>2. Once(queue') /\ Keys(queue') = Keys(queue) \cup {key}
        BY <1>1, <1>2, <2>1, <2>2, <3>1, AppendKey
      <3>3. QED
        BY <1>1, <1>2, <2>1, <2>2, <3>2
    <2>3. CASE key \notin dirty
      BY <1>1, <1>2, <2>1, <2>3
    <2>4. QED
      BY <2>2, <2>3
  <1>7. CASE Crash
    <2>1. queue' = <<>> /\ dirty' = {}
      BY <1>7 DEF Crash
    <2>2. QED
      BY <2>1 DEF Once, Keys
  <1>8. QED
    BY <1>3, <1>4, <1>5, <1>6, <1>7, QueueSteps

\* No key is processed twice at the same time and none is forgotten, however Adds by the
\* informer and by the back-off timer fall between the worker's Get and Done.
THEOREM QueueTheorem == Spec => []QueueHoldsDirty
  <1>1. Init => QueueHoldsDirty
    BY DEF Init, QueueHoldsDirty
  <1>2. QED
    BY <1>1, NextQueue, TypeCorrect, PTL DEF Spec
-----------------------------------------------------------------------------
(* What the worker writes into the cached object.                          *)

\* While the worker holds the object in the store it is what the store holds; it adds a
\* finalizer only where it saw none.
HeldInStore ==
    /\ attached =>
          /\ pc \in {"addFinalizer"} \cup EnsureSteps \cup DeleteSteps
          /\ funcObj = cache[key]
    /\ pc = "addFinalizer" => ~funcObj.fin

\* An object in the store that the worker has written into is not marked, and has the
\* finalizer or is out of date: no Update that would send it back is accepted.
WrittenIsSafe ==
    \A n \in Names : mutated[n] =>
        /\ cache[n].live
        /\ ~cache[n].del
        /\ cache[n].fin \/ cache[n].rv # api[n].rv

WriteBackInv == HeldInStore /\ WrittenIsSafe

\* A newer revision in the API server leaves a written object safe.
LEMMA StoreSafe ==
    ASSUME TypeOK, OwnershipInv, WrittenIsSafe, NEW m \in Names, NEW obj \in Objs,
           Store(m, obj), obj.rv = api[m].rv + 1, cache' = cache, mutated' = mutated
    PROVE  WrittenIsSafe'
  <1> SUFFICES ASSUME NEW n \in Names, mutated[n]
               PROVE  cache[n].live /\ ~cache[n].del /\ (cache[n].fin \/ cache[n].rv # api'[n].rv)
    BY DEF WrittenIsSafe
  <1>1. cache[n].live /\ ~cache[n].del /\ (cache[n].fin \/ cache[n].rv # api[n].rv)
    BY DEF WrittenIsSafe
  <1>2. api'[n] = IF n = m THEN obj ELSE api[n]
    BY DEF Store, TypeOK
  <1>3. cache[n].rv \in Nat /\ api[n].rv \in Nat /\ cache[n].rv <= api[n].rv
    BY DEF OwnershipInv, RevisionsOrdered, TypeOK, Objs
  <1>4. QED
    BY <1>1, <1>2, <1>3

\* Users and other tools.
LEMMA EnvironmentWriteBack ==
    ASSUME TypeOK, OwnershipInv, WriteBackInv, Environment
    PROVE  WriteBackInv'
  <1>1. UNCHANGED <<cache, mutated, workerVars>>
    BY DEF Environment, CreateFunction, UpdateFunction, DeleteFunction, CreateForeign,
           informerVars
  <1>2. HeldInStore'
    BY <1>1 DEF WriteBackInv, HeldInStore, workerVars
  <1>3. WrittenIsSafe'
    <2>1. ASSUME NEW n \in Names, NEW obj \in Objs, Store(n, obj), obj.rv = api[n].rv + 1
          PROVE  WrittenIsSafe'
      BY <1>1, <2>1, StoreSafe DEF WriteBackInv
    <2>2. ASSUME NEW n \in Names, NEW s \in Specs, CreateFunction(n, s) PROVE WrittenIsSafe'
      <3>1. [live |-> TRUE, uid |-> api[n].rv + 1, rv |-> api[n].rv + 1,
             fin |-> FALSE, del |-> FALSE, spec |-> s] \in Objs
        BY DEF TypeOK, Objs
      <3>2. QED
        BY <2>1, <2>2, <3>1 DEF CreateFunction
    <2>3. ASSUME NEW n \in Names, NEW s \in Specs, UpdateFunction(n, s) PROVE WrittenIsSafe'
      <3> DEFINE obj == [api[n] EXCEPT !.rv = @ + 1, !.spec = s]
      <3>1. api[n] \in Objs /\ obj \in Objs
        BY RevisionType DEF TypeOK
      <3>2. obj.rv = api[n].rv + 1 /\ Store(n, obj)
        BY <2>3, <3>1 DEF Objs, UpdateFunction
      <3> HIDE DEF obj
      <3>3. QED
        BY <2>1, <3>1, <3>2
    <2>4. ASSUME NEW n \in Names, DeleteFunction(n) PROVE WrittenIsSafe'
      <3>1. api[n] \in Objs
        BY DEF TypeOK
      <3>2. CASE api[n].fin
        <4> DEFINE obj == [api[n] EXCEPT !.rv = @ + 1, !.del = TRUE]
        <4>1. obj \in Objs
          BY <3>1, RevisionType
        <4>2. obj.rv = api[n].rv + 1 /\ Store(n, obj)
          BY <2>4, <3>1, <3>2 DEF Objs, DeleteFunction
        <4> HIDE DEF obj
        <4>3. QED
          BY <2>1, <4>1, <4>2
      <3>3. CASE ~api[n].fin
        <4>1. Gone(api[n].rv + 1) \in Objs /\ Gone(api[n].rv + 1).rv = api[n].rv + 1
          BY <3>1, RevisionType DEF Gone
        <4>2. Store(n, Gone(api[n].rv + 1))
          BY <2>4, <3>3 DEF DeleteFunction
        <4>3. QED
          BY <2>1, <4>1, <4>2
      <3>4. QED
        BY <3>2, <3>3
    <2>5. ASSUME NEW n \in Names, NEW k \in Kinds, CreateForeign(n, k) PROVE WrittenIsSafe'
      BY <1>1, <2>5 DEF CreateForeign, WriteBackInv, WrittenIsSafe
    <2>6. QED
      BY <2>2, <2>3, <2>4, <2>5 DEF Environment
  <1>4. QED
    BY <1>2, <1>3 DEF WriteBackInv

\* A new object in the store is untouched, and no longer the worker's.
LEMMA InformerWriteBack ==
    ASSUME TypeOK, OwnershipInv, WriteBackInv, NEW n \in Names,
           Deliver(n) \/ Relist(n) \/ DelayExpires(n)
    PROVE  WriteBackInv'
  <1>1. UNCHANGED <<api, pc, key, funcObj>>
    BY DEF Deliver, Relist, DelayExpires, workerVars
  <1>2. CASE \E obj : Replace(n, obj)
    <2>1. /\ attached' = (attached /\ key # n)
          /\ ~mutated'[n]
          /\ \A m \in Names \ {n} : cache'[m] = cache[m] /\ mutated'[m] = mutated[m]
      BY <1>2 DEF Replace, TypeOK
    <2>2. HeldInStore'
      <3>1. attached' => key \in Names \ {n}
        BY <2>1 DEF WriteBackInv, HeldInStore, TypeOK, EnsureSteps, DeleteSteps
      <3>2. QED
        BY <1>1, <2>1, <3>1 DEF WriteBackInv, HeldInStore
    <2>3. WrittenIsSafe'
      BY <1>1, <2>1 DEF WriteBackInv, WrittenIsSafe
    <2>4. QED
      BY <2>2, <2>3 DEF WriteBackInv
  <1>3. CASE DelayExpires(n)
    BY <1>1, <1>3 DEF DelayExpires, informerVars, workerVars, WriteBackInv, HeldInStore,
                      WrittenIsSafe
  <1>4. QED
    BY <1>2, <1>3 DEF Deliver, Relist

\* The worker moves on to another object or ends the item, and keeps its hands off the
\* store.
LEMMA MovesHeld ==
    ASSUME WriteBackInv, cache' = cache,
           \/ \E ok \in BOOLEAN : EndItem(ok)
           \/ \E step \in EnsureSteps \cup DeleteSteps : Goto(step)
    PROVE  HeldInStore'
  <1>1. CASE \E ok \in BOOLEAN : EndItem(ok)
    BY <1>1 DEF EndItem, HeldInStore
  <1>2. ASSUME NEW step \in EnsureSteps \cup DeleteSteps, Goto(step) PROVE HeldInStore'
    BY <1>2 DEF Goto, HeldInStore, WriteBackInv, EnsureSteps, DeleteSteps
  <1>3. QED
    BY <1>1, <1>2

\* The steps on children other than the Deployment.
LEMMA ChildWriteBack ==
    ASSUME TypeOK, OwnershipInv, WriteBackInv,
           \/ EnsureFuncConfigMap \/ EnsureFuncService \/ startImageBuildJob
           \/ CreateServiceMonitor \/ EnsureAutoscaler \/ CallFails
           \/ deleteAutoscale \/ deleteK8sResources
    PROVE  WriteBackInv'
  <1>1. UNCHANGED <<api, cache, mutated>>
    BY DEF EnsureFuncConfigMap, EnsureFuncService, startImageBuildJob, CreateServiceMonitor,
           EnsureAutoscaler, CallFails, deleteAutoscale, deleteK8sResources, DeleteStep,
           informerVars
  <1>2. \/ \E ok \in BOOLEAN : EndItem(ok)
        \/ \E step \in EnsureSteps \cup DeleteSteps : Goto(step)
    <2>1. ASSUME NEW step \in EnsureSteps \cup DeleteSteps \cup {"done"}, Answered(step)
          PROVE  \/ \E ok \in BOOLEAN : EndItem(ok)
                 \/ \E s \in EnsureSteps \cup DeleteSteps : Goto(s)
      BY <2>1 DEF Answered
    <2>2. CASE EnsureFuncConfigMap \/ EnsureFuncService
      BY <2>1, <2>2 DEF EnsureFuncConfigMap, EnsureFuncService, Refuse, EnsureSteps
    <2>3. CASE startImageBuildJob \/ CreateServiceMonitor \/ EnsureAutoscaler \/ CallFails
      BY <2>1, <2>3 DEF startImageBuildJob, CreateServiceMonitor, EnsureAutoscaler, CallFails,
                        Refuse, EnsureSteps
    <2>4. CASE deleteAutoscale
      BY <2>1, <2>4 DEF deleteAutoscale, DeleteStep, EnsureSteps
    <2>5. CASE deleteK8sResources
      BY <2>1, <2>5 DEF deleteK8sResources, DeleteStep, DeleteSteps
    <2>6. QED
      BY <2>2, <2>3, <2>4, <2>5
  <1>3. HeldInStore'
    BY <1>1, <1>2, MovesHeld
  <1>4. WrittenIsSafe'
    BY <1>1 DEF WriteBackInv, WrittenIsSafe
  <1>5. QED
    BY <1>3, <1>4 DEF WriteBackInv

\* OwnerReferences goes into an object that has the finalizer, or is out of date.
LEMMA DeploymentWriteBack ==
    ASSUME TypeOK, OwnershipInv, WriteBackInv, EnsureFuncDeployment
    PROVE  WriteBackInv'
  <1>1. UNCHANGED <<api, cache>> /\ pc = "deployment" /\ key \in Names
    BY DEF EnsureFuncDeployment, TypeOK
  <1>2. \/ \E ok \in BOOLEAN : EndItem(ok)
        \/ \E step \in EnsureSteps \cup DeleteSteps : Goto(step)
    <2>1. CASE funcObj.spec.hpa \in ObjectHPAs /\ Goto("monitor")
      BY <2>1 DEF EnsureSteps
    <2>2. CASE funcObj.spec.hpa \in PlainHPAs /\ Goto("autoscaler")
      BY <2>2 DEF EnsureSteps
    <2>3. CASE Goto("dropMonitor")
      BY <2>3 DEF EnsureSteps
    <2>4. CASE \E ok \in BOOLEAN : EndItem(ok)
      BY <2>4
    <2>5. \/ \E ok \in BOOLEAN : EndItem(ok)
          \/ Goto(CASE funcObj.spec.hpa \in ObjectHPAs -> "monitor"
                    [] funcObj.spec.hpa \in PlainHPAs -> "autoscaler"
                    [] OTHER -> "dropMonitor")
      BY DEF EnsureFuncDeployment, Refuse
    <2>6. LET next == CASE funcObj.spec.hpa \in ObjectHPAs -> "monitor"
                        [] funcObj.spec.hpa \in PlainHPAs -> "autoscaler"
                        [] OTHER -> "dropMonitor"
          IN  next \in EnsureSteps
      BY DEF EnsureSteps
    <2>7. QED
      BY <2>4, <2>5, <2>6
  <1>3. HeldInStore'
    BY <1>1, <1>2, MovesHeld
  <1>4. WrittenIsSafe'
    <2>1. CASE mutated' = mutated
      BY <1>1, <2>1 DEF WriteBackInv, WrittenIsSafe
    <2>2. CASE attached /\ mutated' = [mutated EXCEPT ![key] = TRUE]
      <3>1. funcObj = cache[key] /\ pc \in EnsureSteps
        BY <1>1, <2>2 DEF WriteBackInv, HeldInStore, EnsureSteps
      <3>2. /\ funcObj.live
            /\ funcObj.rv = api[key].rv => funcObj = api[key]
            /\ ~funcObj.del
        BY <1>1, <3>1 DEF OwnershipInv, SnapshotOld, EnsureSteps, DeleteSteps
      <3>3. api[key].fin
        BY <3>1 DEF OwnershipInv, EnsuringProtected
      <3>4. \A n \in Names : n # key => mutated'[n] = mutated[n]
        BY <2>2 DEF TypeOK
      <3>5. QED
        BY <1>1, <3>1, <3>2, <3>3, <3>4 DEF WriteBackInv, WrittenIsSafe
    <2>3. QED
      BY <2>1, <2>2 DEF EnsureFuncDeployment, MutateCached
  <1>5. QED
    BY <1>3, <1>4 DEF WriteBackInv

\* The look-up takes the object in the store.
LEMMA ReadWriteBack ==
    ASSUME TypeOK, OwnershipInv, WriteBackInv, GetItem \/ LookUp
    PROVE  WriteBackInv'
  <1>1. UNCHANGED <<api, cache>>
    BY DEF GetItem, LookUp, informerVars
  <1>2. CASE GetItem
    <2>1. ~attached /\ UNCHANGED <<attached, mutated, funcObj>> /\ pc' = "lookup"
      BY <1>2 DEF GetItem, WriteBackInv, HeldInStore, EnsureSteps, DeleteSteps, informerVars
    <2>2. QED
      BY <1>1, <2>1 DEF WriteBackInv, HeldInStore, WrittenIsSafe
  <1>3. CASE LookUp
    <2>1. key \in Names /\ cache[key] \in Objs
      BY <1>3 DEF LookUp, TypeOK
    <2>2. CASE EndItem(TRUE) /\ UNCHANGED mutated
      <3>1. HeldInStore'
        BY <1>1, <2>2, MovesHeld
      <3>2. QED
        BY <1>1, <2>2, <3>1 DEF WriteBackInv, WrittenIsSafe
    <2>3. CASE /\ FirstStep(cache[key]) # "done"
               /\ pc' = FirstStep(cache[key])
               /\ funcObj' = cache[key]
               /\ attached' = TRUE
               /\ mutated' = [mutated EXCEPT
                                ![key] = @ \/ MergesBefore(FirstStep(cache[key]))]
               /\ key' = key
      <3>1. /\ pc' \in {"delDeployment", "addFinalizer", "configmap"}
            /\ pc' = "addFinalizer" => ~cache[key].fin
            /\ pc' = "configmap" => cache[key].live /\ ~cache[key].del /\ cache[key].fin
        BY <2>1, <2>3 DEF FirstStep, Objs
      <3>2. HeldInStore'
        BY <1>1, <2>3, <3>1 DEF HeldInStore, EnsureSteps, DeleteSteps
      <3>3. /\ \A n \in Names : n # key => mutated'[n] = mutated[n]
            /\ mutated'[key] => mutated[key] \/ pc' = "configmap"
        BY <2>1, <2>3 DEF TypeOK, MergesBefore
      <3>4. WrittenIsSafe'
        BY <1>1, <3>1, <3>3 DEF WriteBackInv, WrittenIsSafe
      <3>5. QED
        BY <3>2, <3>4 DEF WriteBackInv
    <2>4. QED
      BY <1>3, <2>2, <2>3 DEF LookUp
  <1>4. QED
    BY <1>2, <1>3

\* The Updates of the finalizers make what the worker holds out of date.
LEMMA FinalizerWriteBack ==
    ASSUME TypeOK, OwnershipInv, WriteBackInv, AddFinalizer \/ RemoveFinalizer
    PROVE  WriteBackInv'
  <1>1. cache' = cache /\ key \in Names /\ pc \in {"addFinalizer", "removeFinalizer"}
    BY DEF AddFinalizer, RemoveFinalizer, TypeOK
  <1>2. \/ \E ok \in BOOLEAN : EndItem(ok)
        \/ \E step \in EnsureSteps \cup DeleteSteps : Goto(step)
    <2>1. CASE AddFinalizer
      BY <2>1 DEF AddFinalizer, EnsureSteps
    <2>2. CASE RemoveFinalizer
      BY <2>2 DEF RemoveFinalizer, Answered
    <2>3. QED
      BY <2>1, <2>2
  <1>3. HeldInStore'
    BY <1>1, <1>2, MovesHeld
  <1>4. CASE UNCHANGED <<api, mutated>>
    BY <1>1, <1>3, <1>4 DEF WriteBackInv, WrittenIsSafe
  <1>5. CASE AddFinalizer /\ funcObj.rv = api[key].rv
    <2> DEFINE obj == [api[key] EXCEPT !.rv = @ + 1, !.fin = TRUE]
    <2>1. api[key] \in Objs /\ obj \in Objs
      BY <1>1, RevisionType DEF TypeOK
    <2>2. obj.rv = api[key].rv + 1 /\ Store(key, obj) /\ api[key].rv \in Nat
      BY <1>5, <2>1 DEF Objs, AddFinalizer
    <2> HIDE DEF obj
    <2>3. CASE mutated' = mutated
      BY <1>1, <1>3, <2>1, <2>2, <2>3, StoreSafe DEF WriteBackInv
    <2>4. CASE attached /\ mutated' = [mutated EXCEPT ![key] = TRUE]
      <3>1. funcObj = cache[key] /\ pc = "addFinalizer"
        BY <1>5, <2>4 DEF WriteBackInv, HeldInStore, AddFinalizer
      <3>2. funcObj.live /\ ~funcObj.del
        BY <3>1 DEF OwnershipInv, SnapshotOld, EnsureSteps, DeleteSteps
      <3>3. /\ api'[key].rv = api[key].rv + 1
            /\ \A n \in Names : n # key => api'[n] = api[n] /\ mutated'[n] = mutated[n]
        BY <1>1, <2>2, <2>4 DEF Store, TypeOK
      <3>4. cache[key].rv # api'[key].rv
        BY <1>5, <2>2, <3>1, <3>3
      <3>5. WrittenIsSafe'
        BY <1>1, <3>1, <3>2, <3>3, <3>4 DEF WriteBackInv, WrittenIsSafe
      <3>6. QED
        BY <1>3, <3>5 DEF WriteBackInv
    <2>5. QED
      BY <1>5, <2>3, <2>4 DEF AddFinalizer, MutateCached
  <1>6. CASE RemoveFinalizer /\ funcObj.rv = api[key].rv
    <2>1. api[key] \in Objs
      BY <1>1 DEF TypeOK
    <2>2. Gone(api[key].rv + 1) \in Objs /\ Gone(api[key].rv + 1).rv = api[key].rv + 1
      BY <2>1, RevisionType DEF Gone
    <2>3. Store(key, Gone(api[key].rv + 1)) /\ mutated' = mutated
      BY <1>6 DEF RemoveFinalizer
    <2>4. QED
      BY <1>1, <1>3, <2>2, <2>3, StoreSafe DEF WriteBackInv
  <1>7. QED
    BY <1>4, <1>5, <1>6 DEF AddFinalizer, RemoveFinalizer

\* Every step.
LEMMA NextWriteBack ==
    TypeOK /\ OwnershipInv /\ WriteBackInv /\ [Next]_vars => WriteBackInv'
  <1> SUFFICES ASSUME TypeOK, OwnershipInv, WriteBackInv, [Next]_vars PROVE WriteBackInv'
    OBVIOUS
  <1>1. CASE UNCHANGED vars \/ Start
    BY <1>1 DEF vars, Start, informerVars, workerVars, WriteBackInv, HeldInStore, WrittenIsSafe
  <1>2. CASE Crash
    BY <1>2 DEF Crash, WriteBackInv, HeldInStore, WrittenIsSafe
  <1>3. CASE Worker
    BY <1>3, ReadWriteBack, FinalizerWriteBack, ChildWriteBack, DeploymentWriteBack DEF Worker
  <1>4. QED
    BY <1>1, <1>2, <1>3, EnvironmentWriteBack, InformerWriteBack DEF Next

\* What ensureK8sResources writes into the informer's own object never reaches the API
\* server: an Update that carries it is refused, in every interleaving of deliveries,
\* other users' writes and retries.
THEOREM NoWriteBackTheorem == Spec => []NoWriteBack
  <1>1. Init => WriteBackInv
    BY DEF Init, WriteBackInv, HeldInStore, WrittenIsSafe
  <1>2. TypeOK /\ OwnershipInv /\ WriteBackInv => NoWriteBack
    <2> SUFFICES ASSUME TypeOK, OwnershipInv, WriteBackInv,
                        pc \in {"addFinalizer", "removeFinalizer"}, attached,
                        funcObj.rv = api[key].rv
                 PROVE  ~mutated[key]
      BY DEF NoWriteBack
    <2>1. /\ key \in Names
          /\ funcObj = cache[key]
          /\ pc = "addFinalizer" => ~funcObj.fin
          /\ funcObj.del <=> pc = "removeFinalizer"
      BY AcceptedIsNewest DEF WriteBackInv, HeldInStore
    <2>2. QED
      BY <2>1 DEF WriteBackInv, WrittenIsSafe
  <1>3. QED
    BY <1>1, <1>2, NextWriteBack, TypeCorrect, OwnershipInvariant, PTL DEF Spec
-----------------------------------------------------------------------------
(* Converged.                                                              *)

\* The children c of a function are made from spec s, as far as functionObjChanged tells
\* specs apart.
Deployed(c, s) ==
    /\ \A k \in Workload : Owned(c[k]) /\ c[k].spec.code = s.code
    /\ IF s.hpa = NoHPA
           THEN ~Owned(c["autoscaler"]) /\ ~Owned(c["monitor"])
           ELSE Owned(c["autoscaler"]) /\ c["autoscaler"].spec.hpa = s.hpa

\* The informer of a running controller has the newest revision of a Function or will
\* receive it; a known revision with the mark has the finalizer.
NewestKnown ==
    \A n \in Names :
        /\ up /\ api[n].live => api[n] \in Known(n)
        /\ \A obj \in Known(n) :
               /\ api[n].live /\ obj.rv = api[n].rv => obj.live
               /\ obj.del => obj.live /\ obj.fin

\* Nothing is left to do for obj, with rv the newest resourceVersion and c the children: a
\* marked one is gone already, any other is deployed.
DoneWith(obj, rv, c) == IF obj.del THEN obj.rv # rv ELSE Deployed(c, obj.spec)

\* A key that nobody is going to process again is done with what the store holds.
Handled ==
    \A n \in Names :
        /\ up
        /\ key # n
        /\ n \notin dirty \cup waiting
        /\ ~gaveUp[n]
        /\ cache[n].live
        => DoneWith(cache[n], api[n].rv, res[n])

\* The worker's object differs from the store's only if its key will be processed again.
SnapshotCurrent ==
    pc \notin {"idle", "lookup"} /\ key \notin dirty =>
        /\ cache[key].live
        /\ cache[key].del = funcObj.del
        /\ ~funcObj.del => /\ cache[key].spec.code = funcObj.spec.code
                           /\ cache[key].spec.hpa = funcObj.spec.hpa

\* The worker's child of kind k is made from the object it read.
MadeNow(k) == Owned(res[key][k]) /\ res[key][k].spec.code = funcObj.spec.code

LastSteps == {"monitor", "autoscaler", "dropMonitor", "dropAutoscaler"}

\* What ensureK8sResources has done by each of its steps.
EnsureProgress ==
    /\ pc \in {"service", "image", "deployment"} \cup LastSteps => MadeNow("configmap")
    /\ pc \in {"image", "deployment"} \cup LastSteps => MadeNow("service")
    /\ pc \in LastSteps => MadeNow("deployment")
    /\ pc \in {"monitor", "autoscaler"} => funcObj.spec.hpa # NoHPA
    /\ pc \in {"dropMonitor", "dropAutoscaler"} => funcObj.spec.hpa = NoHPA
    /\ pc = "dropAutoscaler" => ~Owned(res[key]["monitor"])

ConvergenceInv == NewestKnown /\ Handled /\ SnapshotCurrent /\ EnsureProgress

\* A revision with the mark has the finalizer.
MarkOK(obj) == obj.del => obj.live /\ obj.fin

\* Functions are written one at a time, each write with the next resourceVersion, and
\* marked only while they carry the finalizer.
LEMMA Writes ==
    ASSUME TypeOK, OwnershipInv, Environment \/ AddFinalizer \/ RemoveFinalizer
    PROVE  /\ UNCHANGED <<up, cache>>
           /\ \/ UNCHANGED <<api, watch>>
              \/ \E n \in Names, obj \in Objs : /\ Store(n, obj)
                                               /\ obj.rv = api[n].rv + 1
                                               /\ MarkOK(obj)
  <1>1. UNCHANGED <<up, cache>>
    BY DEF Environment, CreateFunction, UpdateFunction, DeleteFunction, CreateForeign,
           AddFinalizer, RemoveFinalizer, informerVars
  <1> DEFINE Written == \E n \in Names, obj \in Objs : /\ Store(n, obj)
                                                       /\ obj.rv = api[n].rv + 1
                                                       /\ MarkOK(obj)
  <1> SUFFICES UNCHANGED <<api, watch>> \/ Written
    BY <1>1
  <1>2. ASSUME NEW n \in Names, NEW s \in Specs, CreateFunction(n, s) PROVE Written
    <2>1. PICK obj : obj = [live |-> TRUE, uid |-> api[n].rv + 1, rv |-> api[n].rv + 1,
                            fin |-> FALSE, del |-> FALSE, spec |-> s]
      OBVIOUS
    <2>2. api[n].rv \in Nat
      <3>1. api[n] \in Objs
        BY DEF TypeOK
      <3>2. QED
        BY <3>1 DEF Objs
    <2>3. obj \in Objs
      BY <2>1, <2>2 DEF Objs
    <2>4. obj.rv = api[n].rv + 1 /\ ~obj.del
      BY <2>1
    <2>5. Store(n, obj)
      BY <1>2, <2>1 DEF CreateFunction
    <2>6. QED
      BY <2>3, <2>4, <2>5 DEF MarkOK
  <1>3. ASSUME NEW n \in Names, NEW s \in Specs, UpdateFunction(n, s) PROVE Written
    <2>1. PICK obj : obj = [api[n] EXCEPT !.rv = @ + 1, !.spec = s]
      OBVIOUS
    <2>2. api[n] \in Objs /\ obj \in Objs
      BY <2>1, RevisionType DEF TypeOK
    <2>3. /\ obj.rv = api[n].rv + 1 /\ obj.live = api[n].live
          /\ obj.fin = api[n].fin /\ obj.del = api[n].del
      BY <2>1, <2>2 DEF Objs
    <2>4. Store(n, obj)
      BY <1>3, <2>1 DEF UpdateFunction
    <2>5. QED
      BY <2>2, <2>3, <2>4 DEF OwnershipInv, MarkedProtected, MarkOK
  <1>4. ASSUME NEW n \in Names, DeleteFunction(n) PROVE Written
    <2>1. api[n] \in Objs /\ api[n].live
      BY <1>4 DEF TypeOK, DeleteFunction
    <2>2. CASE api[n].fin
      <3>1. PICK obj : obj = [api[n] EXCEPT !.rv = @ + 1, !.del = TRUE]
        OBVIOUS
      <3>2. obj \in Objs
        BY <2>1, <3>1, RevisionType
      <3>3. obj.rv = api[n].rv + 1 /\ obj.live /\ obj.fin
        BY <2>1, <2>2, <3>1 DEF Objs
      <3>4. Store(n, obj)
        BY <1>4, <2>2, <3>1 DEF DeleteFunction
      <3>5. QED
        BY <3>2, <3>3, <3>4 DEF MarkOK
    <2>3. CASE ~api[n].fin
      <3>1. PICK obj : obj = Gone(api[n].rv + 1)
        OBVIOUS
      <3>2. obj \in Objs /\ obj.rv = api[n].rv + 1 /\ ~obj.del
        BY <2>1, <3>1, RevisionType DEF Gone
      <3>3. Store(n, obj)
        BY <1>4, <2>3, <3>1 DEF DeleteFunction
      <3>4. QED
        BY <3>2, <3>3 DEF MarkOK
    <2>4. QED
      BY <2>2, <2>3 DEF MarkOK
  <1>5. CASE \E n \in Names, k \in Kinds : CreateForeign(n, k)
    BY <1>5 DEF CreateForeign, informerVars
  <1>6. CASE AddFinalizer
    <2>1. CASE funcObj.rv = api[key].rv
      <3>1. key \in Names /\ api[key].live /\ ~api[key].del
        BY <1>6, <2>1, AcceptedIsNewest DEF AddFinalizer
      <3>2. PICK obj : obj = [api[key] EXCEPT !.rv = @ + 1, !.fin = TRUE]
        OBVIOUS
      <3>3. api[key] \in Objs /\ obj \in Objs
        BY <3>1, <3>2, RevisionType DEF TypeOK
      <3>4. obj.rv = api[key].rv + 1 /\ ~obj.del
        BY <3>1, <3>2, <3>3 DEF Objs
      <3>5. Store(key, obj)
        BY <1>6, <2>1, <3>2 DEF AddFinalizer
      <3>6. QED
        BY <3>1, <3>3, <3>4, <3>5 DEF MarkOK
    <2>2. CASE funcObj.rv # api[key].rv
      BY <1>6, <2>2 DEF AddFinalizer
    <2>3. QED
      BY <2>1, <2>2
  <1>7. CASE RemoveFinalizer
    <2>1. CASE funcObj.rv = api[key].rv
      <3>1. PICK obj : obj = Gone(api[key].rv + 1)
        OBVIOUS
      <3>2. key \in Names /\ api[key] \in Objs
        BY <1>7 DEF RemoveFinalizer, TypeOK
      <3>3. obj \in Objs /\ obj.rv = api[key].rv + 1 /\ ~obj.del
        BY <3>1, <3>2, RevisionType DEF Gone
      <3>4. Store(key, obj)
        BY <1>7, <2>1, <3>1 DEF RemoveFinalizer
      <3>5. QED
        BY <3>2, <3>3, <3>4 DEF MarkOK
    <2>2. CASE funcObj.rv # api[key].rv
      BY <1>7, <2>2 DEF RemoveFinalizer
    <2>3. QED
      BY <2>1, <2>2
  <1>8. QED
    BY <1>2, <1>3, <1>4, <1>5, <1>6, <1>7 DEF Environment

\* A running informer is told of every write.
LEMMA WritesKnown ==
    ASSUME TypeOK, OwnershipInv, NewestKnown, Environment \/ AddFinalizer \/ RemoveFinalizer
    PROVE  NewestKnown'
  <1>1. UNCHANGED <<up, cache>>
    BY Writes
  <1>2. CASE UNCHANGED <<api, watch>>
    BY <1>1, <1>2 DEF NewestKnown, Known
  <1>3. ASSUME NEW m \in Names, NEW obj \in Objs, Store(m, obj), obj.rv = api[m].rv + 1,
               MarkOK(obj)
        PROVE  NewestKnown'
    <2>1. /\ api'[m] = obj
          /\ \A n \in Names \ {m} : api'[n] = api[n] /\ watch'[n] = watch[n]
          /\ watch'[m] = IF up THEN watch[m] \cup {obj} ELSE watch[m]
      BY <1>3 DEF Store, TypeOK
    <2>2. /\ api[m].rv \in Nat
          /\ \A x \in Known(m) : x.rv \in Nat /\ x.rv <= api[m].rv
      <3>1. api[m] \in Objs /\ cache[m] \in Objs /\ watch[m] \subseteq Objs
        BY DEF TypeOK
      <3>2. \A x \in Objs : x.rv \in Nat
        BY DEF Objs
      <3>3. QED
        BY <3>1, <3>2 DEF OwnershipInv, RevisionsOrdered, Known
    <2> SUFFICES ASSUME NEW n \in Names
                 PROVE  /\ up /\ api'[n].live => api'[n] \in watch'[n] \cup {cache[n]}
                        /\ \A x \in watch'[n] \cup {cache[n]} :
                               /\ api'[n].live /\ x.rv = api'[n].rv => x.live
                               /\ x.del => x.live /\ x.fin
      BY <1>1 DEF NewestKnown, Known
    <2>3. CASE n = m
      BY <1>3, <2>1, <2>2, <2>3 DEF NewestKnown, Known, MarkOK
    <2>4. CASE n # m
      BY <2>1, <2>4 DEF NewestKnown, Known
    <2>5. QED
      BY <2>3, <2>4
  <1>4. QED
    BY <1>2, <1>3, Writes

\* What the informer has taken is not older than what it has dropped.
LEMMA DeliverKnown ==
    ASSUME TypeOK, OwnershipInv, NewestKnown, NEW m \in Names, Deliver(m)
    PROVE  NewestKnown'
  <1>1. PICK obj \in watch[m] :
            /\ Replace(m, obj)
            /\ watch' = [watch EXCEPT ![m] = {o \in @ : o.rv > obj.rv}]
    BY DEF Deliver
  <1>2. /\ cache'[m] = obj
        /\ watch'[m] = {o \in watch[m] : o.rv > obj.rv}
        /\ \A n \in Names \ {m} : cache'[n] = cache[n] /\ watch'[n] = watch[n]
    BY <1>1 DEF Replace, TypeOK
  <1>3. UNCHANGED <<api, up>> /\ up
    BY DEF Deliver
  <1>4. /\ obj.rv \in Nat /\ cache[m].rv \in Nat /\ api[m].rv \in Nat
        /\ cache[m].rv < obj.rv /\ obj.rv <= api[m].rv
    BY <1>1 DEF TypeOK, Objs, OwnershipInv, RevisionsOrdered
  <1>5. api[m].live => api[m] \in watch'[m] \cup {obj}
    <2> SUFFICES ASSUME api[m].live PROVE api[m] \in watch'[m] \cup {obj}
      OBVIOUS
    <2>1. api[m] \in watch[m]
      BY <1>3, <1>4 DEF NewestKnown, Known
    <2>2. CASE obj.rv = api[m].rv
      BY <1>1, <2>2 DEF NewestKnown, OwnershipInv, RevisionsOrdered, Known
    <2>3. CASE obj.rv # api[m].rv
      BY <1>2, <1>4, <2>1, <2>3
    <2>4. QED
      BY <2>2, <2>3
  <1>6. QED
    BY <1>1, <1>2, <1>3, <1>5 DEF NewestKnown, Known

\* Every step.
LEMMA NextKnown == TypeOK /\ OwnershipInv /\ NewestKnown /\ [Next]_vars => NewestKnown'
  <1> SUFFICES ASSUME TypeOK, OwnershipInv, NewestKnown, [Next]_vars PROVE NewestKnown'
    OBVIOUS
  <1>1. CASE UNCHANGED <<api, watch, cache, up>>
    BY <1>1 DEF NewestKnown, Known
  <1>2. CASE \E n \in Names : Relist(n) \/ DelayExpires(n)
    <2>1. UNCHANGED <<api, watch, cache, up>>
      BY <1>2 DEF Relist, Replace, DelayExpires, informerVars, TypeOK
    <2>2. QED
      BY <1>1, <2>1
  <1>3. CASE GetItem \/ LookUp \/ CallFails
    BY <1>1, <1>3 DEF GetItem, LookUp, CallFails, informerVars
  <1>4. CASE EnsureAction
    BY <1>1, <1>4, EnsureShape DEF ChildFrame
  <1>5. CASE deleteAutoscale \/ deleteK8sResources
    BY <1>1, <1>5, DeletesShape DEF ChildFrame
  <1>6. CASE Start
    <2>1. /\ \A n \in Names : watch'[n] = IF api[n].live THEN {api[n]} ELSE {}
          /\ UNCHANGED <<api, cache>>
          /\ \A n \in Names : cache[n] = Gone(0)
      BY <1>6 DEF Start, OwnershipInv, DownIsEmpty
    <2>2. /\ Gone(0).rv = 0 /\ ~Gone(0).del
          /\ \A n \in Names : api[n].live => api[n].rv > 0
      BY DEF Gone, OwnershipInv, RevisionsOrdered
    <2>3. \A n \in Names : api[n].del => api[n].live /\ api[n].fin
      BY DEF OwnershipInv, MarkedProtected
    <2>4. ASSUME NEW n \in Names
          PROVE  /\ api'[n].live => api'[n] \in watch'[n] \cup {cache'[n]}
                 /\ \A x \in watch'[n] \cup {cache'[n]} :
                        /\ api'[n].live /\ x.rv = api'[n].rv => x.live
                        /\ x.del => x.live /\ x.fin
      <3>1. CASE api[n].live
        <4>1. watch'[n] \cup {cache'[n]} = {api[n], Gone(0)}
          BY <2>1, <3>1
        <4>2. api[n].rv # 0
          BY <2>2, <3>1 DEF TypeOK, Objs
        <4>3. QED
          BY <2>1, <2>2, <2>3, <3>1, <4>1, <4>2
      <3>2. CASE ~api[n].live
        <4>1. watch'[n] \cup {cache'[n]} = {Gone(0)}
          BY <2>1, <3>2
        <4>2. QED
          BY <2>1, <2>2, <3>2, <4>1
      <3>3. QED
        BY <3>1, <3>2
    <2>5. QED
      BY <2>4 DEF NewestKnown, Known
  <1>7. CASE Crash
    <2>1. ~up' /\ api' = api /\ \A n \in Names : cache'[n] = Gone(0) /\ watch'[n] = {}
      BY <1>7 DEF Crash
    <2>2. /\ Gone(0).rv = 0 /\ ~Gone(0).del
          /\ \A n \in Names : api[n].live => api[n].rv > 0
      BY DEF Gone, OwnershipInv, RevisionsOrdered
    <2>3. QED
      BY <2>1, <2>2 DEF NewestKnown, Known
  <1>8. CASE UNCHANGED vars
    BY <1>1, <1>8 DEF vars, informerVars
  <1>9. QED
    BY <1>2, <1>3, <1>4, <1>5, <1>6, <1>7, <1>8, WritesKnown, DeliverKnown
       DEF Next, Worker, EnsureAction

\* Before ensureK8sResources has made anything there is nothing to say.
LEMMA NoProgressYet ==
    ASSUME pc' \in {"idle", "lookup", "addFinalizer", "configmap"} \cup DeleteSteps
    PROVE  EnsureProgress'
  BY DEF EnsureProgress, LastSteps, DeleteSteps

\* Another tool takes nothing away from the children kubeless made.
LEMMA ForeignElsewhere ==
    ASSUME TypeOK, NEW m \in Names, NEW j \in Kinds, CreateForeign(m, j)
    PROVE  \A n \in Names, k \in Kinds :
               /\ Owned(res[n][k]) => res'[n][k] = res[n][k]
               /\ ~Owned(res[n][k]) => ~Owned(res'[n][k])
  <1>1. res' = [res EXCEPT ![m][j] = Foreign] /\ res[m][j] = Absent
    BY DEF CreateForeign
  <1>2. /\ res'[m][j] = Foreign
        /\ \A n \in Names, k \in Kinds : n # m \/ k # j => res'[n][k] = res[n][k]
    BY <1>1, SMT DEF TypeOK
  <1>3. ~Owned(Foreign) /\ ~Owned(Absent)
    BY DEF Owned, Foreign, Absent
  <1>4. QED
    BY <1>1, <1>2, <1>3

\* A step that is not the worker's leaves its progress alone.
LEMMA ProgressKept ==
    ASSUME TypeOK, EnsureProgress, UNCHANGED <<pc, key, funcObj>>,
           \A n \in Names, k \in Kinds :
               /\ Owned(res[n][k]) => res'[n][k] = res[n][k]
               /\ ~Owned(res[n][k]) => ~Owned(res'[n][k])
    PROVE  EnsureProgress'
  <1>1. CASE pc \in {"idle", "lookup", "addFinalizer", "configmap"} \cup DeleteSteps
    BY <1>1, NoProgressYet
  <1>2. CASE pc \in EnsureSteps \ {"configmap"}
    <2>1. key \in Names
      BY <1>2 DEF TypeOK, EnsureSteps
    <2>2. /\ MadeNow("configmap") => MadeNow("configmap")'
          /\ MadeNow("service") => MadeNow("service")'
          /\ MadeNow("deployment") => MadeNow("deployment")'
          /\ ~Owned(res[key]["monitor"]) => ~Owned(res'[key]["monitor"])
      BY <2>1 DEF MadeNow, Kinds, Workload
    <2>3. QED
      BY <2>2 DEF EnsureProgress
  <1>3. QED
    BY <1>1, <1>2 DEF TypeOK, Steps

\* ensureK8sResources gets on: one child made, the others as they were.
LEMMA OneMoreMade ==
    ASSUME TypeOK, pc \in EnsureSteps, NEW j \in Kinds, NEW s,
           s.code = funcObj.spec.code, Put(j, Made(s)), UNCHANGED <<key, funcObj>>
    PROVE  /\ MadeNow(j)'
           /\ res'[key][j] = Made(s)
           /\ \A k \in Workload : MadeNow(k) => MadeNow(k)'
  <1>1. key \in Names
    BY DEF TypeOK, EnsureSteps
  <1>2. /\ res'[key][j] = Made(s)
        /\ \A k \in Kinds : k # j => res'[key][k] = res[key][k]
    BY <1>1, SMT DEF Put, TypeOK
  <1>3. Owned(Made(s)) /\ Made(s).spec.code = funcObj.spec.code
    BY DEF Owned, Made
  <1>4. QED
    BY <1>2, <1>3 DEF MadeNow, Kinds

\* The worker's own steps.
LEMMA EnsureProgresses ==
    ASSUME TypeOK, OwnershipInv, EnsureProgress, EnsureAction
    PROVE  EnsureProgress'
  <1>1. CASE pc' = "idle"
    BY <1>1, NoProgressYet
  <1>2. pc \in EnsureSteps /\ funcObj.spec \in Specs /\ key \in Names
    BY EnsureShape DEF TypeOK, Objs, EnsureSteps
  <1>3. ASSUME NEW step, Answered(step), pc' # "idle"
        PROVE  pc' = step /\ UNCHANGED <<key, funcObj>>
    BY <1>3 DEF Answered, EndItem, Goto
  <1>4. CASE EnsureFuncConfigMap /\ pc' # "idle"
    <2>1. Put("configmap", Made(funcObj.spec)) /\ Answered("service")
      BY <1>4 DEF EnsureFuncConfigMap, Refuse, EndItem
    <2>2. pc' = "service" /\ UNCHANGED <<key, funcObj>>
      BY <1>3, <1>4, <2>1
    <2>3. MadeNow("configmap")'
      BY <1>2, <2>1, <2>2, OneMoreMade DEF Kinds, Workload
    <2>4. QED
      BY <2>2, <2>3 DEF EnsureProgress, LastSteps
  <1>5. CASE EnsureFuncService /\ pc' # "idle"
    <2>1. PICK s : s = ServiceSpec(res[key]["service"])
      OBVIOUS
    <2>2. /\ pc = "service" /\ Put("service", Made(s))
          /\ Answered(IF EnableBuild THEN "image" ELSE "deployment")
      BY <1>5, <2>1 DEF EnsureFuncService, Refuse, EndItem
    <2>3. PICK step : step = IF EnableBuild THEN "image" ELSE "deployment"
      OBVIOUS
    <2>4. step \in {"image", "deployment"} /\ pc' = step /\ UNCHANGED <<key, funcObj>>
      BY <1>3, <1>5, <2>2, <2>3
    <2>5. s.code = funcObj.spec.code
      BY <1>2, <2>1 DEF ServiceSpec, Specs
    <2>6. MadeNow("service")' /\ (MadeNow("configmap") => MadeNow("configmap")')
      BY <1>2, <2>2, <2>4, <2>5, OneMoreMade DEF Kinds, Workload
    <2>7. QED
      BY <2>2, <2>4, <2>6 DEF EnsureProgress, LastSteps
  <1>6. CASE startImageBuildJob
    <2>1. /\ pc = "image" /\ pc' = "deployment" /\ UNCHANGED <<key, funcObj>>
          /\ res' = res \/ Put("job", Made(funcObj.spec))
      BY <1>6 DEF startImageBuildJob, EnsureFuncImage, Goto
    <2>2. /\ MadeNow("configmap") => MadeNow("configmap")'
          /\ MadeNow("service") => MadeNow("service")'
      <3>1. CASE res' = res
        BY <2>1, <3>1 DEF MadeNow
      <3>2. CASE Put("job", Made(funcObj.spec))
        BY <1>2, <2>1, <3>2, OneMoreMade DEF Kinds, Workload
      <3>3. QED
        BY <2>1, <3>1, <3>2
    <2>3. QED
      BY <2>1, <2>2 DEF EnsureProgress, LastSteps
  <1>7. CASE EnsureFuncDeployment /\ pc' # "idle"
    <2>1. PICK next : next = CASE funcObj.spec.hpa \in ObjectHPAs -> "monitor"
                               [] funcObj.spec.hpa \in PlainHPAs -> "autoscaler"
                               [] OTHER -> "dropMonitor"
      OBVIOUS
    <2>2. /\ pc = "deployment" /\ Put("deployment", Made(funcObj.spec))
          /\ pc' = next /\ UNCHANGED <<key, funcObj>>
      BY <1>7, <2>1 DEF EnsureFuncDeployment, Refuse, EndItem, Goto
    <2>3. /\ next \in {"monitor", "autoscaler", "dropMonitor"}
          /\ next \in {"monitor", "autoscaler"} => funcObj.spec.hpa # NoHPA
          /\ next = "dropMonitor" => funcObj.spec.hpa = NoHPA
      BY <1>2, <2>1, ControllerAssumption DEF Specs, HPAs
    <2>4. /\ MadeNow("deployment")'
          /\ MadeNow("configmap") => MadeNow("configmap")'
          /\ MadeNow("service") => MadeNow("service")'
      BY <1>2, <2>2, OneMoreMade DEF Kinds, Workload
    <2>5. QED
      BY <2>2, <2>3, <2>4 DEF EnsureProgress, LastSteps
  <1>8. CASE CreateServiceMonitor /\ pc' # "idle"
    <2>1. /\ pc = "monitor"
          /\ \/ Put("monitor", Made(funcObj.spec)) /\ Answered("autoscaler")
             \/ Goto("autoscaler") /\ res' = res
      BY <1>8 DEF CreateServiceMonitor, Refuse, EndItem
    <2>2. pc' = "autoscaler" /\ UNCHANGED <<key, funcObj>>
      BY <1>3, <1>8, <2>1 DEF Goto
    <2>3. /\ MadeNow("deployment") => MadeNow("deployment")'
          /\ MadeNow("configmap") => MadeNow("configmap")'
          /\ MadeNow("service") => MadeNow("service")'
      <3>1. CASE res' = res
        BY <2>2, <3>1 DEF MadeNow
      <3>2. CASE Put("monitor", Made(funcObj.spec))
        BY <1>2, <2>2, <3>2, OneMoreMade DEF Kinds, Workload
      <3>3. QED
        BY <2>1, <3>1, <3>2
    <2>4. QED
      BY <2>1, <2>2, <2>3 DEF EnsureProgress, LastSteps
  <1>9. CASE EnsureAutoscaler
    BY <1>1, <1>9 DEF EnsureAutoscaler, Answered, EndItem
  <1>10. QED
    BY <1>1, <1>4, <1>5, <1>6, <1>7, <1>8, <1>9 DEF EnsureAction

\* deleteAutoscale takes the monitor first and leaves the workload alone.
LEMMA DropProgresses ==
    ASSUME TypeOK, OwnershipInv, EnsureProgress, deleteAutoscale \/ deleteK8sResources
    PROVE  EnsureProgress'
  <1>1. CASE pc' \in {"idle"} \cup DeleteSteps
    BY <1>1, NoProgressYet
  <1>2. CASE deleteK8sResources
    BY <1>1, <1>2 DEF deleteK8sResources, DeleteStep, Answered, EndItem, Goto, DeleteSteps
  <1>3. CASE DeleteStep("dropAutoscaler", "autoscaler", "done")
    BY <1>1, <1>3 DEF DeleteStep, Answered, EndItem
  <1>4. CASE DeleteStep("dropMonitor", "monitor", "dropAutoscaler") /\ pc' # "idle"
    <2>1. /\ pc = "dropMonitor" /\ key \in Names /\ Put("monitor", Absent)
          /\ pc' = "dropAutoscaler" /\ UNCHANGED <<key, funcObj>>
      BY <1>4 DEF DeleteStep, Answered, EndItem, Goto, TypeOK
    <2>2. /\ res'[key]["monitor"] = Absent
          /\ \A k \in Workload : res'[key][k] = res[key][k]
      BY <2>1 DEF Put, TypeOK, Kinds, Workload
    <2>3. ~Owned(Absent)
      BY DEF Owned, Absent
    <2>4. /\ MadeNow("deployment") => MadeNow("deployment")'
          /\ MadeNow("configmap") => MadeNow("configmap")'
          /\ MadeNow("service") => MadeNow("service")'
      BY <2>1, <2>2 DEF MadeNow, Workload
    <2>5. QED
      BY <2>1, <2>2, <2>3, <2>4 DEF EnsureProgress, LastSteps
  <1>5. QED
    BY <1>1, <1>2, <1>3, <1>4 DEF deleteAutoscale

\* Every step.
LEMMA NextProgress == TypeOK /\ OwnershipInv /\ EnsureProgress /\ [Next]_vars => EnsureProgress'
  <1> SUFFICES ASSUME TypeOK, OwnershipInv, EnsureProgress, [Next]_vars PROVE EnsureProgress'
    OBVIOUS
  <1>1. CASE UNCHANGED <<pc, key, funcObj, res>>
    BY <1>1, ProgressKept
  <1>2. ASSUME NEW m \in Names, NEW j \in Kinds, CreateForeign(m, j) PROVE EnsureProgress'
    <2>1. UNCHANGED <<pc, key, funcObj>>
      BY <1>2 DEF CreateForeign, workerVars
    <2>2. \A n \in Names, k \in Kinds :
              /\ Owned(res[n][k]) => res'[n][k] = res[n][k]
              /\ ~Owned(res[n][k]) => ~Owned(res'[n][k])
      BY <1>2, ForeignElsewhere
    <2>3. QED
      BY <2>1, <2>2, ProgressKept
  <1>3. CASE Environment
    BY <1>1, <1>2, <1>3 DEF Environment, CreateFunction, UpdateFunction, DeleteFunction, workerVars
  <1>4. CASE \E n \in Names : Deliver(n) \/ Relist(n) \/ DelayExpires(n)
    BY <1>1, <1>4 DEF Deliver, Relist, DelayExpires, workerVars
  <1>5. CASE Start \/ UNCHANGED vars
    BY <1>1, <1>5 DEF Start, vars, workerVars
  <1>6. CASE GetItem \/ Crash \/ CallFails
    BY <1>6, NoProgressYet DEF GetItem, Crash, CallFails, EndItem
  <1>7. CASE LookUp
    <2>1. \/ EndItem(TRUE)
          \/ pc' = FirstStep(cache[key]) /\ FirstStep(cache[key]) # "done"
      BY <1>7 DEF LookUp
    <2>2. key \in Names /\ cache[key] \in Objs
      BY <1>7 DEF LookUp, TypeOK
    <2>3. FirstStep(cache[key]) \in {"done", "delDeployment", "addFinalizer", "configmap"}
      BY <2>2 DEF FirstStep, Objs
    <2>4. QED
      BY <2>1, <2>3, NoProgressYet DEF DeleteSteps, EndItem
  <1>8. CASE AddFinalizer \/ RemoveFinalizer
    <2>1. pc' \in {"idle", "configmap"}
      BY <1>8 DEF AddFinalizer, RemoveFinalizer, Answered, EndItem, Goto
    <2>2. QED
      BY <2>1, NoProgressYet
  <1>9. QED
    BY <1>3, <1>4, <1>5, <1>6, <1>7, <1>8, EnsureProgresses, DropProgresses
       DEF Next, Worker, EnsureAction

\* When the informer replaces an object, either the handler adds the key or nothing that
\* processItem would act upon has changed.
LEMMA ReplacedOrAdded ==
    ASSUME TypeOK, OwnershipInv, NEW n \in Names, Deliver(n) \/ Relist(n)
    PROVE  /\ UNCHANGED <<api, res, up, waiting, gaveUp, pc, key, funcObj>>
           /\ up
           /\ \A m \in Names \ {n} : cache'[m] = cache[m]
           /\ dirty \subseteq dirty'
           /\ \/ n \in dirty'
              \/ ~cache[n].live /\ ~cache'[n].live
              \/ /\ cache[n].live /\ cache'[n].live
                 /\ ~cache[n].del /\ ~cache'[n].del
                 /\ cache'[n].spec.code = cache[n].spec.code
                 /\ cache'[n].spec.hpa = cache[n].spec.hpa
  <1>1. /\ UNCHANGED <<api, res, up, waiting, gaveUp, pc, key, funcObj>>
        /\ up
    BY DEF Deliver, Relist
  <1>2. PICK obj \in Objs : Replace(n, obj) /\ (obj = cache[n] \/ obj.rv # cache[n].rv)
    <2>1. CASE Relist(n)
      BY <2>1 DEF Relist, TypeOK
    <2>2. CASE Deliver(n)
      <3>1. PICK obj \in watch[n] : Replace(n, obj)
        BY <2>2 DEF Deliver
      <3>2. obj \in Objs /\ cache[n].rv \in Nat /\ obj.rv \in Nat /\ cache[n].rv < obj.rv
        BY <3>1 DEF TypeOK, Objs, OwnershipInv, RevisionsOrdered
      <3>3. QED
        BY <3>1, <3>2
    <2>3. QED
      BY <2>1, <2>2
  <1>3. cache'[n] = obj /\ \A m \in Names \ {n} : cache'[m] = cache[m]
    BY <1>2 DEF Replace, TypeOK
  <1>4. CASE HandlerAdds(cache[n], obj, mutated[n])
    BY <1>1, <1>2, <1>3, <1>4 DEF Replace, Add
  <1>5. CASE ~HandlerAdds(cache[n], obj, mutated[n])
    <2>1. dirty' = dirty
      BY <1>2, <1>5 DEF Replace
    <2>2. \/ ~cache[n].live /\ ~obj.live
          \/ cache[n].live /\ obj.live /\ ~functionObjChanged(cache[n], obj, mutated[n])
      BY <1>5 DEF HandlerAdds, TypeOK, Objs
    <2>3. CASE cache[n].live /\ obj.live /\ ~functionObjChanged(cache[n], obj, mutated[n])
      <3>1. /\ ~cache[n].del /\ ~obj.del
            /\ cache[n].rv # obj.rv => /\ obj.spec.code = cache[n].spec.code
                                       /\ obj.spec.hpa = cache[n].spec.hpa
        BY <2>3 DEF functionObjChanged
      <3>2. QED
        BY <1>1, <1>2, <1>3, <2>1, <2>3, <3>1
    <2>4. QED
      BY <1>1, <1>3, <2>1, <2>2, <2>3
  <1>6. QED
    BY <1>4, <1>5

\* The worker's object stays as good as the store's, or its key is dirty.
LEMMA NextSnapshot ==
    TypeOK /\ OwnershipInv /\ SnapshotCurrent /\ [Next]_vars => SnapshotCurrent'
  <1> SUFFICES ASSUME TypeOK, OwnershipInv, SnapshotCurrent, [Next]_vars
               PROVE  SnapshotCurrent'
    OBVIOUS
  <1>1. CASE pc' \in {"idle", "lookup"}
    BY <1>1 DEF SnapshotCurrent
  <1>2. CASE UNCHANGED <<cache, dirty, key, funcObj>> /\ pc \notin {"idle", "lookup"}
    BY <1>2 DEF SnapshotCurrent
  <1>3. CASE UNCHANGED <<cache, dirty, key, funcObj, pc>>
    BY <1>3 DEF SnapshotCurrent
  <1>4. CASE Environment \/ Start \/ UNCHANGED vars
    BY <1>3, <1>4 DEF Environment, CreateFunction, UpdateFunction, DeleteFunction, CreateForeign,
                      Start, vars, queueVars, workerVars, informerVars
  <1>5. ASSUME NEW n \in Names, Deliver(n) \/ Relist(n) PROVE SnapshotCurrent'
    <2> SUFFICES ASSUME pc \notin {"idle", "lookup"}, key \notin dirty'
                 PROVE  /\ cache'[key].live
                        /\ cache'[key].del = funcObj.del
                        /\ ~funcObj.del => /\ cache'[key].spec.code = funcObj.spec.code
                                           /\ cache'[key].spec.hpa = funcObj.spec.hpa
      BY <1>5, ReplacedOrAdded DEF SnapshotCurrent
    <2>1. key \in Names /\ key \notin dirty
      BY <1>5, ReplacedOrAdded DEF TypeOK
    <2>2. /\ cache[key].live
          /\ cache[key].del = funcObj.del
          /\ ~funcObj.del => /\ cache[key].spec.code = funcObj.spec.code
                             /\ cache[key].spec.hpa = funcObj.spec.hpa
      BY <2>1 DEF SnapshotCurrent
    <2>3. CASE key = n
      <3>1. /\ cache'[key].live
            /\ ~cache[key].del /\ ~cache'[key].del
            /\ cache'[key].spec.code = cache[key].spec.code
            /\ cache'[key].spec.hpa = cache[key].spec.hpa
        BY <1>5, <2>2, <2>3, ReplacedOrAdded
      <3>2. cache'[key].del \in BOOLEAN /\ funcObj.del \in BOOLEAN /\ cache[key].del \in BOOLEAN
        BY <2>1, NextType DEF TypeOK, Objs
      <3>3. QED
        BY <2>2, <3>1, <3>2
    <2>4. CASE key # n
      BY <1>5, <2>1, <2>2, <2>4, ReplacedOrAdded
    <2>5. QED
      BY <2>3, <2>4
  <1>6. ASSUME NEW n \in Names, DelayExpires(n) PROVE SnapshotCurrent'
    BY <1>6 DEF DelayExpires, Add, informerVars, workerVars, SnapshotCurrent
  <1>7. CASE GetItem \/ Crash \/ CallFails
    BY <1>1, <1>7 DEF GetItem, Crash, CallFails, EndItem
  <1>8. CASE LookUp
    <2>1. CASE EndItem(TRUE)
      BY <1>1, <2>1 DEF EndItem
    <2>2. CASE /\ FirstStep(cache[key]) # "done"
               /\ funcObj' = cache[key] /\ cache' = cache /\ key' = key
      <3>1. key \in Names /\ cache[key] \in Objs
        BY <1>8 DEF LookUp, TypeOK
      <3>2. cache[key].live
        BY <2>2, <3>1 DEF FirstStep, Objs
      <3>3. QED
        BY <2>2, <3>2 DEF SnapshotCurrent
    <2>3. QED
      BY <1>8, <2>1, <2>2 DEF LookUp
  <1>9. ASSUME pc \notin {"idle", "lookup"}, cache' = cache,
               \/ \E ok \in BOOLEAN : EndItem(ok)
               \/ \E step : Goto(step)
        PROVE  SnapshotCurrent'
    BY <1>1, <1>2, <1>9 DEF EndItem, Goto, queueVars
  <1>10. CASE AddFinalizer \/ RemoveFinalizer
    BY <1>9, <1>10 DEF AddFinalizer, RemoveFinalizer, Answered
  <1>11. CASE EnsureAction
    <2>1. pc \notin {"idle", "lookup"} /\ cache' = cache
      BY <1>11, EnsureShape DEF ChildFrame, EnsureSteps
    <2>2. (\E ok \in BOOLEAN : EndItem(ok)) \/ (\E step : Goto(step))
      BY <1>11 DEF EnsureAction, EnsureFuncConfigMap, EnsureFuncService, startImageBuildJob,
                   EnsureFuncDeployment, CreateServiceMonitor, EnsureAutoscaler, Refuse, Answered
    <2>3. QED
      BY <1>9, <2>1, <2>2
  <1>12. CASE deleteAutoscale \/ deleteK8sResources
    <2>1. pc \notin {"idle", "lookup"} /\ cache' = cache
      BY <1>12 DEF deleteAutoscale, deleteK8sResources, DeleteStep, informerVars
    <2>2. (\E ok \in BOOLEAN : EndItem(ok)) \/ (\E step : Goto(step))
      BY <1>12 DEF deleteAutoscale, deleteK8sResources, DeleteStep, Answered
    <2>3. QED
      BY <1>9, <2>1, <2>2
  <1>13. QED
    BY <1>4, <1>5, <1>6, <1>7, <1>8, <1>10, <1>11, <1>12 DEF Next, Worker, EnsureAction

\* Deployed looks at nothing that functionObjChanged ignores.
LEMMA DeployedAlike ==
    ASSUME NEW c, NEW s, NEW t, s.code = t.code, s.hpa = t.hpa, Deployed(c, s)
    PROVE  Deployed(c, t)
  BY DEF Deployed

\* Another tool does not undo a deployment.
LEMMA ForeignDeployed ==
    ASSUME TypeOK, NEW m \in Names, NEW j \in Kinds, CreateForeign(m, j),
           NEW n \in Names, NEW s, Deployed(res[n], s)
    PROVE  Deployed(res'[n], s)
  <1>1. \A k \in Kinds : /\ Owned(res[n][k]) => res'[n][k] = res[n][k]
                         /\ ~Owned(res[n][k]) => ~Owned(res'[n][k])
    BY ForeignElsewhere
  <1>2. /\ \A k \in Workload : res'[n][k] = res[n][k]
        /\ Owned(res[n]["autoscaler"]) => res'[n]["autoscaler"] = res[n]["autoscaler"]
        /\ ~Owned(res[n]["autoscaler"]) => ~Owned(res'[n]["autoscaler"])
        /\ ~Owned(res[n]["monitor"]) => ~Owned(res'[n]["monitor"])
    BY <1>1 DEF Deployed, Kinds
  <1>3. QED
    BY <1>2 DEF Deployed

\* Users and other tools do not touch the queue, and what they write has a new
\* resourceVersion.
LEMMA EnvironmentHandled ==
    ASSUME TypeOK, OwnershipInv, Handled, Environment
    PROVE  Handled'
  <1>1. UNCHANGED <<up, key, dirty, waiting, gaveUp, cache>>
    BY DEF Environment, CreateFunction, UpdateFunction, DeleteFunction, CreateForeign,
           informerVars, queueVars, workerVars
  <1> SUFFICES ASSUME NEW n \in Names, up, key # n, n \notin dirty \cup waiting, ~gaveUp[n],
                      cache[n].live
               PROVE  DoneWith(cache[n], api'[n].rv, res'[n])
    BY <1>1 DEF Handled
  <1>2. DoneWith(cache[n], api[n].rv, res[n])
    BY DEF Handled
  <1>3. CASE cache[n].del
    <2>1. /\ api[n].rv \in Nat /\ cache[n].rv \in Nat /\ cache[n].rv <= api[n].rv
          /\ cache[n].rv # api[n].rv
      BY <1>2, <1>3 DEF TypeOK, Objs, OwnershipInv, RevisionsOrdered, DoneWith
    <2>2. api'[n].rv = api[n].rv \/ api'[n].rv = api[n].rv + 1
      <3>1. CASE api' = api
        BY <3>1
      <3>2. ASSUME NEW m \in Names, NEW obj \in Objs, Store(m, obj), obj.rv = api[m].rv + 1
            PROVE  api'[n].rv = api[n].rv \/ api'[n].rv = api[n].rv + 1
        BY <3>2 DEF Store, TypeOK
      <3>3. QED
        BY <3>1, <3>2, Writes
    <2>3. cache[n].rv # api'[n].rv
      BY <2>1, <2>2
    <2>4. QED
      BY <1>3, <2>3 DEF DoneWith
  <1>4. CASE ~cache[n].del
    <2>1. PICK s : s = cache[n].spec
      OBVIOUS
    <2>2. Deployed(res[n], s)
      BY <1>2, <1>4, <2>1 DEF DoneWith
    <2>3. ASSUME NEW m \in Names, NEW j \in Kinds, CreateForeign(m, j)
          PROVE  Deployed(res'[n], s)
      BY <2>2, <2>3, ForeignDeployed
    <2>4. Deployed(res'[n], s)
      BY <2>2, <2>3 DEF Environment, CreateFunction, UpdateFunction, DeleteFunction
    <2>5. QED
      BY <1>4, <2>1, <2>4 DEF DoneWith
  <1>5. QED
    BY <1>3, <1>4

\* The informer's handlers add every key whose object has changed in what counts.
LEMMA InformerHandled ==
    ASSUME TypeOK, OwnershipInv, Handled, NEW m \in Names, Deliver(m) \/ Relist(m)
    PROVE  Handled'
  <1>1. /\ UNCHANGED <<api, res, up, waiting, gaveUp, key>> /\ up
        /\ \A n \in Names \ {m} : cache'[n] = cache[n]
        /\ dirty \subseteq dirty'
    BY ReplacedOrAdded
  <1> SUFFICES ASSUME NEW n \in Names, key # n, n \notin dirty' \cup waiting, ~gaveUp[n],
                      cache'[n].live
               PROVE  DoneWith(cache'[n], api[n].rv, res[n])
    BY <1>1 DEF Handled
  <1>2. n \notin dirty \cup waiting
    BY <1>1
  <1>3. CASE n # m
    BY <1>1, <1>2, <1>3 DEF Handled
  <1>4. CASE n = m
    <2>1. /\ cache[n].live /\ ~cache[n].del /\ ~cache'[n].del
          /\ cache'[n].spec.code = cache[n].spec.code
          /\ cache'[n].spec.hpa = cache[n].spec.hpa
      BY <1>4, ReplacedOrAdded
    <2>2. Deployed(res[n], cache[n].spec)
      BY <1>1, <1>2, <2>1 DEF Handled, DoneWith
    <2>3. Deployed(res[n], cache'[n].spec)
      BY <2>1, <2>2, DeployedAlike
    <2>4. QED
      BY <2>1, <2>3 DEF DoneWith
  <1>5. QED
    BY <1>3, <1>4

\* The worker disturbs no function but its own, keeps its key, has it retried or given up
\* after an error, and is done with it when it ends without one.
LEMMA WorkerHandled ==
    ASSUME TypeOK, Handled, key \in Names, UNCHANGED <<up, cache>>,
           \A n \in Names \ {key} : api'[n].rv = api[n].rv /\ res'[n] = res[n],
           \/ UNCHANGED <<key, queueVars>>
           \/ EndItem(FALSE)
           \/ /\ EndItem(TRUE)
              /\ key \notin dirty /\ cache[key].live =>
                     DoneWith(cache[key], api'[key].rv, res'[key])
    PROVE  Handled'
  <1> SUFFICES ASSUME NEW n \in Names, up, key' # n, n \notin dirty' \cup waiting', ~gaveUp'[n],
                      cache[n].live
               PROVE  DoneWith(cache[n], api'[n].rv, res'[n])
    BY DEF Handled
  <1>1. CASE UNCHANGED <<key, queueVars>>
    BY <1>1 DEF Handled, queueVars
  <1>2. ASSUME NEW ok \in BOOLEAN, EndItem(ok)
        PROVE  /\ n \notin dirty
               /\ n # key => n \notin waiting /\ ~gaveUp[n]
               /\ ~ok => n # key
    BY <1>2 DEF EndItem, TypeOK
  <1>3. CASE n # key
    BY <1>1, <1>2, <1>3 DEF Handled
  <1>4. CASE n = key
    BY <1>1, <1>2, <1>4
  <1>5. QED
    BY <1>3, <1>4

\* A worker step changes the children of its own function only.
LEMMA OthersKept ==
    ASSUME TypeOK, key \in Names,
           \/ res' = res
           \/ MakesOne
           \/ \E k \in Kinds : res' = [res EXCEPT ![key][k] = Absent]
    PROVE  \A n \in Names \ {key} : res'[n] = res[n]
  BY DEF MakesOne, TypeOK

\* When ensureK8sResources returns without an error, it has deployed what the store holds.
LEMMA EnsuredIsDeployed ==
    ASSUME TypeOK, OwnershipInv, SnapshotCurrent, EnsureProgress, key \notin dirty,
           \/ pc = "autoscaler" /\ Put("autoscaler", Made(funcObj.spec))
           \/ pc = "dropAutoscaler" /\ Put("autoscaler", Absent)
    PROVE  DoneWith(cache[key], api[key].rv, res'[key])
  <1>1. key \in Names /\ pc \in EnsureSteps
    BY DEF TypeOK, EnsureSteps
  <1>2. ~funcObj.del
    BY <1>1 DEF OwnershipInv, SnapshotOld, EnsureSteps, DeleteSteps
  <1>3. /\ ~cache[key].del
        /\ cache[key].spec.code = funcObj.spec.code
        /\ cache[key].spec.hpa = funcObj.spec.hpa
    BY <1>1, <1>2 DEF SnapshotCurrent, EnsureSteps, TypeOK, Objs
  <1>4. \A k \in Workload : Owned(res[key][k]) /\ res[key][k].spec.code = funcObj.spec.code
    BY DEF EnsureProgress, LastSteps, MadeNow, Workload
  <1>5. /\ \A k \in Workload : res'[key][k] = res[key][k]
        /\ res'[key]["monitor"] = res[key]["monitor"]
    BY <1>1, SMT DEF Put, TypeOK, Kinds, Workload
  <1>6. CASE pc = "autoscaler" /\ Put("autoscaler", Made(funcObj.spec))
    <2>1. res'[key]["autoscaler"] = Made(funcObj.spec) /\ funcObj.spec.hpa # NoHPA
      BY <1>1, <1>6, SMT DEF Put, TypeOK, Kinds, Workload, EnsureProgress
    <2>2. Owned(Made(funcObj.spec)) /\ Made(funcObj.spec).spec.hpa = funcObj.spec.hpa
      BY DEF Owned, Made
    <2>3. Deployed(res'[key], funcObj.spec)
      BY <1>4, <1>5, <2>1, <2>2 DEF Deployed
    <2>4. QED
      BY <1>3, <2>3, DeployedAlike DEF DoneWith
  <1>7. CASE pc = "dropAutoscaler" /\ Put("autoscaler", Absent)
    <2>1. /\ res'[key]["autoscaler"] = Absent /\ funcObj.spec.hpa = NoHPA
          /\ ~Owned(res[key]["monitor"])
      BY <1>1, <1>7, SMT DEF Put, TypeOK, Kinds, Workload, EnsureProgress
    <2>2. ~Owned(Absent)
      BY DEF Owned, Absent
    <2>3. Deployed(res'[key], funcObj.spec)
      BY <1>4, <1>5, <2>1, <2>2 DEF Deployed
    <2>4. QED
      BY <1>3, <2>3, DeployedAlike DEF DoneWith
  <1>8. QED
    BY <1>6, <1>7

\* The steps that work on children.
LEMMA ChildHandled ==
    ASSUME TypeOK, OwnershipInv, Handled, SnapshotCurrent, EnsureProgress,
           EnsureAction \/ deleteAutoscale \/ deleteK8sResources
    PROVE  Handled'
  <1>1. /\ UNCHANGED <<api, up, cache>> /\ key \in Names
        /\ \A n \in Names \ {key} : res'[n] = res[n]
    <2>1. CASE EnsureAction
      <3>1. key \in Names
        BY <2>1, EnsureShape DEF TypeOK, EnsureSteps
      <3>2. QED
        BY <2>1, <3>1, EnsureShape, OthersKept DEF ChildFrame
    <2>2. CASE deleteAutoscale \/ deleteK8sResources
      <3>1. key \in Names
        BY <2>2, DeletesShape DEF TypeOK
      <3>2. QED
        BY <2>2, <3>1, DeletesShape, OthersKept DEF ChildFrame
    <2>3. QED
      BY <2>1, <2>2
  <1>2. CASE EndItem(FALSE) \/ \E step : Goto(step)
    BY <1>1, <1>2, WorkerHandled DEF Goto
  <1>3. ASSUME EndItem(TRUE),
               \/ pc = "autoscaler" /\ Put("autoscaler", Made(funcObj.spec))
               \/ pc = "dropAutoscaler" /\ Put("autoscaler", Absent)
        PROVE  Handled'
    <2>1. key \notin dirty => DoneWith(cache[key], api'[key].rv, res'[key])
      BY <1>1, <1>3, EnsuredIsDeployed
    <2>2. QED
      BY <1>1, <1>3, <2>1, WorkerHandled
  <1>4. CASE EnsureAction /\ ~EnsureAutoscaler
    BY <1>2, <1>4 DEF EnsureAction, EnsureFuncConfigMap, EnsureFuncService, startImageBuildJob,
                      EnsureFuncDeployment, CreateServiceMonitor, Refuse, Answered
  <1>5. CASE EnsureAutoscaler
    BY <1>2, <1>3, <1>5 DEF EnsureAutoscaler, Answered
  <1>6. CASE deleteAutoscale \/ deleteK8sResources
    BY <1>2, <1>3, <1>6 DEF deleteAutoscale, deleteK8sResources, DeleteStep, Answered
  <1>7. QED
    BY <1>4, <1>5, <1>6

\* The two Update calls on the Function itself.
LEMMA FinalizerHandled ==
    ASSUME TypeOK, OwnershipInv, Handled, AddFinalizer \/ RemoveFinalizer
    PROVE  Handled'
  <1>1. key \in Names /\ UNCHANGED <<up, cache, res>>
    BY DEF AddFinalizer, RemoveFinalizer, TypeOK
  <1>2. \A n \in Names \ {key} : api'[n].rv = api[n].rv
    BY <1>1 DEF AddFinalizer, RemoveFinalizer, Store, TypeOK
  <1>3. CASE EndItem(FALSE) \/ \E step : Goto(step)
    BY <1>1, <1>2, <1>3, WorkerHandled DEF Goto
  <1>4. ASSUME RemoveFinalizer, EndItem(TRUE), funcObj.rv = api[key].rv,
               Store(key, Gone(api[key].rv + 1))
        PROVE  Handled'
    <2>1. api'[key].rv = api[key].rv + 1
      BY <1>1, <1>4 DEF Store, Gone, TypeOK
    <2>2. /\ cache[key].live => cache[key] = api[key]
          /\ api[key].del
      BY <1>4, AcceptedIsNewest DEF RemoveFinalizer, Known
    <2>3. api[key].rv \in Nat
      BY <1>1 DEF TypeOK, Objs
    <2>4. cache[key].live => DoneWith(cache[key], api'[key].rv, res'[key])
      BY <2>1, <2>2, <2>3 DEF DoneWith
    <2>5. QED
      BY <1>1, <1>2, <1>4, <2>4, WorkerHandled
  <1>5. CASE AddFinalizer
    BY <1>3, <1>5 DEF AddFinalizer
  <1>6. CASE RemoveFinalizer
    BY <1>3, <1>4, <1>6 DEF RemoveFinalizer, Answered
  <1>7. QED
    BY <1>5, <1>6

\* Every step.
LEMMA NextHandled ==
    TypeOK /\ OwnershipInv /\ ConvergenceInv /\ [Next]_vars => Handled'
  <1> SUFFICES ASSUME TypeOK, OwnershipInv, ConvergenceInv, [Next]_vars PROVE Handled'
    OBVIOUS
  <1>1. NewestKnown /\ Handled /\ SnapshotCurrent /\ EnsureProgress
    BY DEF ConvergenceInv
  <1>2. ASSUME NEW m \in Names, DelayExpires(m) PROVE Handled'
    <2>1. /\ UNCHANGED <<api, res, up, cache, key, gaveUp>>
          /\ dirty' = dirty \cup {m} /\ waiting' = waiting \ {m}
      BY <1>2 DEF DelayExpires, Add, informerVars, workerVars
    <2>2. QED
      BY <1>1, <2>1 DEF Handled
  <1>3. CASE GetItem
    <2>1. /\ UNCHANGED <<api, res, up, cache, waiting, gaveUp>>
          /\ dirty' = dirty \ {key'} /\ key = NoKey
      BY <1>3 DEF GetItem, informerVars, TypeOK
    <2>2. \A n \in Names : key # n
      BY <2>1, ControllerAssumption
    <2>3. QED
      BY <1>1, <2>1, <2>2 DEF Handled
  <1>4. CASE LookUp
    <2>1. /\ key \in Names /\ UNCHANGED <<api, res, up, cache>>
      BY <1>4 DEF LookUp, TypeOK
    <2>2. CASE UNCHANGED <<key, queueVars>>
      BY <1>1, <2>1, <2>2, WorkerHandled
    <2>3. CASE FirstStep(cache[key]) = "done" /\ EndItem(TRUE)
      <3>1. cache[key] \in Objs /\ (cache[key].del => cache[key].live /\ cache[key].fin)
        BY <1>1, <2>1 DEF TypeOK, NewestKnown, Known
      <3>2. ~cache[key].live
        BY <2>3, <3>1 DEF FirstStep, Objs
      <3>3. QED
        BY <1>1, <2>1, <2>3, <3>2, WorkerHandled
    <2>4. QED
      BY <1>4, <2>2, <2>3 DEF LookUp
  <1>5. CASE CallFails
    <2>1. /\ key \in Names /\ UNCHANGED <<api, res, up, cache>> /\ EndItem(FALSE)
      BY <1>5 DEF CallFails, informerVars, TypeOK, EnsureSteps, DeleteSteps
    <2>2. QED
      BY <1>1, <2>1, WorkerHandled
  <1>6. CASE Start
    BY <1>6 DEF Start, OwnershipInv, DownIsEmpty, Handled, Gone
  <1>7. CASE Crash
    BY <1>7 DEF Crash, Handled
  <1>8. CASE UNCHANGED vars
    BY <1>1, <1>8 DEF vars, informerVars, queueVars, workerVars, Handled
  <1>9. CASE Environment
    BY <1>1, <1>9, EnvironmentHandled
  <1>10. CASE \E m \in Names : Deliver(m) \/ Relist(m)
    BY <1>1, <1>10, InformerHandled
  <1>11. CASE EnsureAction \/ deleteAutoscale \/ deleteK8sResources
    BY <1>1, <1>11, ChildHandled
  <1>12. CASE AddFinalizer \/ RemoveFinalizer
    BY <1>1, <1>12, FinalizerHandled
  <1>13. QED
    BY <1>2, <1>3, <1>4, <1>5, <1>6, <1>7, <1>8, <1>9, <1>10, <1>11, <1>12
       DEF Next, Worker, EnsureAction

\* When the controller is at rest and has not given up, what it deployed is the current spec:
\* whatever events functionObjChanged drops, deliveries it overtakes, calls that fail,
\* restarts and deletions come before.
THEOREM ConvergedTheorem == Spec => []Converged
  <1>1. Init => ConvergenceInv
    <2> SUFFICES ASSUME Init PROVE ConvergenceInv
      OBVIOUS
    <2>1. ~up /\ pc = "idle"
          /\ \A n \in Names : api[n] = Gone(0) /\ cache[n] = Gone(0) /\ watch[n] = {}
      BY DEF Init
    <2>2. ~Gone(0).live /\ ~Gone(0).del
      BY DEF Gone
    <2>3. QED
      BY <2>1, <2>2 DEF ConvergenceInv, NewestKnown, Known, Handled, SnapshotCurrent,
                        EnsureProgress, LastSteps
  <1>2. TypeOK /\ OwnershipInv /\ ConvergenceInv /\ [Next]_vars => ConvergenceInv'
    BY NextKnown, NextHandled, NextSnapshot, NextProgress DEF ConvergenceInv
  <1>3. TypeOK /\ OwnershipInv /\ ConvergenceInv => Converged
    <2> SUFFICES ASSUME TypeOK, ConvergenceInv, NEW n \in Names, Settled(n), ~gaveUp[n],
                        api[n].live
                 PROVE  /\ ~api[n].del
                        /\ \A k \in Workload : Follows(n, k, "code")
                        /\ IF api[n].spec.hpa = NoHPA
                               THEN ~Owned(res[n]["autoscaler"]) /\ ~Owned(res[n]["monitor"])
                               ELSE Follows(n, "autoscaler", "hpa")
      BY DEF Converged
    <2>1. cache[n] = api[n]
      BY DEF Settled, ConvergenceInv, NewestKnown, Known
    <2>2. DoneWith(api[n], api[n].rv, res[n])
      BY <2>1 DEF Settled, ConvergenceInv, Handled
    <2>3. ~api[n].del /\ Deployed(res[n], api[n].spec)
      BY <2>2 DEF DoneWith
    <2>4. QED
      BY <2>3 DEF Deployed, Follows
  <1>4. QED
    BY <1>1, <1>2, <1>3, TypeCorrect, OwnershipInvariant, PTL DEF Spec


-----------------------------------------------------------------------------
(* The controller implements the life of a function that FunctionLifecycle *)
(* states: every step of FunctionController is a step of the lifecycle or  *)
(* leaves phase and owned as they are.                                     *)

\* What a step may do to the stored revision old of a function, owned being
\* the kinds of objects kubeless has made for it.
Created(old, new) == ~old.live /\ new.live /\ ~new.fin /\ ~new.del

Withdrawn(old, new) == old.live /\ ~old.fin /\ ~old.del /\ ~new.live

Respecified(old, new) ==
    old.live /\ new.live /\ new.fin = old.fin /\ new.del = old.del

Marked(old, new) ==
    old.live /\ old.fin /\ ~old.del /\ new.live /\ new.fin /\ new.del

Protected(old, new) ==
    old.live /\ ~old.del /\ new.live /\ new.fin /\ ~new.del

Finished(n, old, new) ==
    old.live /\ old.del /\ ~new.live /\ \A k \in Kinds : ~Owned(res[n][k])

Rewrites(n, new) ==
    \/ Created(api[n], new)
    \/ Withdrawn(api[n], new)
    \/ Respecified(api[n], new)
    \/ Marked(api[n], new)
    \/ Protected(api[n], new)
    \/ Finished(n, api[n], new)

FunctionStep ==
    /\ res' = res
    /\ \/ api' = api
       \/ \E n \in Names, obj \in Objs :
              api' = [api EXCEPT ![n] = obj] /\ Rewrites(n, obj)

\* A user's operation is one of the rewrites.
LEMMA UserFunctionStep ==
    ASSUME TypeOK, OwnershipInv, NEW n \in Names,
           \/ \E s \in Specs : CreateFunction(n, s) \/ UpdateFunction(n, s)
           \/ DeleteFunction(n)
    PROVE  FunctionStep
  <1>0. api[n] \in Objs /\ res' = res
    BY DEF TypeOK, CreateFunction, UpdateFunction, DeleteFunction
  <1>1. ASSUME NEW s \in Specs, CreateFunction(n, s)
        PROVE  FunctionStep
    <2> DEFINE obj == [live |-> TRUE, uid |-> api[n].rv + 1,
                       rv |-> api[n].rv + 1, fin |-> FALSE, del |-> FALSE,
                       spec |-> s]
    <2>1. obj \in Objs
      BY <1>0 DEF Objs
    <2>2. ~api[n].live /\ api' = [api EXCEPT ![n] = obj]
      BY <1>1 DEF CreateFunction, Store
    <2>3. Rewrites(n, obj)
      BY <2>2 DEF Rewrites, Created
    <2>4. QED
      BY <1>0, <2>1, <2>2, <2>3 DEF FunctionStep
  <1>2. ASSUME NEW s \in Specs, UpdateFunction(n, s)
        PROVE  FunctionStep
    <2> DEFINE obj == [api[n] EXCEPT !.rv = @ + 1, !.spec = s]
    <2>1. obj \in Objs
      BY <1>0, RevisionType
    <2>2. api[n].live /\ api' = [api EXCEPT ![n] = obj]
      BY <1>2 DEF UpdateFunction, Store
    <2>3. obj.live = api[n].live /\ obj.fin = api[n].fin /\ obj.del = api[n].del
      BY <1>0 DEF Objs
    <2>4. Rewrites(n, obj)
      BY <2>2, <2>3 DEF Rewrites, Respecified
    <2>5. QED
      BY <1>0, <2>1, <2>2, <2>4 DEF FunctionStep
  <1>3. CASE DeleteFunction(n) /\ api[n].fin
    <2> DEFINE obj == [api[n] EXCEPT !.rv = @ + 1, !.del = TRUE]
    <2>1. obj \in Objs
      BY <1>0, RevisionType
    <2>2. api[n].live /\ ~api[n].del /\ api' = [api EXCEPT ![n] = obj]
      BY <1>3 DEF DeleteFunction, Store
    <2>3. obj.live = api[n].live /\ obj.fin = api[n].fin /\ obj.del
      BY <1>0 DEF Objs
    <2>4. Rewrites(n, obj)
      BY <1>3, <2>2, <2>3 DEF Rewrites, Marked
    <2>5. QED
      BY <1>0, <2>1, <2>2, <2>4 DEF FunctionStep
  <1>4. CASE DeleteFunction(n) /\ ~api[n].fin
    <2> DEFINE obj == Gone(api[n].rv + 1)
    <2>1. obj \in Objs
      BY <1>0, RevisionType
    <2>2. api[n].live /\ ~api[n].del /\ api' = [api EXCEPT ![n] = obj]
      BY <1>4 DEF DeleteFunction, Store
    <2>3. Rewrites(n, obj)
      BY <1>4, <2>2 DEF Rewrites, Withdrawn, Gone
    <2>4. QED
      BY <1>0, <2>1, <2>2, <2>3 DEF FunctionStep
  <1>5. QED
    BY <1>1, <1>2, <1>3, <1>4

\* So are the controller's two Updates: only the newest, unmarked revision
\* gets the finalizer, and it is taken off when nothing is owned any more.
LEMMA FinalizerFunctionStep ==
    ASSUME TypeOK, OwnershipInv, AddFinalizer \/ RemoveFinalizer
    PROVE  FunctionStep
  <1>0. res' = res /\ pc # "idle"
    BY DEF AddFinalizer, RemoveFinalizer
  <1>1. CASE funcObj.rv # api[key].rv
    BY <1>0, <1>1 DEF AddFinalizer, RemoveFinalizer, FunctionStep
  <1>2. CASE AddFinalizer /\ funcObj.rv = api[key].rv
    <2>1. pc = "addFinalizer" /\ pc # "removeFinalizer"
      BY <1>2 DEF AddFinalizer
    <2>2. key \in Names /\ api[key].live /\ ~api[key].del /\ api[key] \in Objs
      BY <1>2, <2>1, AcceptedIsNewest DEF TypeOK
    <2> DEFINE obj == [api[key] EXCEPT !.rv = @ + 1, !.fin = TRUE]
    <2>3. obj \in Objs
      BY <2>2, RevisionType
    <2>4. api' = [api EXCEPT ![key] = obj]
      BY <1>2 DEF AddFinalizer, Store
    <2>5. obj.live = api[key].live /\ obj.fin /\ obj.del = api[key].del
      BY <2>2 DEF Objs
    <2>6. Rewrites(key, obj)
      BY <2>2, <2>5 DEF Rewrites, Protected
    <2>7. QED
      BY <1>0, <2>2, <2>3, <2>4, <2>6 DEF FunctionStep
  <1>3. CASE RemoveFinalizer /\ funcObj.rv = api[key].rv
    <2>1. pc = "removeFinalizer"
      BY <1>3 DEF RemoveFinalizer
    <2>2. key \in Names /\ api[key].live /\ api[key].del /\ api[key] \in Objs
      BY <1>3, <2>1, AcceptedIsNewest DEF TypeOK
    <2>3. \A k \in Kinds : ~Owned(res[key][k])
      BY <2>1 DEF OwnershipInv, DeletingMarked, DeleteSteps
    <2>4. Gone(api[key].rv + 1) \in Objs
      BY <2>2, RevisionType
    <2>5. api' = [api EXCEPT ![key] = Gone(api[key].rv + 1)]
      BY <1>3 DEF RemoveFinalizer, Store
    <2>6. Rewrites(key, Gone(api[key].rv + 1))
      BY <2>2, <2>3 DEF Rewrites, Finished, Gone
    <2>7. QED
      BY <1>0, <2>2, <2>4, <2>5, <2>6 DEF FunctionStep
  <1>4. QED
    BY <1>1, <1>2, <1>3

\* A step that leaves the children alone rewrites at most one Function.
LEMMA FunctionSteps ==
    ASSUME TypeOK, OwnershipInv, Next
    PROVE  FunctionStep \/ api' = api
  <1>1. CASE \E n \in Names, s \in Specs :
                CreateFunction(n, s) \/ UpdateFunction(n, s)
    BY <1>1, UserFunctionStep
  <1>2. CASE \E n \in Names : DeleteFunction(n)
    BY <1>2, UserFunctionStep
  <1>3. CASE AddFinalizer \/ RemoveFinalizer
    BY <1>3, FinalizerFunctionStep
  <1>4. CASE \E n \in Names : Deliver(n) \/ Relist(n) \/ DelayExpires(n)
    BY <1>4 DEF Deliver, Relist, DelayExpires
  <1>5. CASE \E n \in Names, k \in Kinds : CreateForeign(n, k)
    BY <1>5 DEF CreateForeign
  <1>6. CASE GetItem \/ LookUp \/ CallFails \/ Start \/ Crash
    BY <1>6 DEF GetItem, LookUp, CallFails, Start, Crash
  <1>7. CASE EnsureAction
    BY <1>7, EnsureShape DEF ChildFrame
  <1>8. CASE deleteAutoscale \/ deleteK8sResources
    BY <1>8, DeletesShape DEF ChildFrame
  <1>9. QED
    BY <1>1, <1>2, <1>3, <1>4, <1>5, <1>6, <1>7, <1>8
       DEF Next, Environment, Worker, EnsureAction

-----------------------------------------------------------------------------
(* The steps as the lifecycle sees them.                                   *)

\* The phase of a revision, field by field.
LEMMA PhaseFacts ==
    ASSUME NEW obj \in Objs
    PROVE  /\ ~obj.live => PhaseOf(obj) = "absent"
           /\ obj.live /\ obj.del => PhaseOf(obj) = "terminating"
           /\ obj.live /\ ~obj.del /\ obj.fin => PhaseOf(obj) = "protected"
           /\ obj.live /\ ~obj.del /\ ~obj.fin => PhaseOf(obj) = "fresh"
  BY DEF PhaseOf, Objs

\* A rewritten Function moves as the lifecycle allows, or does not move.
LEMMA RewriteMoves ==
    ASSUME TypeOK, FunctionStep
    PROVE  [Lifecycle!Next]_(Lifecycle!lifecycleVars)
  <1>1. lifecycleOwned' = lifecycleOwned
    BY DEF FunctionStep, lifecycleOwned
  <1>2. CASE api' = api
    <2>1. lifecyclePhase' = lifecyclePhase
      BY <1>2 DEF lifecyclePhase
    <2>2. QED
      BY <1>1, <2>1 DEF Lifecycle!lifecycleVars
  <1>3. ASSUME NEW n \in Names, NEW obj \in Objs,
               api' = [api EXCEPT ![n] = obj], Rewrites(n, obj)
        PROVE  [Lifecycle!Next]_(Lifecycle!lifecycleVars)
    <2>1. api[n] \in Objs
      BY DEF TypeOK
    <2>2. lifecyclePhase' = [lifecyclePhase EXCEPT ![n] = PhaseOf(obj)]
      BY <1>3 DEF lifecyclePhase, TypeOK
    <2>3. lifecyclePhase[n] = PhaseOf(api[n])
      BY DEF lifecyclePhase
    <2>4. CASE PhaseOf(obj) = PhaseOf(api[n])
      <3>1. lifecyclePhase' = lifecyclePhase
        BY <2>2, <2>3, <2>4 DEF lifecyclePhase
      <3>2. QED
        BY <1>1, <3>1 DEF Lifecycle!lifecycleVars
    <2>5. CASE Created(api[n], obj)
      <3>1. PhaseOf(api[n]) = "absent" /\ PhaseOf(obj) = "fresh"
        BY <2>1, <2>5, PhaseFacts DEF Created
      <3>2. Lifecycle!Create(n)
        BY <1>1, <2>2, <2>3, <3>1 DEF Lifecycle!Create, Lifecycle!Move
      <3>3. QED
        BY <3>2 DEF Lifecycle!Next
    <2>6. CASE Withdrawn(api[n], obj)
      <3>1. PhaseOf(api[n]) = "fresh" /\ PhaseOf(obj) = "absent"
        BY <2>1, <2>6, PhaseFacts DEF Withdrawn
      <3>2. Lifecycle!Withdraw(n)
        BY <1>1, <2>2, <2>3, <3>1 DEF Lifecycle!Withdraw, Lifecycle!Move
      <3>3. QED
        BY <3>2 DEF Lifecycle!Next
    <2>7. CASE Respecified(api[n], obj)
      <3>1. PhaseOf(obj) = PhaseOf(api[n])
        BY <2>1, <2>7, PhaseFacts DEF Respecified
      <3>2. QED
        BY <2>4, <3>1
    <2>8. CASE Marked(api[n], obj)
      <3>1. PhaseOf(api[n]) = "protected" /\ PhaseOf(obj) = "terminating"
        BY <2>1, <2>8, PhaseFacts DEF Marked
      <3>2. Lifecycle!MarkDeleted(n)
        BY <1>1, <2>2, <2>3, <3>1 DEF Lifecycle!MarkDeleted, Lifecycle!Move
      <3>3. QED
        BY <3>2 DEF Lifecycle!Next
    <2>9. CASE Protected(api[n], obj)
      <3>1. PhaseOf(obj) = "protected"
        BY <2>9, PhaseFacts DEF Protected
      <3>2. PhaseOf(api[n]) = "fresh" \/ PhaseOf(api[n]) = "protected"
        BY <2>1, <2>9, PhaseFacts DEF Protected
      <3>3. CASE PhaseOf(api[n]) = "fresh"
        <4>1. Lifecycle!Protect(n)
          BY <1>1, <2>2, <2>3, <3>1, <3>3 DEF Lifecycle!Protect, Lifecycle!Move
        <4>2. QED
          BY <4>1 DEF Lifecycle!Next
      <3>4. QED
        BY <2>4, <3>1, <3>2, <3>3
    <2>10. CASE Finished(n, api[n], obj)
      <3>1. PhaseOf(api[n]) = "terminating" /\ PhaseOf(obj) = "absent"
        BY <2>1, <2>10, PhaseFacts DEF Finished
      <3>2. lifecycleOwned[n] = {}
        BY <2>10 DEF Finished, lifecycleOwned
      <3>3. Lifecycle!Finish(n)
        BY <1>1, <2>2, <2>3, <3>1, <3>2 DEF Lifecycle!Finish, Lifecycle!Move
      <3>4. QED
        BY <3>3 DEF Lifecycle!Next
    <2>11. QED
      BY <1>3, <2>5, <2>6, <2>7, <2>8, <2>9, <2>10 DEF Rewrites
  <1>4. QED
    BY <1>2, <1>3 DEF FunctionStep

\* What one changed child does to the set of owned kinds.
LEMMA OwnedAfter ==
    ASSUME TypeOK, NEW m \in Names, NEW j \in Kinds, NEW child,
           res' = [res EXCEPT ![m][j] = child]
    PROVE  /\ Owned(child) =>
                lifecycleOwned' = [lifecycleOwned EXCEPT ![m] = @ \cup {j}]
           /\ ~Owned(child) =>
                lifecycleOwned' = [lifecycleOwned EXCEPT ![m] = @ \ {j}]
  <1>1. /\ res'[m][j] = child
        /\ \A n \in Names, k \in Kinds :
               n # m \/ k # j => res'[n][k] = res[n][k]
    BY DEF TypeOK
  <1>2. CASE Owned(child)
    <2>1. \A n \in Names : lifecycleOwned'[n] =
              [lifecycleOwned EXCEPT ![m] = @ \cup {j}][n]
      BY <1>1, <1>2 DEF lifecycleOwned
    <2>2. QED
      BY <1>2, <2>1 DEF lifecycleOwned
  <1>3. CASE ~Owned(child)
    <2>1. \A n \in Names : lifecycleOwned'[n] =
              [lifecycleOwned EXCEPT ![m] = @ \ {j}][n]
      BY <1>1, <1>3 DEF lifecycleOwned
    <2>2. QED
      BY <1>3, <2>1 DEF lifecycleOwned
  <1>4. QED
    BY <1>2, <1>3

\* A step of the controller is a step of the lifecycle or no step at all.
LEMMA NextMoves ==
    ASSUME TypeOK, OwnershipInv, Next
    PROVE  [Lifecycle!Next]_(Lifecycle!lifecycleVars)
  <1>1. CASE FunctionStep
    BY <1>1, RewriteMoves
  <1>2. CASE api' = api /\ res' = res
    BY <1>2, RewriteMoves DEF FunctionStep
  <1>3. ASSUME api' = api
        PROVE  lifecyclePhase' = lifecyclePhase
    BY <1>3 DEF lifecyclePhase
  <1>4. CASE /\ api' = api
             /\ \E n \in Names, k \in Kinds :
                   res[n][k] = Absent /\ res' = [res EXCEPT ![n][k] = Foreign]
    <2>1. PICK n \in Names, k \in Kinds :
              res[n][k] = Absent /\ res' = [res EXCEPT ![n][k] = Foreign]
      BY <1>4
    <2>2. ~Owned(Foreign) /\ ~Owned(res[n][k])
      BY <2>1 DEF Owned, Foreign, Absent
    <2>3. lifecycleOwned' = [lifecycleOwned EXCEPT ![n] = @ \ {k}]
      BY <2>1, <2>2, OwnedAfter
    <2>4. lifecycleOwned' = lifecycleOwned
      BY <2>2, <2>3 DEF lifecycleOwned
    <2>5. QED
      BY <1>3, <1>4, <2>4 DEF Lifecycle!lifecycleVars
  <1>5. CASE pc \in EnsureSteps /\ key \in Names /\ MakesOne /\ api' = api
    <2>1. PICK k \in Kinds, s \in Specs :
              res' = [res EXCEPT ![key][k] = Made(s)]
      BY <1>5 DEF MakesOne
    <2>2. Owned(Made(s))
      BY DEF Owned, Made
    <2>3. lifecycleOwned' = [lifecycleOwned EXCEPT ![key] = @ \cup {k}]
      BY <1>5, <2>1, <2>2, OwnedAfter
    <2>4. api[key] \in Objs /\ api[key].live /\ api[key].fin
      BY <1>5 DEF TypeOK, OwnershipInv, EnsuringProtected
    <2>5. lifecyclePhase[key] \in {"protected", "terminating"}
      BY <1>5, <2>4, PhaseFacts DEF lifecyclePhase
    <2>6. Lifecycle!Provision(key, k)
      BY <1>3, <1>5, <2>3, <2>5 DEF Lifecycle!Provision
    <2>7. QED
      BY <1>5, <2>6 DEF Lifecycle!Next
  <1>6. ASSUME key \in Names, api' = api, NEW k \in Kinds,
               res' = [res EXCEPT ![key][k] = Absent],
               pc \in DeleteSteps \/ k \in {"monitor", "autoscaler"}
        PROVE  [Lifecycle!Next]_(Lifecycle!lifecycleVars)
    <2>1. ~Owned(Absent)
      BY DEF Owned, Absent
    <2>2. lifecycleOwned' = [lifecycleOwned EXCEPT ![key] = @ \ {k}]
      BY <1>6, <2>1, OwnedAfter
    <2>3. CASE ~Owned(res[key][k])
      <3>1. lifecycleOwned' = lifecycleOwned
        BY <1>6, <2>2, <2>3 DEF lifecycleOwned
      <3>2. QED
        BY <1>3, <1>6, <3>1 DEF Lifecycle!lifecycleVars
    <2>4. CASE Owned(res[key][k])
      <3>1. api[key] \in Objs /\ api[key].live /\ api[key].fin
        BY <1>6, <2>4 DEF TypeOK, OwnershipInv, NoOrphans
      <3>2. pc \in DeleteSteps => api[key].del
        BY <3>1 DEF OwnershipInv, DeletingMarked
      <3>3. \/ lifecyclePhase[key] = "terminating"
            \/ /\ lifecyclePhase[key] = "protected"
               /\ k \in {"autoscaler", "monitor"}
        BY <1>6, <3>1, <3>2, PhaseFacts DEF lifecyclePhase
      <3>4. Lifecycle!Release(key, k)
        BY <1>3, <1>6, <2>2, <3>3 DEF Lifecycle!Release
      <3>5. QED
        BY <1>6, <3>4 DEF Lifecycle!Next
    <2>5. QED
      BY <2>3, <2>4
  <1>7. CASE /\ pc \in EnsureSteps /\ key \in Names /\ api' = api
             /\ RemovesOne({"monitor", "autoscaler"})
    BY <1>6, <1>7 DEF RemovesOne, Kinds
  <1>8. CASE pc \in DeleteSteps /\ key \in Names /\ RemovesOne(Kinds) /\ api' = api
    BY <1>6, <1>8 DEF RemovesOne
  <1>9. QED
    BY <1>1, <1>2, <1>4, <1>5, <1>7, <1>8, ChildSteps, FunctionSteps

\* The controller, with its stale cache, its queue, its retries and its
\* crashes, implements the lifecycle, for any number of functions.
THEOREM Refinement == Spec => RefinesLifecycle
  <1>1. Init => Lifecycle!Init
    <2> SUFFICES ASSUME Init PROVE Lifecycle!Init
      OBVIOUS
    <2>1. lifecyclePhase = [n \in Names |-> "absent"]
      BY DEF Init, lifecyclePhase, PhaseOf, Gone
    <2>2. lifecycleOwned = [n \in Names |-> {}]
      BY DEF Init, lifecycleOwned, Owned, Absent
    <2>3. QED
      BY <2>1, <2>2 DEF Lifecycle!Init
  <1>2. TypeOK /\ OwnershipInv /\ [Next]_vars =>
            [Lifecycle!Next]_(Lifecycle!lifecycleVars)
    <2>1. ASSUME UNCHANGED vars
          PROVE  UNCHANGED Lifecycle!lifecycleVars
      BY <2>1 DEF vars, Lifecycle!lifecycleVars, lifecyclePhase, lifecycleOwned
    <2>2. QED
      BY <2>1, NextMoves
  <1>3. QED
    BY <1>1, <1>2, TypeCorrect, OwnershipInvariant, PTL
       DEF Spec, RefinesLifecycle, Lifecycle!Spec
=============================================================================
