------------------------------ MODULE ImageBuild ------------------------------
(***************************************************************************)
(* Building function images: the part of a reconciliation that looks for   *)
(* an image in the registry and starts a build job (startImageBuildJob,    *)
(* EnsureFuncImage, pkg/registry), and the job itself, whose init          *)
(* containers read the function's ConfigMap while later reconciliations    *)
(* may rewrite it, and whose main container adds a layer to the runtime's  *)
(* image (pkg/function-image-builder).                                     *)
(*                                                                         *)
(* The Function's revisions are numbered; the ConfigMap, a job and a       *)
(* Deployment are of the revision they were written for.  The function     *)
(* field and the dependencies are sequences, because the tag digests their *)
(* concatenation; a digest stands for what it digests.                     *)
(***************************************************************************)
EXTENDS Naturals, Sequences

CONSTANTS
    Specs,        \* the specs a user may store
    Auths,        \* how many registries the secret names
    Version,      \* version of the registry's API in the secret's URL
    MaxUpdates,   \* bound on the user's updates
    BackoffLimit, \* restarts of a job's containers before the job has failed
    None          \* no image, no job

\* spec.function (for a URL the address), the bytes it stands for, which are the ones
\* that a checksum was taken of, how it stands for them, whether the spec has a
\* checksum, spec.deps (the empty sequence is no dependencies) and the runtime.  All
\* are of one language, with an installation image, and one kind of file, so that
\* the files of the ConfigMap keep their names.
SpecFields == {"function", "bytes", "kind", "summed", "deps", "runtime"}

IsSpec(s) ==
    /\ DOMAIN s = SpecFields
    /\ s.kind \in {"text", "base64", "url"}
    /\ s.kind = "text" => s.bytes = s.function
    /\ s.summed \in BOOLEAN

\* What a file can hold.
Contents == {s.function : s \in Specs} \cup {s.bytes : s \in Specs} \cup {<< >>}

DepsSet == {s.deps : s \in Specs} \cup {<< >>}

\* A layer is the runtime's or a bundle.
Layers ==
    {s.runtime : s \in Specs} \cup [content : Contents, deps : DepsSet, installed : DepsSet]

\* What a job's pod is doing; the order of its containers and their commands.
Steps == {"prepare", "copy", "install", "pull", "describe", "manifest", "push", "done", "failed"}

\* Jobs: the revision it was created for, its pod's step and restarts, the files in the
\* init containers' volume and the image directory of the builder.
Jobs ==
    [rev : Nat, step : Steps, restarts : Nat,
     scratch : Contents, content : Contents, deps : DepsSet, installed : DepsSet,
     layers : Seq(Layers), diffIds : Seq(Layers), saved : Seq(Layers)]

ASSUME BuildAssumption ==
    /\ \A s \in Specs : IsSpec(s)
    /\ Auths \in Nat \ {0}
    /\ MaxUpdates \in Nat
    /\ BackoffLimit \in Nat
    /\ None \notin Jobs

\* The tag: sha256 of function and deps, printed one after the other.
Tag(s) == s.function \o s.deps

Tags == {Tag(s) : s \in Specs}

VARIABLES
    history,   \* the revisions of the Function's spec; the last is the stored one
    pc,        \* where ensureK8sResources is
    rev,       \* the revision it works on
    image,     \* prebuiltImage: a tag, or None for the runtime's image
    configMap, \* the revision in the function's ConfigMap; 0: there is none
    deployed,  \* the Deployment, with its image: a tag or None for the runtime's
    jobs,      \* [tag -> the build job of that name, or None]
    registry   \* [tag -> the image pushed under it, or None]

vars == <<history, pc, rev, image, configMap, deployed, jobs, registry>>

workerVars == <<history, pc, rev, image, configMap, deployed>>

Init ==
    /\ history \in {<<s>> : s \in Specs}
    /\ pc = "idle"
    /\ rev = 1
    /\ image = None
    /\ configMap = 0
    /\ deployed = None
    /\ jobs = [t \in Tags |-> None]
    /\ registry = [t \in Tags |-> None]

UpdateFunction(s) ==
    /\ Len(history) <= MaxUpdates
    /\ s # history[Len(history)]
    /\ history' = Append(history, s)
    /\ UNCHANGED <<pc, rev, image, configMap, deployed, jobs, registry>>

-----------------------------------------------------------------------------
(* The registry.  An answer to the tag list is "tags", "notFound" (the text *)
(* "Resource not found"), "other" (any other body, an error included),      *)
(* "unauthorized" (401; with or without a usable challenge) or "down".      *)

\* New reads the secret: it must name one registry, with a version in its URL.  A
\* secret that names none, which kubectl does not write, is outside the model: New
\* then indexes an empty slice.
New == IF Auths = 1 /\ Version # "" THEN "ok" ELSE "err"

Answers == {"tags", "notFound", "other", "unauthorized", "down"}

\* A 401 with a challenge is answered with a token request and asked again; every
\* other status code is taken for an answer.
doRequest(answer, retried) ==
    CASE answer = "down" -> "err"
      [] answer = "unauthorized" -> IF retried \in {"down", "unauthorized"} THEN "err" ELSE retried
      [] OTHER -> answer

\* A body that is not a list of tags is an error to v1, which expects a JSON array,
\* and a list without tags to v2; no other version is supported.
getTags(body, tag) ==
    CASE Version \notin {"v1", "v2"} -> "err"
      [] body = "tags" -> IF registry[tag] # None THEN "yes" ELSE "no"
      [] OTHER -> IF Version = "v1" THEN "err" ELSE "no"

ImageExists(tag, answer, retried) ==
    LET body == doRequest(answer, retried)
    IN CASE New = "err" \/ body = "err" -> "err"
         [] body = "notFound" -> "no"
         [] OTHER -> getTags(body, tag)

-----------------------------------------------------------------------------
(* The controller                                                          *)

Reconcile ==
    /\ pc = "idle"
    /\ pc' = "configmap"
    /\ rev' = Len(history)
    /\ UNCHANGED <<history, image, configMap, deployed, jobs, registry>>

\* The spec it works on.
obj == history[rev]

EnsureFuncConfigMap ==
    /\ pc = "configmap"
    /\ pc' = "lookup"
    /\ configMap' = rev
    /\ UNCHANGED <<history, rev, image, deployed, jobs, registry>>

\* An image found is deployed; an error is logged and the function deployed without
\* a build.
startImageBuildJob(answer, retried) ==
    /\ pc = "lookup"
    /\ LET exists == ImageExists(Tag(obj), answer, retried)
       IN /\ image' = IF exists = "yes" THEN Tag(obj) ELSE None
          /\ pc' = IF exists = "no" THEN "job" ELSE "deploy"
    /\ UNCHANGED <<history, rev, configMap, deployed, jobs, registry>>

NewJob(n) ==
    [rev |-> n, step |-> "prepare", restarts |-> 0, scratch |-> << >>,
     content |-> << >>, deps |-> << >>, installed |-> << >>,
     layers |-> << >>, diffIds |-> << >>, saved |-> << >>]

\* Mutant: the job's name is the function's, without the tag.
EnsureFuncImageOneJob(ok) ==
    /\ pc = "job"
    /\ jobs' = [jobs EXCEPT ![Tag(obj)] =
                  IF ok /\ \A t \in Tags : jobs[t] = None THEN NewJob(rev) ELSE @]
    /\ image' = IF ok THEN Tag(obj) ELSE None
    /\ pc' = "deploy"
    /\ UNCHANGED <<history, rev, configMap, deployed, registry>>

\* A job of that name counts as a build under way, however it ended.  When it cannot
\* be created the function is deployed without a build.
EnsureFuncImage(ok) ==
    /\ pc = "job"
    /\ jobs' = [jobs EXCEPT ![Tag(obj)] = IF ok /\ @ = None THEN NewJob(rev) ELSE @]
    /\ image' = IF ok THEN Tag(obj) ELSE None
    /\ pc' = "deploy"
    /\ UNCHANGED <<history, rev, configMap, deployed, registry>>

EnsureFuncDeployment ==
    /\ pc = "deploy"
    /\ deployed' = [image |-> image]
    /\ image' = None
    /\ pc' = "idle"
    /\ UNCHANGED <<history, rev, configMap, jobs, registry>>

-----------------------------------------------------------------------------
(* A build job's pod.  The volume of the init containers survives restarts; *)
(* a container's own files, the scratch file and the image directory, do    *)
(* not.                                                                     *)

Running(t, step) == jobs[t] # None /\ jobs[t].step = step

\* A container fails and is run again, until the job is given up.
Fail(t, step) ==
    jobs' = [jobs EXCEPT ![t].restarts = @ + 1,
                         ![t].step = IF jobs[t].restarts < BackoffLimit THEN step
                                                                        ELSE "failed",
                         ![t].layers = << >>, ![t].diffIds = << >>, ![t].saved = << >>]

\* The spec that the job's containers were made for.
JobSpec(t) == history[jobs[t].rev]

\* The file that the prepare command works on: for base64 what the ConfigMap's volume
\* holds decodes to, if it does; for a URL whatever is served at that time; for text
\* the file in the volume itself.
Reads(t) ==
    CASE JobSpec(t).kind = "url" -> {s.bytes : s \in Specs}
      [] JobSpec(t).kind = "base64" ->
            {s.bytes : s \in {q \in {history[configMap]} : q.kind = "base64"}}
      [] OTHER -> {history[configMap].function}

\* Mutant: the checksum is not compared.
SumIgnored(t, c) == TRUE

\* The checksum may be empty, and then nothing is verified.
SumMatches(t, c) == JobSpec(t).summed => c = JobSpec(t).bytes

\* "prepare": decode or download the content if need be and compare its checksum.
PrepareChecks(t) ==
    /\ Running(t, "prepare")
    /\ \/ \E c \in Reads(t) :
             /\ SumMatches(t, c)
             /\ jobs' = [jobs EXCEPT ![t].step = "copy", ![t].scratch = c]
       \/ /\ Reads(t) = {} \/ \E c \in Reads(t) : ~SumMatches(t, c)
          /\ Fail(t, "prepare")
    /\ UNCHANGED <<workerVars, registry>>

\* The rest of the command: unpack or copy the file that was checked, which for plain
\* text is the one in the ConfigMap's volume, and copy the file of dependencies.
PrepareCopies(t) ==
    /\ Running(t, "copy")
    /\ jobs' = [jobs EXCEPT ![t].step = "install",
                            ![t].content = IF JobSpec(t).kind = "text"
                                           THEN history[configMap].function ELSE jobs[t].scratch,
                            ![t].deps = history[configMap].deps,
                            ![t].scratch = << >>]
    /\ UNCHANGED <<workerVars, registry>>

\* "install" runs if the spec has dependencies, and verifies the copy it installs; the
\* copy is in the bundle in either case.  Then "compile" and "bundle" put the volume
\* into bundle.tar.
GetBuildContainer(t) ==
    /\ Running(t, "install")
    /\ CASE JobSpec(t).deps = << >> ->
              jobs' = [jobs EXCEPT ![t].step = "pull"]
         [] JobSpec(t).deps # << >> /\ jobs[t].deps = JobSpec(t).deps ->
              jobs' = [jobs EXCEPT ![t].step = "pull", ![t].installed = jobs[t].deps]
         [] OTHER -> Fail(t, "install")
    /\ UNCHANGED <<workerVars, registry>>

BundleOf(j) == [content |-> j.content, deps |-> j.deps, installed |-> j.installed]

Bundle(t) == BundleOf(jobs[t])

\* add-layer: skopeo stores the runtime's image in a new directory.
skopeoCopySrc(t) ==
    /\ Running(t, "pull")
    /\ jobs' = [jobs EXCEPT ![t].step = "describe",
                            ![t].layers = <<JobSpec(t).runtime>>,
                            ![t].diffIds = <<JobSpec(t).runtime>>]
    /\ UNCHANGED <<workerVars, registry>>

\* The description of an image with one more layer.
AddLayer(diffIds, layer) == Append(diffIds, layer)

\* AddTarToLayer, first half: the tar and a new description are saved, next to the
\* description the manifest names.
updateDescription(t) ==
    /\ Running(t, "describe")
    /\ jobs' = [jobs EXCEPT ![t].step = "manifest",
                            ![t].saved = AddLayer(jobs[t].diffIds, Bundle(t))]
    /\ UNCHANGED <<workerVars, registry>>

\* AddTarToLayer, second half: the manifest names the new description and the tar.
updateManifest(t) ==
    /\ Running(t, "manifest")
    /\ jobs' = [jobs EXCEPT ![t].step = "push",
                            ![t].diffIds = jobs[t].saved,
                            ![t].layers = Append(@, Bundle(t))]
    /\ UNCHANGED <<workerVars, registry>>

\* skopeo pushes the directory under the tag.
skopeoCopyDst(t) ==
    /\ Running(t, "push")
    /\ registry' = [registry EXCEPT ![t] = [layers |-> jobs[t].layers,
                                            diffIds |-> jobs[t].diffIds]]
    /\ jobs' = [jobs EXCEPT ![t].step = "done"]
    /\ UNCHANGED workerVars

BuilderSteps == {"pull", "describe", "manifest", "push"}

\* Mutant: a restarted builder goes on in the directory it finds.
BuilderResumes(t) ==
    /\ \E step \in BuilderSteps : Running(t, step)
    /\ jobs[t].restarts < BackoffLimit
    /\ jobs' = [jobs EXCEPT ![t].restarts = @ + 1,
                            ![t].step = IF jobs[t].layers = << >> THEN "pull" ELSE "describe"]
    /\ UNCHANGED <<workerVars, registry>>

\* The builder fails or dies at any step (log.Fatal): the new container has a new
\* directory and starts over.
BuilderFails(t) ==
    /\ \E step \in BuilderSteps : Running(t, step)
    /\ Fail(t, "pull")
    /\ UNCHANGED <<workerVars, registry>>

JobSteps(t) ==
    \/ PrepareChecks(t)
    \/ PrepareCopies(t)
    \/ GetBuildContainer(t)
    \/ skopeoCopySrc(t)
    \/ updateDescription(t)
    \/ updateManifest(t)
    \/ skopeoCopyDst(t)

Worker ==
    \/ Reconcile
    \/ EnsureFuncConfigMap
    \/ \E answer, retried \in Answers : startImageBuildJob(answer, retried)
    \/ \E ok \in BOOLEAN : EnsureFuncImage(ok)
    \/ EnsureFuncDeployment

Next ==
    \/ \E s \in Specs : UpdateFunction(s)
    \/ Worker
    \/ \E t \in Tags : JobSteps(t) \/ BuilderFails(t)

Spec == Init /\ [][Next]_vars

\* The controller keeps working, registry and API server answer, and pods run.
FairSpec ==
    /\ Spec
    /\ WF_vars(Worker)
    /\ SF_vars(startImageBuildJob("tags", "tags"))
    /\ SF_vars(EnsureFuncImage(TRUE))
    /\ \A t \in Tags : WF_vars(JobSteps(t))

-----------------------------------------------------------------------------
(* Properties                                                              *)

\* c can be the content of a build for revision n: it is what the checksum was taken of,
\* if there is one and the file was verified where it was then copied from; and else it
\* is at least no older than that revision.  A URL without a checksum is anything.
Sourced(n, c) ==
    LET since == {history[q] : q \in n..Len(history)}
    IN  /\ history[n].summed /\ history[n].kind # "text" => c = history[n].bytes
        /\ history[n].kind = "base64" => c \in {s.bytes : s \in since}
        /\ history[n].kind = "text" => c \in {s.function : s \in since}

\* What is published under a tag was built for a revision with that tag: its content is
\* sourced there, and what is installed are that revision's dependencies, although the
\* pod reads a ConfigMap that later reconciliations may have rewritten between any two
\* of its commands (kubelessutil.go:85-149).  Plain text is read again after it was
\* verified, and then may be that of a later revision (:94, :138).
BuiltFromItsSpec ==
    \A t \in Tags : registry[t] # None =>
        /\ Tag(JobSpec(t)) = t
        /\ Sourced(jobs[t].rev, registry[t].layers[2].content)
        /\ registry[t].layers[2].installed = JobSpec(t).deps

\* A published image is the runtime's image plus the function's layer, once, and its
\* description lists the layers its manifest lists, however often the builder was
\* restarted and at whichever step.
WellFormedImage ==
    \A t \in Tags : registry[t] # None =>
        /\ Len(registry[t].layers) = 2
        /\ registry[t].layers[1] = JobSpec(t).runtime
        /\ registry[t].diffIds = registry[t].layers

\* docs/building-functions.md: the function's pod "will wait until the previous job
\* finishes in order to pull the function image".  The wait ends: an image that is
\* deployed is published, whatever the registry answered meanwhile, unless another
\* one is deployed or its job used up its restarts (which nothing repairs:
\* EnsureFuncImage takes a failed job for one under way).
DeployedImageAppears ==
    \A t \in Tags :
        (deployed # None /\ deployed.image = t) ~>
            \/ registry[t] # None
            \/ deployed # None /\ deployed.image # t
            \/ jobs[t] # None /\ jobs[t].step = "failed"
=============================================================================
