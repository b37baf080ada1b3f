--------------------------- MODULE ImageBuildProofs ---------------------------
(***************************************************************************)
(* What a build job publishes, for every set of specs, any number of       *)
(* updates and any backoff limit.  The invariant says, for each step a job *)
(* can be at, what its scratch file, its copies and its image directory    *)
(* hold by then, although a later reconciliation may have rewritten the    *)
(* ConfigMap.  It needs that the ConfigMap is never older than a job.      *)
(***************************************************************************)
EXTENDS ImageBuild, SequenceTheorems, TLAPS

\* The steps after the init containers.
Verified == {"pull", "describe", "manifest", "push", "done"}

\* What a job's volumes hold at its step.
JobOK(j) ==
    /\ j \in Jobs
    /\ j.rev \in 1..Len(history)
    /\ configMap \in j.rev..Len(history)
    /\ j.step = "copy" => Sourced(j.rev, j.scratch)
    /\ j.step \in Verified \cup {"install"} => Sourced(j.rev, j.content)
    /\ j.step \in {"prepare", "copy", "install"} => j.installed = << >>
    /\ j.step \in Verified => j.installed = history[j.rev].deps
    /\ j.step \in {"describe", "manifest"} =>
         j.layers = <<history[j.rev].runtime>> /\ j.diffIds = <<history[j.rev].runtime>>
    /\ j.step = "manifest" => j.saved = <<history[j.rev].runtime, BundleOf(j)>>
    /\ j.step \in {"push", "done"} =>
         /\ j.layers = <<history[j.rev].runtime, BundleOf(j)>>
         /\ j.diffIds = j.layers

\* A job is the one of its tag.
JobsOK ==
    /\ jobs \in [Tags -> Jobs \cup {None}]
    /\ \A t \in Tags : jobs[t] # None => JobOK(jobs[t]) /\ Tag(history[jobs[t].rev]) = t

\* The worker has a revision and, before it starts a job, has written its ConfigMap.
WorkerOK ==
    /\ history \in Seq(Specs)
    /\ Len(history) \in Nat
    /\ rev \in 1..Len(history)
    /\ configMap \in 0..rev
    /\ pc \in {"lookup", "job", "deploy"} => configMap = rev

\* An image under a tag is what that tag's job, which is done, has in its directory.
RegistryOK ==
    /\ DOMAIN registry = Tags
    /\ \A t \in Tags : registry[t] # None =>
         /\ jobs[t] # None
         /\ jobs[t].step = "done"
         /\ registry[t] = [layers |-> jobs[t].layers, diffIds |-> jobs[t].diffIds]

BuildInv == WorkerOK /\ JobsOK /\ RegistryOK
-----------------------------------------------------------------------------
(* The invariant is inductive.                                             *)

\* The initial state: no job, no image.
LEMMA InitBuild == Init => BuildInv
<1> SUFFICES ASSUME Init PROVE BuildInv OBVIOUS
<1>1. PICK s \in Specs : history = <<s>> BY DEF Init
<1>2. history \in Seq(Specs) /\ Len(history) = 1 BY <1>1
<1>3. WorkerOK BY <1>2 DEF Init, WorkerOK
<1> QED BY <1>3 DEF Init, BuildInv, JobsOK, RegistryOK

\* A tag is the tag of a spec.
LEMMA TagOfSpec == ASSUME NEW s \in Specs PROVE Tag(s) \in Tags
BY DEF Tags

\* A revision is a spec, and its fields are contents, dependencies and layers.
LEMMA Revision ==
    ASSUME history \in Seq(Specs), NEW n \in 1..Len(history)
    PROVE  /\ history[n] \in Specs
           /\ history[n].function \in Contents /\ history[n].bytes \in Contents
           /\ history[n].deps \in DepsSet
           /\ history[n].runtime \in Layers
<1>1. history[n] \in Specs OBVIOUS
<1> QED BY <1>1 DEF Contents, DepsSet, Layers

\* What is sourced stays so when the user stores another revision.
LEMMA SourcedStays ==
    ASSUME history \in Seq(Specs), NEW s \in Specs, history' = Append(history, s),
           NEW n \in 1..Len(history), NEW c, Sourced(n, c)
    PROVE  Sourced(n, c)'
<1>1. /\ Len(history) \in Nat /\ Len(history') = Len(history) + 1
      /\ \A q \in 1..Len(history) : history'[q] = history[q]
  OBVIOUS
<1>2. history'[n] = history[n] BY <1>1
<1>3. \A q \in n..Len(history) : q \in n..Len(history') /\ history'[q] = history[q] BY <1>1
<1> QED BY <1>2, <1>3 DEF Sourced

\* A job's facts survive the worker's and the user's steps.
LEMMA JobStays ==
    ASSUME BuildInv, NEW j, JobOK(j),
           history' = history \/ \E s \in Specs : history' = Append(history, s),
           configMap' \in configMap..Len(history')
    PROVE  JobOK(j)' /\ history'[j.rev] = history[j.rev]
<1>1. history \in Seq(Specs) /\ j.rev \in 1..Len(history) /\ j \in Jobs
  BY DEF BuildInv, WorkerOK, JobOK
<1>2. CASE history' = history
  <2>1. \A c : Sourced(j.rev, c)' <=> Sourced(j.rev, c) BY <1>2 DEF Sourced
  <2>2. j.rev \in 1..Len(history') /\ configMap' \in j.rev..Len(history')
    BY <1>1, <1>2 DEF JobOK
  <2> QED BY <1>1, <1>2, <2>1, <2>2 DEF JobOK, BundleOf
<1>3. ASSUME NEW s \in Specs, history' = Append(history, s)
      PROVE  JobOK(j)' /\ history'[j.rev] = history[j.rev]
  <2>1. /\ j.rev \in 1..Len(history') /\ configMap' \in j.rev..Len(history')
        /\ history'[j.rev] = history[j.rev]
    BY <1>1, <1>3 DEF JobOK
  <2>2. \A c : Sourced(j.rev, c) => Sourced(j.rev, c)' BY <1>1, <1>3, SourcedStays
  <2> QED BY <1>1, <2>1, <2>2 DEF JobOK, BundleOf
<1> QED BY <1>2, <1>3

\* So the jobs stay as they should be when the worker or the user moves.
LEMMA JobsStay ==
    ASSUME BuildInv, jobs' \in [Tags -> Jobs \cup {None}],
           \A u \in Tags : jobs'[u] # None => JobOK(jobs'[u]) /\ Tag(history[jobs'[u].rev]) = u,
           history' = history \/ \E s \in Specs : history' = Append(history, s),
           configMap' \in configMap..Len(history')
    PROVE  JobsOK'
<1>1. ASSUME NEW u \in Tags, jobs'[u] # None
      PROVE  JobOK(jobs[u])' /\ Tag(history'[jobs'[u].rev]) = u
  <2>1. PICK l : l = jobs'[u] OBVIOUS
  <2>2. JobOK(l) /\ Tag(history[l.rev]) = u BY <1>1, <2>1
  <2>3. JobOK(l)' /\ history'[l.rev] = history[l.rev] BY <2>2, JobStays
  <2> QED BY <2>1, <2>2, <2>3
<1> QED BY <1>1 DEF JobsOK

\* The running job of a tag is a record of the right shape.
LEMMA RunningJob ==
    ASSUME BuildInv, NEW t \in Tags, NEW step, Running(t, step)
    PROVE  /\ jobs[t] # None /\ jobs[t] \in Jobs /\ jobs[t].step = step
           /\ JobOK(jobs[t]) /\ Tag(history[jobs[t].rev]) = t
           /\ jobs[t].rev \in 1..Len(history) /\ history \in Seq(Specs)
           /\ configMap \in 1..Len(history) /\ configMap \in jobs[t].rev..Len(history)
<1>1. jobs[t] # None /\ jobs[t].step = step BY DEF Running
<1>2. JobOK(jobs[t]) /\ Tag(history[jobs[t].rev]) = t BY <1>1 DEF BuildInv, JobsOK
<1>3. history \in Seq(Specs) /\ Len(history) \in Nat BY DEF BuildInv, WorkerOK
<1> QED BY <1>1, <1>2, <1>3 DEF JobOK

\* A step of one job that is not done, after which its volumes are as JobOK says,
\* disturbs nothing else.
LEMMA OneJobMoves ==
    ASSUME BuildInv, NEW t \in Tags, jobs[t] # None, jobs[t].step # "done",
           NEW k, k = jobs'[t], JobOK(k), k.rev = jobs[t].rev,
           DOMAIN jobs' = Tags, jobs' = [u \in Tags |-> jobs'[u]],
           \A u \in Tags \ {t} : jobs'[u] = jobs[u],
           UNCHANGED <<workerVars, registry>>
    PROVE  BuildInv'
<1>1. history' = history /\ configMap' = configMap /\ registry' = registry BY DEF workerVars
<1>2. WorkerOK' BY DEF BuildInv, WorkerOK, workerVars
<1>3. jobs' \in [Tags -> Jobs \cup {None}]
  <2>1. \A u \in Tags : jobs'[u] \in Jobs \cup {None}
    BY DEF BuildInv, JobsOK, JobOK
  <2> QED BY <2>1
<1>4. \A u \in Tags : jobs'[u] # None => JobOK(jobs'[u]) /\ Tag(history[jobs'[u].rev]) = u
  BY DEF BuildInv, JobsOK
<1>5. configMap' \in configMap..Len(history')
  BY <1>1 DEF BuildInv, WorkerOK
<1>6. JobsOK' BY <1>1, <1>3, <1>4, <1>5, JobsStay
<1>7. \A u \in Tags : registry[u] # None => u # t /\ jobs'[u] = jobs[u]
  BY DEF BuildInv, RegistryOK
<1>8. RegistryOK' BY <1>1, <1>7 DEF BuildInv, RegistryOK
<1> QED BY <1>2, <1>6, <1>8 DEF BuildInv

\* A job that was just created satisfies JobOK.
LEMMA NewJobOK ==
    ASSUME BuildInv, NEW n \in 1..Len(history), configMap \in n..Len(history)
    PROVE  JobOK(NewJob(n)) /\ NewJob(n).rev = n
<1>1. PICK j : j = NewJob(n) OBVIOUS
<1>2. n \in Nat BY DEF BuildInv, WorkerOK
<1>3. << >> \in Contents /\ << >> \in DepsSet /\ << >> \in Seq(Layers)
  BY DEF Contents, DepsSet
<1>4. j \in Jobs BY <1>1, <1>2, <1>3 DEF NewJob, Jobs, Steps
<1>5. j.rev = n /\ j.step = "prepare" /\ j.installed = << >> BY <1>1 DEF NewJob
<1> QED BY <1>1, <1>4, <1>5 DEF JobOK, Verified

\* What a failure does to the job: one restart more, its step and an empty directory.
LEMMA FailedJob ==
    ASSUME NEW t \in Tags, jobs \in [Tags -> Jobs \cup {None}], jobs[t] \in Jobs,
           NEW step \in Steps, Fail(t, step)
    PROVE  /\ DOMAIN jobs' = Tags
           /\ jobs' = [u \in Tags |-> jobs'[u]]
           /\ \A u \in Tags \ {t} : jobs'[u] = jobs[u]
           /\ jobs'[t] \in Jobs
           /\ jobs'[t].rev = jobs[t].rev
           /\ jobs'[t].content = jobs[t].content
           /\ jobs'[t].installed = jobs[t].installed
           /\ jobs'[t].step \in {step, "failed"}
<1>1. PICK next : next = IF jobs[t].restarts < BackoffLimit THEN step ELSE "failed"
  OBVIOUS
<1>2. next \in {step, "failed"} /\ next \in Steps BY <1>1 DEF Steps
<1>3. jobs' = [jobs EXCEPT ![t].restarts = @ + 1, ![t].step = next, ![t].layers = << >>,
                           ![t].diffIds = << >>, ![t].saved = << >>]
  BY <1>1 DEF Fail
<1>4. PICK j : j = jobs[t] OBVIOUS
<1>5. PICK r : r = j.restarts + 1 OBVIOUS
<1>6. r \in Nat BY <1>4, <1>5 DEF Jobs
<1>7. PICK e : e = << >> OBVIOUS
<1>8. e \in Seq(Layers) BY <1>7
<1>9. PICK k : k = jobs'[t] OBVIOUS
<1>10. k = [j EXCEPT !.restarts = r, !.step = next, !.layers = e, !.diffIds = e, !.saved = e]
  BY <1>3, <1>4, <1>5, <1>7, <1>9
<1>11. k \in Jobs BY <1>2, <1>4, <1>6, <1>8, <1>10 DEF Jobs
<1>12. k.rev = j.rev /\ k.content = j.content /\ k.installed = j.installed /\ k.step = next
  BY <1>2, <1>4, <1>6, <1>10 DEF Jobs
<1>13. DOMAIN jobs' = Tags /\ jobs' = [u \in Tags |-> jobs'[u]] BY <1>3
<1>14. \A u \in Tags \ {t} : jobs'[u] = jobs[u] BY <1>3
<1> QED BY <1>2, <1>4, <1>9, <1>11, <1>12, <1>13, <1>14

\* An init container fails: it is run again or given up.
LEMMA InitContainerFails ==
    ASSUME BuildInv, NEW t \in Tags, NEW step \in {"prepare", "install"},
           Running(t, step), Fail(t, step), UNCHANGED <<workerVars, registry>>
    PROVE  BuildInv'
<1>1. jobs[t] # None /\ jobs[t] \in Jobs /\ jobs[t].step = step /\ JobOK(jobs[t])
  BY RunningJob
<1>2. PICK k : k = jobs'[t] OBVIOUS
<1>3. jobs \in [Tags -> Jobs \cup {None}] BY DEF BuildInv, JobsOK
<1>4. /\ k \in Jobs /\ k.rev = jobs[t].rev /\ k.content = jobs[t].content
      /\ k.installed = jobs[t].installed /\ k.step \in {step, "failed"}
  BY <1>1, <1>2, <1>3, FailedJob DEF Steps
<1>5. JobOK(k) BY <1>1, <1>4 DEF JobOK, Verified
<1>6. DOMAIN jobs' = Tags /\ jobs' = [u \in Tags |-> jobs'[u]]
  BY <1>1, <1>3, FailedJob DEF Steps
<1>7. \A u \in Tags \ {t} : jobs'[u] = jobs[u] BY <1>1, <1>3, FailedJob DEF Steps
<1> QED BY <1>1, <1>2, <1>4, <1>5, <1>6, <1>7, OneJobMoves

\* The builder fails or dies: its directory is of no account to the next one.
LEMMA BuilderFailsOK ==
    ASSUME BuildInv, NEW t \in Tags, BuilderFails(t)
    PROVE  BuildInv'
<1>1. PICK step \in BuilderSteps : Running(t, step) BY DEF BuilderFails
<1>2. jobs[t] # None /\ jobs[t] \in Jobs /\ jobs[t].step = step /\ JobOK(jobs[t])
  BY <1>1, RunningJob
<1>3. PICK k : k = jobs'[t] OBVIOUS
<1>4. jobs \in [Tags -> Jobs \cup {None}] BY DEF BuildInv, JobsOK
<1>5. /\ k \in Jobs /\ k.rev = jobs[t].rev /\ k.content = jobs[t].content
      /\ k.installed = jobs[t].installed /\ k.step \in {"pull", "failed"}
  BY <1>2, <1>3, <1>4, FailedJob DEF BuilderFails, Steps
<1>6. JobOK(k) BY <1>2, <1>5 DEF JobOK, Verified, BuilderSteps
<1>7. DOMAIN jobs' = Tags /\ jobs' = [u \in Tags |-> jobs'[u]]
  BY <1>2, <1>4, FailedJob DEF BuilderFails, Steps
<1>8. \A u \in Tags \ {t} : jobs'[u] = jobs[u]
  BY <1>2, <1>4, FailedJob DEF BuilderFails, Steps
<1>9. jobs[t].step # "done" BY <1>2 DEF BuilderSteps
<1>10. UNCHANGED <<workerVars, registry>> BY DEF BuilderFails
<1> QED BY <1>2, <1>3, <1>5, <1>6, <1>7, <1>8, <1>9, <1>10, OneJobMoves

\* The text in the ConfigMap is sourced for every revision it is not older than, and
\* checked text, if it is no plain text, for the revision whose checksum it was.
LEMMA TextIsSourced ==
    ASSUME history \in Seq(Specs), Len(history) \in Nat, NEW n \in 1..Len(history),
           configMap \in n..Len(history), history[n].kind = "text"
    PROVE  Sourced(n, history[configMap].function)
BY DEF Sourced

\* What "prepare" reads and does not reject is sourced.
LEMMA ReadIsSourced ==
    ASSUME BuildInv, NEW t \in Tags, Running(t, "prepare"),
           NEW c \in Reads(t), SumMatches(t, c)
    PROVE  Sourced(jobs[t].rev, c) /\ c \in Contents
<1>1. PICK n : n = jobs[t].rev OBVIOUS
<1>2. /\ n \in 1..Len(history) /\ history \in Seq(Specs)
      /\ configMap \in 1..Len(history) /\ configMap \in n..Len(history)
  BY <1>1, RunningJob
<1>3. JobSpec(t) = history[n] BY <1>1 DEF JobSpec
<1>4. history[n] \in Specs /\ history[configMap] \in Specs BY <1>2
<1>5. /\ history[configMap].function \in Contents /\ history[configMap].bytes \in Contents
  BY <1>4 DEF Contents
<1>6. history[n].kind \in {"text", "base64", "url"} BY <1>4, BuildAssumption DEF IsSpec
<1>7. history[n].summed => c = history[n].bytes BY <1>3 DEF SumMatches
<1>8. CASE history[n].kind = "url"
  <2>1. c \in {s.bytes : s \in Specs} BY <1>3, <1>8 DEF Reads
  <2>2. c \in Contents BY <2>1 DEF Contents
  <2>3. Sourced(n, c) BY <1>7, <1>8 DEF Sourced
  <2> QED BY <1>1, <2>2, <2>3
<1>9. CASE history[n].kind = "base64"
  <2>1. c \in {s.bytes : s \in {q \in {history[configMap]} : q.kind = "base64"}}
    BY <1>3, <1>9 DEF Reads
  <2>2. c = history[configMap].bytes BY <2>1
  <2>3. Sourced(n, c) BY <1>2, <1>7, <1>9, <2>2 DEF Sourced
  <2> QED BY <1>1, <1>5, <2>2, <2>3
<1>10. CASE history[n].kind = "text"
  <2>1. c \in {history[configMap].function} BY <1>3, <1>10 DEF Reads
  <2>2. c = history[configMap].function BY <2>1
  <2>3. Sourced(n, c) BY <1>2, <1>10, <2>2, TextIsSourced
  <2> QED BY <1>1, <1>5, <2>2, <2>3
<1> QED BY <1>6, <1>8, <1>9, <1>10

\* "prepare" goes on with a content it did not reject, or fails.
LEMMA PrepareChecksOK ==
    ASSUME BuildInv, NEW t \in Tags, PrepareChecks(t)
    PROVE  BuildInv'
<1>1. Running(t, "prepare") /\ UNCHANGED <<workerVars, registry>> BY DEF PrepareChecks
<1>2. PICK j : j = jobs[t] OBVIOUS
<1>3. j # None /\ j \in Jobs /\ j.step = "prepare" /\ JobOK(j) BY <1>1, <1>2, RunningJob
<1>4. jobs \in [Tags -> Jobs \cup {None}] BY DEF BuildInv, JobsOK
<1>5. ASSUME NEW c \in Reads(t), SumMatches(t, c),
             jobs' = [jobs EXCEPT ![t].step = "copy", ![t].scratch = c]
      PROVE  BuildInv'
  <2>1. Sourced(j.rev, c) /\ c \in Contents BY <1>1, <1>2, <1>5, ReadIsSourced
  <2>2. PICK k : k = jobs'[t] OBVIOUS
  <2>3. k = [j EXCEPT !.step = "copy", !.scratch = c] BY <1>2, <1>4, <1>5, <2>2
  <2>4. /\ k \in Jobs /\ k.rev = j.rev /\ k.step = "copy" /\ k.scratch = c
        /\ k.installed = j.installed
    BY <1>3, <2>1, <2>3 DEF Jobs, Steps
  <2>5. JobOK(k) BY <1>3, <2>1, <2>4 DEF JobOK, Verified
  <2>6. /\ DOMAIN jobs' = Tags /\ jobs' = [u \in Tags |-> jobs'[u]]
        /\ \A u \in Tags \ {t} : jobs'[u] = jobs[u]
    BY <1>4, <1>5
  <2> QED BY <1>1, <1>2, <1>3, <2>2, <2>4, <2>5, <2>6, OneJobMoves
<1>6. CASE Fail(t, "prepare") BY <1>1, <1>6, InitContainerFails
<1> QED BY <1>5, <1>6 DEF PrepareChecks

\* The file that is copied is the one that was verified if it is in the scratch file;
\* plain text and the dependencies are whatever the ConfigMap's volume holds by now.
LEMMA PrepareCopiesOK ==
    ASSUME BuildInv, NEW t \in Tags, PrepareCopies(t)
    PROVE  BuildInv'
<1>1. Running(t, "copy") /\ UNCHANGED <<workerVars, registry>> BY DEF PrepareCopies
<1>2. PICK j : j = jobs[t] OBVIOUS
<1>3. /\ j # None /\ j \in Jobs /\ j.step = "copy" /\ JobOK(j)
      /\ j.rev \in 1..Len(history) /\ history \in Seq(Specs)
      /\ configMap \in 1..Len(history) /\ configMap \in j.rev..Len(history)
  BY <1>1, <1>2, RunningJob
<1>4. jobs \in [Tags -> Jobs \cup {None}] BY DEF BuildInv, JobsOK
<1>5. PICK c : c = IF history[j.rev].kind = "text" THEN history[configMap].function
                                                 ELSE j.scratch
  OBVIOUS
<1>6. PICK d : d = history[configMap].deps OBVIOUS
<1>7. PICK e : e = << >> OBVIOUS
<1>8. jobs' = [jobs EXCEPT ![t].step = "install", ![t].content = c, ![t].deps = d,
                           ![t].scratch = e]
  BY <1>2, <1>5, <1>6, <1>7 DEF PrepareCopies, JobSpec
<1>9. history[configMap].function \in Contents /\ d \in DepsSet /\ e \in Contents
  BY <1>3, <1>6, <1>7, Revision DEF Contents
<1>10. c \in Contents BY <1>3, <1>5, <1>9 DEF Jobs
<1>11. PICK k : k = jobs'[t] OBVIOUS
<1>12. k = [j EXCEPT !.step = "install", !.content = c, !.deps = d, !.scratch = e]
  BY <1>2, <1>4, <1>8, <1>11
<1>13. /\ k \in Jobs /\ k.rev = j.rev /\ k.step = "install" /\ k.content = c
       /\ k.installed = j.installed
  BY <1>3, <1>9, <1>10, <1>12 DEF Jobs, Steps
<1>14. Sourced(j.rev, c)
  <2>1. CASE history[j.rev].kind = "text" BY <1>3, <1>5, <2>1, TextIsSourced
  <2>2. CASE history[j.rev].kind # "text" BY <1>3, <1>5, <2>2 DEF JobOK
  <2> QED BY <2>1, <2>2
<1>15. JobOK(k) BY <1>3, <1>13, <1>14 DEF JobOK, Verified
<1>16. /\ DOMAIN jobs' = Tags /\ jobs' = [u \in Tags |-> jobs'[u]]
       /\ \A u \in Tags \ {t} : jobs'[u] = jobs[u]
  BY <1>4, <1>8
<1> QED BY <1>1, <1>2, <1>3, <1>11, <1>13, <1>15, <1>16, OneJobMoves

\* "install" installs the revision's dependencies and no others.
LEMMA GetBuildContainerOK ==
    ASSUME BuildInv, NEW t \in Tags, GetBuildContainer(t)
    PROVE  BuildInv'
<1>1. Running(t, "install") /\ UNCHANGED <<workerVars, registry>> BY DEF GetBuildContainer
<1>2. PICK j : j = jobs[t] OBVIOUS
<1>3. j # None /\ j \in Jobs /\ j.step = "install" /\ JobOK(j) BY <1>1, <1>2, RunningJob
<1>4. jobs \in [Tags -> Jobs \cup {None}] BY DEF BuildInv, JobsOK
<1>5. PICK k : k = jobs'[t] OBVIOUS
<1>6. ASSUME /\ DOMAIN jobs' = Tags /\ jobs' = [u \in Tags |-> jobs'[u]]
             /\ \A u \in Tags \ {t} : jobs'[u] = jobs[u],
             k \in Jobs, k.rev = j.rev, k.step = "pull", k.content = j.content,
             k.installed = history[j.rev].deps
      PROVE  BuildInv'
  <2>1. JobOK(k) BY <1>3, <1>6 DEF JobOK, Verified
  <2> QED BY <1>1, <1>2, <1>3, <1>5, <1>6, <2>1, OneJobMoves
<1>7. PICK d : d = history[j.rev].deps OBVIOUS
<1>8. CASE d = << >>
  <2>1. jobs' = [jobs EXCEPT ![t].step = "pull"]
    BY <1>2, <1>7, <1>8 DEF GetBuildContainer, JobSpec
  <2>2. k = [j EXCEPT !.step = "pull"] BY <1>2, <1>4, <1>5, <2>1
  <2>3. /\ k \in Jobs /\ k.rev = j.rev /\ k.step = "pull" /\ k.content = j.content
        /\ k.installed = j.installed
    BY <1>3, <2>2 DEF Jobs, Steps
  <2>4. j.installed = d BY <1>3, <1>8 DEF JobOK
  <2> QED BY <1>4, <1>6, <1>7, <2>1, <2>3, <2>4
<1>9. CASE d # << >> /\ j.deps = d
  <2>1. jobs' = [jobs EXCEPT ![t].step = "pull", ![t].installed = d]
    BY <1>2, <1>7, <1>9 DEF GetBuildContainer, JobSpec
  <2>2. k = [j EXCEPT !.step = "pull", !.installed = d] BY <1>2, <1>4, <1>5, <2>1
  <2>3. d \in DepsSet BY <1>3, <1>9 DEF Jobs
  <2>4. /\ k \in Jobs /\ k.rev = j.rev /\ k.step = "pull" /\ k.content = j.content
        /\ k.installed = d
    BY <1>3, <2>2, <2>3 DEF Jobs, Steps
  <2> QED BY <1>4, <1>6, <1>7, <2>1, <2>4
<1>10. CASE d # << >> /\ j.deps # d
  <2>1. Fail(t, "install") BY <1>2, <1>7, <1>10 DEF GetBuildContainer, JobSpec
  <2> QED BY <1>1, <2>1, InitContainerFails
<1> QED BY <1>8, <1>9, <1>10

\* A new directory holds the runtime's image.
LEMMA skopeoCopySrcOK ==
    ASSUME BuildInv, NEW t \in Tags, skopeoCopySrc(t)
    PROVE  BuildInv'
<1>1. Running(t, "pull") /\ UNCHANGED <<workerVars, registry>> BY DEF skopeoCopySrc
<1>2. PICK j : j = jobs[t] OBVIOUS
<1>3. /\ j # None /\ j \in Jobs /\ j.step = "pull" /\ JobOK(j)
      /\ j.rev \in 1..Len(history) /\ history \in Seq(Specs)
  BY <1>1, <1>2, RunningJob
<1>4. jobs \in [Tags -> Jobs \cup {None}] BY DEF BuildInv, JobsOK
<1>5. PICK r : r = history[j.rev].runtime OBVIOUS
<1>6. PICK l : l = <<r>> OBVIOUS
<1>7. jobs' = [jobs EXCEPT ![t].step = "describe", ![t].layers = l, ![t].diffIds = l]
  BY <1>2, <1>5, <1>6 DEF skopeoCopySrc, JobSpec
<1>8. r \in Layers BY <1>3, <1>5, Revision
<1>9. l \in Seq(Layers) BY <1>6, <1>8
<1>10. PICK k : k = jobs'[t] OBVIOUS
<1>11. k = [j EXCEPT !.step = "describe", !.layers = l, !.diffIds = l]
  BY <1>2, <1>4, <1>7, <1>10
<1>12. /\ k \in Jobs /\ k.rev = j.rev /\ k.step = "describe" /\ k.content = j.content
       /\ k.installed = j.installed /\ k.layers = l /\ k.diffIds = l
  BY <1>3, <1>9, <1>11 DEF Jobs, Steps
<1>13. JobOK(k) BY <1>3, <1>5, <1>6, <1>12 DEF JobOK, Verified
<1>14. /\ DOMAIN jobs' = Tags /\ jobs' = [u \in Tags |-> jobs'[u]]
       /\ \A u \in Tags \ {t} : jobs'[u] = jobs[u]
  BY <1>4, <1>7
<1> QED BY <1>1, <1>2, <1>3, <1>10, <1>12, <1>13, <1>14, OneJobMoves

\* A bundle is a layer.
LEMMA BundleIsALayer == ASSUME NEW j \in Jobs PROVE BundleOf(j) \in Layers
BY DEF Jobs, Layers, BundleOf

\* One layer put on top of another.
LEMMA TwoLayers == ASSUME NEW r, NEW b PROVE Append(<<r>>, b) = <<r, b>>
<1>1. PICK s : s = <<r>> OBVIOUS
<1>2. s \in Seq({r, b}) /\ Len(s) = 1 /\ s[1] = r BY <1>1
<1>3. PICK l : l = Append(s, b) OBVIOUS
<1>4. l \in Seq({r, b}) /\ Len(l) = Len(s) + 1 /\ l[Len(s) + 1] = b
  BY <1>2, <1>3, AppendProperties
<1>5. 1 \in 1..Len(s) BY <1>2
<1>6. l[1] = r BY <1>2, <1>3, <1>5
<1>7. Len(l) = 2 /\ l[2] = b BY <1>2, <1>4
<1>8. l = <<r, b>> BY <1>4, <1>6, <1>7
<1> QED BY <1>1, <1>3, <1>8

\* The new description has one layer more than the runtime's.
LEMMA updateDescriptionOK ==
    ASSUME BuildInv, NEW t \in Tags, updateDescription(t)
    PROVE  BuildInv'
<1>1. Running(t, "describe") /\ UNCHANGED <<workerVars, registry>> BY DEF updateDescription
<1>2. PICK j : j = jobs[t] OBVIOUS
<1>3. j # None /\ j \in Jobs /\ j.step = "describe" /\ JobOK(j) BY <1>1, <1>2, RunningJob
<1>4. jobs \in [Tags -> Jobs \cup {None}] BY DEF BuildInv, JobsOK
<1>5. PICK b : b = BundleOf(j) OBVIOUS
<1>6. PICK l : l = Append(j.diffIds, b) OBVIOUS
<1>7. jobs' = [jobs EXCEPT ![t].step = "manifest", ![t].saved = l]
  BY <1>2, <1>5, <1>6 DEF updateDescription, AddLayer, Bundle
<1>8. b \in Layers BY <1>3, <1>5, BundleIsALayer
<1>9. j.diffIds \in Seq(Layers) BY <1>3 DEF Jobs
<1>10. l \in Seq(Layers) BY <1>6, <1>8, <1>9
<1>11. l = <<history[j.rev].runtime, b>> BY <1>3, <1>6, TwoLayers DEF JobOK
<1>12. PICK k : k = jobs'[t] OBVIOUS
<1>13. k = [j EXCEPT !.step = "manifest", !.saved = l] BY <1>2, <1>4, <1>7, <1>12
<1>14. /\ k \in Jobs /\ k.rev = j.rev /\ k.step = "manifest" /\ k.content = j.content
       /\ k.deps = j.deps /\ k.installed = j.installed
       /\ k.layers = j.layers /\ k.diffIds = j.diffIds /\ k.saved = l
  BY <1>3, <1>10, <1>13 DEF Jobs, Steps
<1>15. BundleOf(k) = b BY <1>5, <1>14 DEF BundleOf
<1>16. JobOK(k) BY <1>3, <1>11, <1>14, <1>15 DEF JobOK, Verified
<1>17. /\ DOMAIN jobs' = Tags /\ jobs' = [u \in Tags |-> jobs'[u]]
       /\ \A u \in Tags \ {t} : jobs'[u] = jobs[u]
  BY <1>4, <1>7
<1> QED BY <1>1, <1>2, <1>3, <1>12, <1>14, <1>16, <1>17, OneJobMoves

\* The manifest lists the same layers as the description it now names.
LEMMA updateManifestOK ==
    ASSUME BuildInv, NEW t \in Tags, updateManifest(t)
    PROVE  BuildInv'
<1>1. Running(t, "manifest") /\ UNCHANGED <<workerVars, registry>> BY DEF updateManifest
<1>2. PICK j : j = jobs[t] OBVIOUS
<1>3. j # None /\ j \in Jobs /\ j.step = "manifest" /\ JobOK(j) BY <1>1, <1>2, RunningJob
<1>4. jobs \in [Tags -> Jobs \cup {None}] BY DEF BuildInv, JobsOK
<1>5. PICK b : b = BundleOf(j) OBVIOUS
<1>6. PICK l : l = Append(j.layers, b) OBVIOUS
<1>7. PICK s : s = j.saved OBVIOUS
<1>8. jobs' = [jobs EXCEPT ![t].step = "push", ![t].diffIds = s, ![t].layers = l]
  BY <1>2, <1>4, <1>5, <1>6, <1>7 DEF updateManifest, Bundle
<1>9. b \in Layers BY <1>3, <1>5, BundleIsALayer
<1>10. j.layers \in Seq(Layers) /\ s \in Seq(Layers) BY <1>3, <1>7 DEF Jobs
<1>11. l \in Seq(Layers) BY <1>6, <1>9, <1>10
<1>12. l = <<history[j.rev].runtime, b>> BY <1>3, <1>6, TwoLayers DEF JobOK
<1>13. s = <<history[j.rev].runtime, b>> BY <1>3, <1>5, <1>7 DEF JobOK
<1>14. PICK k : k = jobs'[t] OBVIOUS
<1>15. k = [j EXCEPT !.step = "push", !.diffIds = s, !.layers = l]
  BY <1>2, <1>4, <1>8, <1>14
<1>16. /\ k \in Jobs /\ k.rev = j.rev /\ k.step = "push" /\ k.content = j.content
       /\ k.deps = j.deps /\ k.installed = j.installed /\ k.layers = l /\ k.diffIds = s
  BY <1>3, <1>10, <1>11, <1>15 DEF Jobs, Steps
<1>17. BundleOf(k) = b BY <1>5, <1>16 DEF BundleOf
<1>18. JobOK(k) BY <1>3, <1>12, <1>13, <1>16, <1>17 DEF JobOK, Verified
<1>19. /\ DOMAIN jobs' = Tags /\ jobs' = [u \in Tags |-> jobs'[u]]
       /\ \A u \in Tags \ {t} : jobs'[u] = jobs[u]
  BY <1>4, <1>8
<1> QED BY <1>1, <1>2, <1>3, <1>14, <1>16, <1>18, <1>19, OneJobMoves

\* The push publishes the directory of a job that is done from then on.
LEMMA skopeoCopyDstOK ==
    ASSUME BuildInv, NEW t \in Tags, skopeoCopyDst(t)
    PROVE  BuildInv'
<1>1. Running(t, "push") BY DEF skopeoCopyDst
<1>2. PICK j : j = jobs[t] OBVIOUS
<1>3. j # None /\ j \in Jobs /\ j.step = "push" /\ JobOK(j) BY <1>1, <1>2, RunningJob
<1>4. jobs \in [Tags -> Jobs \cup {None}] BY DEF BuildInv, JobsOK
<1>5. jobs' = [jobs EXCEPT ![t].step = "done"] BY DEF skopeoCopyDst
<1>6. PICK k : k = jobs'[t] OBVIOUS
<1>7. k = [j EXCEPT !.step = "done"] BY <1>2, <1>4, <1>5, <1>6
<1>8. /\ k \in Jobs /\ k.rev = j.rev /\ k.step = "done" /\ k.content = j.content
      /\ k.deps = j.deps /\ k.installed = j.installed
      /\ k.layers = j.layers /\ k.diffIds = j.diffIds
  BY <1>3, <1>7 DEF Jobs, Steps
<1>9. BundleOf(k) = BundleOf(j) BY <1>8 DEF BundleOf
<1>10. JobOK(k) BY <1>3, <1>8, <1>9 DEF JobOK, Verified
<1>11. \A u \in Tags \ {t} : jobs'[u] = jobs[u] /\ registry'[u] = registry[u]
  BY <1>4, <1>5 DEF skopeoCopyDst, BuildInv, RegistryOK
<1>12. jobs' \in [Tags -> Jobs \cup {None}] BY <1>4, <1>5, <1>6, <1>8, <1>11
<1>13. \A u \in Tags : jobs'[u] # None => JobOK(jobs'[u]) /\ Tag(history[jobs'[u].rev]) = u
  BY <1>2, <1>3, <1>6, <1>8, <1>10, <1>11 DEF BuildInv, JobsOK
<1>14. /\ WorkerOK' /\ history' = history
       /\ configMap' \in configMap..Len(history')
  BY DEF skopeoCopyDst, workerVars, BuildInv, WorkerOK
<1>15. JobsOK' BY <1>12, <1>13, <1>14, JobsStay
<1>16. k # None BY BuildAssumption, <1>8
<1>17. RegistryOK'
  <2>1. DOMAIN registry' = Tags BY DEF skopeoCopyDst, BuildInv, RegistryOK
  <2>2. registry'[t] = [layers |-> j.layers, diffIds |-> j.diffIds]
    BY <1>2 DEF skopeoCopyDst, BuildInv, RegistryOK
  <2> QED BY <1>6, <1>8, <1>11, <1>16, <2>1, <2>2 DEF BuildInv, RegistryOK
<1> QED BY <1>14, <1>15, <1>17 DEF BuildInv

\* A job is created only for a tag that has none, and after the ConfigMap's write.
LEMMA EnsureFuncImageOK ==
    ASSUME BuildInv, NEW ok \in BOOLEAN, EnsureFuncImage(ok)
    PROVE  BuildInv'
<1>1. /\ history \in Seq(Specs) /\ rev \in 1..Len(history) /\ configMap = rev
      /\ Len(history) \in Nat /\ configMap \in rev..Len(history)
  BY DEF EnsureFuncImage, BuildInv, WorkerOK
<1>2. PICK t : t = Tag(history[rev]) OBVIOUS
<1>3. t \in Tags BY <1>1, <1>2, TagOfSpec
<1>4. /\ WorkerOK' /\ history' = history
      /\ configMap' \in configMap..Len(history')
  BY <1>1 DEF EnsureFuncImage, BuildInv, WorkerOK
<1>5. jobs \in [Tags -> Jobs \cup {None}] BY DEF BuildInv, JobsOK
<1>6. PICK n : n = NewJob(rev) OBVIOUS
<1>7. JobOK(n) /\ n.rev = rev /\ n \in Jobs BY <1>1, <1>6, NewJobOK DEF JobOK
<1>8. jobs' = [jobs EXCEPT ![t] = IF ok /\ @ = None THEN n ELSE @] /\ registry' = registry
  BY <1>2, <1>6 DEF EnsureFuncImage, obj
<1>9. \A u \in Tags : jobs'[u] # jobs[u] => u = t /\ jobs[u] = None /\ jobs'[u] = n
  BY <1>5, <1>8
<1>10. jobs' \in [Tags -> Jobs \cup {None}] BY <1>5, <1>7, <1>8
<1>11. \A u \in Tags : jobs'[u] # None => JobOK(jobs'[u]) /\ Tag(history[jobs'[u].rev]) = u
  BY <1>2, <1>7, <1>9 DEF BuildInv, JobsOK
<1>12. RegistryOK' BY <1>8, <1>9 DEF BuildInv, RegistryOK
<1>13. JobsOK' BY <1>4, <1>10, <1>11, JobsStay
<1> QED BY <1>4, <1>12, <1>13 DEF BuildInv

\* The worker's other steps and the user's leave jobs and registry alone.
LEMMA WorkerAndUser ==
    ASSUME BuildInv, UNCHANGED <<jobs, registry>>,
           \/ UNCHANGED vars
           \/ \E s \in Specs : UpdateFunction(s)
           \/ Reconcile \/ EnsureFuncConfigMap \/ EnsureFuncDeployment
           \/ \E answer, retried \in Answers : startImageBuildJob(answer, retried)
    PROVE  BuildInv'
<1>1. /\ history \in Seq(Specs) /\ Len(history) \in Nat /\ rev \in 1..Len(history)
      /\ configMap \in 0..rev
  BY DEF BuildInv, WorkerOK
<1>2. /\ WorkerOK'
      /\ history' = history \/ \E s \in Specs : history' = Append(history, s)
      /\ configMap' \in configMap..Len(history')
  <2>1. CASE UNCHANGED vars BY <1>1, <2>1 DEF vars, BuildInv, WorkerOK
  <2>2. ASSUME NEW s \in Specs, UpdateFunction(s)
        PROVE  /\ WorkerOK' /\ history' = Append(history, s)
               /\ configMap' \in configMap..Len(history')
    <3>1. /\ history' = Append(history, s) /\ history' \in Seq(Specs)
          /\ Len(history') = Len(history) + 1
          /\ rev' = rev /\ configMap' = configMap /\ pc' = pc
      BY <1>1, <2>2 DEF UpdateFunction
    <3> QED BY <1>1, <3>1 DEF BuildInv, WorkerOK
  <2>3. CASE Reconcile BY <1>1, <2>3 DEF Reconcile, BuildInv, WorkerOK
  <2>4. CASE EnsureFuncConfigMap
    BY <1>1, <2>4 DEF EnsureFuncConfigMap, BuildInv, WorkerOK
  <2>5. CASE EnsureFuncDeployment BY <1>1, <2>5 DEF EnsureFuncDeployment, BuildInv, WorkerOK
  <2>6. ASSUME NEW answer \in Answers, NEW retried \in Answers,
               startImageBuildJob(answer, retried)
        PROVE  /\ WorkerOK' /\ history' = history
               /\ configMap' \in configMap..Len(history')
    <3>1. pc = "lookup" /\ configMap' = configMap /\ history' = history /\ rev' = rev
      BY <2>6 DEF startImageBuildJob
    <3>2. configMap = rev BY <3>1 DEF BuildInv, WorkerOK
    <3> QED BY <1>1, <3>1, <3>2 DEF WorkerOK
  <2> QED BY <2>1, <2>2, <2>3, <2>4, <2>5, <2>6
<1>3. JobsOK'
  <2>1. jobs' \in [Tags -> Jobs \cup {None}] BY DEF BuildInv, JobsOK
  <2>2. \A u \in Tags : jobs'[u] # None => JobOK(jobs'[u]) /\ Tag(history[jobs'[u].rev]) = u
    BY DEF BuildInv, JobsOK
  <2> QED BY <1>2, <2>1, <2>2, JobsStay
<1>4. RegistryOK' BY DEF BuildInv, RegistryOK
<1> QED BY <1>2, <1>3, <1>4 DEF BuildInv

\* Every step preserves BuildInv.
LEMMA NextBuild == BuildInv /\ [Next]_vars => BuildInv'
<1> SUFFICES ASSUME BuildInv, [Next]_vars PROVE BuildInv' OBVIOUS
<1>1. CASE UNCHANGED vars BY <1>1, WorkerAndUser DEF vars
<1>2. ASSUME NEW s \in Specs, UpdateFunction(s) PROVE BuildInv'
  BY <1>2, WorkerAndUser DEF UpdateFunction
<1>3. CASE Reconcile BY <1>3, WorkerAndUser DEF Reconcile
<1>4. CASE EnsureFuncConfigMap BY <1>4, WorkerAndUser DEF EnsureFuncConfigMap
<1>5. ASSUME NEW answer \in Answers, NEW retried \in Answers,
             startImageBuildJob(answer, retried)
      PROVE  BuildInv'
  <2>1. UNCHANGED <<jobs, registry>> BY <1>5 DEF startImageBuildJob
  <2> QED BY <1>5, <2>1, WorkerAndUser
<1>6. ASSUME NEW ok \in BOOLEAN, EnsureFuncImage(ok) PROVE BuildInv'
  BY <1>6, EnsureFuncImageOK
<1>7. CASE EnsureFuncDeployment BY <1>7, WorkerAndUser DEF EnsureFuncDeployment
<1>8. ASSUME NEW t \in Tags, JobSteps(t) PROVE BuildInv'
  BY <1>8, PrepareChecksOK, PrepareCopiesOK, GetBuildContainerOK, skopeoCopySrcOK,
     updateDescriptionOK, updateManifestOK, skopeoCopyDstOK DEF JobSteps
<1>9. ASSUME NEW t \in Tags, BuilderFails(t) PROVE BuildInv' BY <1>9, BuilderFailsOK
<1> QED BY <1>1, <1>2, <1>3, <1>4, <1>5, <1>6, <1>7, <1>8, <1>9 DEF Next, Worker

-----------------------------------------------------------------------------
(* Theorems                                                                *)

\* Throughout, every job's volumes hold what its step says, every job is the one of its
\* tag and no newer than the ConfigMap, and an image is what the tag's finished job had
\* in its directory.
THEOREM BuildInvariant == Spec => []BuildInv
<1>1. Init => BuildInv BY InitBuild
<1>2. BuildInv /\ [Next]_vars => BuildInv' BY NextBuild
<1> QED BY <1>1, <1>2, PTL DEF Spec

\* What the job of a published tag has in its directory.
LEMMA Published ==
    ASSUME BuildInv, NEW t \in Tags, registry[t] # None
    PROVE  /\ JobOK(jobs[t]) /\ jobs[t].step = "done" /\ Tag(JobSpec(t)) = t
           /\ registry[t].layers = <<JobSpec(t).runtime, Bundle(t)>>
           /\ registry[t].diffIds = registry[t].layers
<1>1. /\ JobOK(jobs[t]) /\ jobs[t].step = "done" /\ Tag(history[jobs[t].rev]) = t
      /\ registry[t].layers = jobs[t].layers /\ registry[t].diffIds = jobs[t].diffIds
  BY DEF BuildInv, JobsOK, RegistryOK
<1>2. /\ jobs[t].layers = <<history[jobs[t].rev].runtime, BundleOf(jobs[t])>>
      /\ jobs[t].diffIds = jobs[t].layers
  BY <1>1 DEF JobOK
<1> QED BY <1>1, <1>2 DEF JobSpec, Bundle

\* A published image is the runtime's image plus one layer, described as it is listed:
\* add-layer (image_builder.go) may be restarted at any step, any number of times.
THEOREM WellFormedImageTheorem == Spec => []WellFormedImage
<1>1. BuildInv => WellFormedImage
  <2> SUFFICES ASSUME BuildInv, NEW t \in Tags, registry[t] # None
               PROVE  /\ Len(registry[t].layers) = 2
                      /\ registry[t].layers[1] = JobSpec(t).runtime
                      /\ registry[t].diffIds = registry[t].layers
    BY DEF WellFormedImage
  <2>1. PICK l, r, b : l = registry[t].layers /\ r = JobSpec(t).runtime /\ b = Bundle(t) OBVIOUS
  <2>2. l = <<r, b>> /\ registry[t].diffIds = l BY <2>1, Published
  <2>3. Len(l) = 2 /\ l[1] = r BY <2>2
  <2> QED BY <2>1, <2>2, <2>3
<1> QED BY <1>1, BuildInvariant, PTL

\* Whatever kinds of content the revisions have, with or without a checksum, and however
\* the ConfigMap was rewritten while the pod read it (kubelessutil.go:85-149): what is
\* published under a tag was built for a revision with that tag, from a content that is
\* the verified one, or for plain text and for base64 without a checksum one no older
\* than that revision, and with exactly that revision's dependencies installed.
THEOREM BuiltFromItsSpecTheorem == Spec => []BuiltFromItsSpec
<1>1. BuildInv => BuiltFromItsSpec
  <2> SUFFICES ASSUME BuildInv, NEW t \in Tags, registry[t] # None
               PROVE  /\ Tag(JobSpec(t)) = t
                      /\ Sourced(jobs[t].rev, registry[t].layers[2].content)
                      /\ registry[t].layers[2].installed = JobSpec(t).deps
    BY DEF BuiltFromItsSpec
  <2>1. /\ JobOK(jobs[t]) /\ jobs[t].step = "done" /\ Tag(JobSpec(t)) = t
        /\ registry[t].layers = <<JobSpec(t).runtime, Bundle(t)>>
    BY Published
  <2>2. PICK b : b = registry[t].layers[2] OBVIOUS
  <2>3. b = BundleOf(jobs[t]) BY <2>1, <2>2 DEF Bundle
  <2>4. b.content = jobs[t].content /\ b.installed = jobs[t].installed BY <2>3 DEF BundleOf
  <2>5. Sourced(jobs[t].rev, jobs[t].content) /\ jobs[t].installed = JobSpec(t).deps
    BY <2>1 DEF JobOK, Verified, JobSpec
  <2> QED BY <2>1, <2>2, <2>4, <2>5
<1> QED BY <1>1, BuildInvariant, PTL

=============================================================================
