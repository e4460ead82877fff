------------------------------- MODULE Client -------------------------------
(***************************************************************************)
(* The client process, from a call of run_job to the job's completion:     *)
(*   crates/maelstrom-client-process/src/{client,preparer,router}.rs,      *)
(*   preparer/task.rs and client/layer_builder.rs.                         *)
(*                                                                         *)
(* The preparer's task collapses a job's spec, waits for its image and     *)
(* layers, and hands it back; run_job then sends it to the router's task,  *)
(* which gives it to the broker or the local worker and answers what they  *)
(* ask.  Images are fetched and layers built by tasks of their own, at     *)
(* most MaxPendingLayerBuilds layers at a time.  A build reads and writes  *)
(* files, and announces to the router the path of each artifact it has     *)
(* hashed (Uploader::upload).                                              *)
(*                                                                         *)
(* A message to the preparer is handled in the step that sends it: its     *)
(* senders are tasks of their own that may take any time to send.  The     *)
(* router's channel is a queue, because what is announced before a job     *)
(* must arrive before it.  The broker and the local worker are held to     *)
(* what JobService says of them: they tell of a job until they answer it.  *)
(*                                                                         *)
(* A definition named D_Slip, just before D, is D with a plausible slip;   *)
(* no behaviour uses it, PROJECT.json lists the property it would break.   *)
(***************************************************************************)
EXTENDS CollapsedJobSpec

CONSTANTS
  Job,      \* calls of run_job
  SpecOf,   \* the container in a job's spec
  Rejected, \* jobs whose environment or mounts are refused by into_job_spec
  Local,    \* jobs for which must_be_run_locally
  Container,   \* the specs that containers may be given
  Settings, \* bound: the containers there are when jobs are run
  Layer,    \* LayerSpecs
  Steps,    \* what a layer's build does, in order, see Write and Upload
  Image,    \* image names
  Contents, \* what an image has, as in IntegrateImage
  Path,     \* canonical paths of artifacts
  Digest,   \* digests, and the contents they stand for
  Files,    \* the contents of the files the client does not write itself
  Standalone,            \* no broker
  MaxPendingLayerBuilds, \* MAX_PENDING_LAYER_BUILDS
  MaxFailures            \* bound: builds and image fetches that fail

ASSUME BuildsAssumption == MaxPendingLayerBuilds \in Nat \ {0} /\ MaxFailures \in Nat

ASSUME SpecsAssumption ==
  /\ "layers" \in ListUse \cap ImageUse
  /\ \A c \in Container \cup {SpecOf[j] : j \in Job} :
       /\ c.val["layers"] \in Seq(Layer)
       /\ c.parent \in {NoParent}
            \cup [kind : {"container"}, name : Name, use : SUBSET ContainerUse]
            \cup [kind : {"image"}, name : Image, use : SUBSET ContainerUse]
  /\ \A i \in Image : Contents[i].val["layers"] \in Seq(Layer)

\* The steps of a build: write a manifest, by a rename, and upload a file.
Write(path, digest) == [op |-> "write", path |-> path, digest |-> digest]
Upload(path) == [op |-> "upload", path |-> path]

ASSUME FilesAssumption ==
  /\ None \notin Path \cup Digest
  /\ Files \in [Path -> Digest \cup {None}]
  /\ Steps \in [Layer -> Seq({Write(p, d) : p \in Path, d \in Digest}
                            \cup {Upload(p) : p \in Path})]
  /\ \A l \in Layer : \A n \in DOMAIN Steps[l] :
       Steps[l][n].op = "write" => Files[Steps[l][n].path] = None

VARIABLES
  containers,  \* Preparer::containers
  images,      \* Preparer::images
  layers,      \* Preparer::layers
  jobs,        \* Preparer::jobs
  pending,     \* LayerBuilds::pending
  waiting,     \* LayerBuilds::waiting
  building,    \* the tasks spawned by Adapter::build_layer
  files,       \* the contents at each path
  processed,   \* ClientStateLocked::processed_artifact_digests
  routerQueue, \* the AddArtifact and RunJob messages to the router
  artifacts,   \* Router::artifacts
  routed,      \* the keys of Router::jobs
  atBroker,    \* jobs sent to the broker and not answered
  atWorker,    \* jobs sent to the local worker and not answered
  phase,       \* how far each call of run_job is
  prepared,    \* the spec that the call got from the preparer
  failures,    \* builds and fetches that have failed
  broken       \* a task has panicked or ended with an error

preparerVars == <<containers, images, layers, jobs, pending, waiting>>
buildVars == <<building, files, processed>>
routerVars == <<routerQueue, artifacts, routed, atBroker, atWorker>>
vars == <<preparerVars, buildVars, routerVars, phase, prepared, failures, broken>>

Unknown == [st |-> "none"]
Getting(wait) == [st |-> "getting", wait |-> wait]
Got(x) == [st |-> "got", val |-> x]
Err == [st |-> "err"]

NotBuilding == [step |-> 0, digest |-> None]

\* There is no such job, or it has been prepared.
NoJob == [spec |-> None]

Init ==
  /\ containers = [k \in Name |-> None]
  /\ images = [i \in Image |-> Unknown] /\ layers = [l \in Layer |-> Unknown]
  /\ jobs = [j \in Job |-> NoJob]
  /\ pending = 0 /\ waiting = <<>>
  /\ building = [l \in Layer |-> NotBuilding]
  /\ files = Files /\ processed = {}
  /\ routerQueue = <<>> /\ artifacts = [d \in Digest |-> None]
  /\ routed = {} /\ atBroker = {} /\ atWorker = {}
  /\ phase = [j \in Job |-> "none"] /\ prepared = [j \in Job |-> None]
  /\ failures = 0 /\ broken = FALSE

(***************************************************************************)
(* The preparer, on a record p of its state.                               *)
(***************************************************************************)
Now == [layers |-> layers, jobs |-> jobs, pending |-> pending,
        waiting |-> waiting, building |-> building, failed |-> {}, panic |-> FALSE]

\* Adapter::build_layer spawns the build.
Build(p, l) == [p EXCEPT !.building[l].step = 1]

\* LayerBuilds::push
Push(p, l) ==
  IF p.pending < MaxPendingLayerBuilds
  THEN Build([p EXCEPT !.pending = @ + 1], l)
  ELSE [p EXCEPT !.waiting = Append(@, l)]

Pop_Forgetful(p) == [p EXCEPT !.pending = @ - 1]

\* LayerBuilds::pop: the first that waits takes the place of the one that ended.
Pop(p) ==
  IF p.waiting # <<>>
  THEN Build([p EXCEPT !.waiting = Tail(@)], Head(p.waiting))
  ELSE [p EXCEPT !.pending = @ - 1,
                 !.panic = @ \/ p.pending \notin 1 .. MaxPendingLayerBuilds]

Joined_First(entry, waiter) ==
  IF entry.st = "none" THEN Getting({waiter}) ELSE entry

\* The entry of a layer that a job waits for as well.
Joined(entry, waiter) ==
  Getting((IF entry.st = "none" THEN {} ELSE entry.wait) \cup {waiter})

\* One layer of evaluate_layers, on a record r of the preparer's state, what was
\* found so far, and whether there was an error.
EvaluateLayer(r, l, waiter) ==
  LET entry == r.p.layers[l]
      pushed == IF entry.st = "none" THEN Push(r.p, l) ELSE r.p
  IN
  IF r.err THEN r
  ELSE CASE entry.st = "err" -> [r EXCEPT !.err = TRUE]
         [] entry.st = "got" -> [r EXCEPT !.found = Append(@, entry.val)]
         [] OTHER -> [r EXCEPT !.p = [pushed EXCEPT !.layers[l] = Joined(entry, waiter)],
                               !.found = Append(@, None)]

\* evaluate_layers, of the image or of the job's own
EvaluateLayers(p, ls, j, image) ==
  FoldLeft(LAMBDA r, i : EvaluateLayer(r, ls[i], <<image, j, i>>),
           [p |-> p, found |-> <<>>, err |-> FALSE], [i \in DOMAIN ls |-> i])

\* is_ready
IsReady(job) ==
  /\ job.spec.image = None
  /\ None \notin ToSet(job.imageLayers) \cup ToSet(job.layers)

JobError_Silent(p, j) == [p EXCEPT !.jobs[j] = NoJob]

\* job_error, which does nothing for a job that is gone.
JobError(p, j) ==
  IF p.jobs[j] = NoJob THEN p
  ELSE [p EXCEPT !.jobs[j] = NoJob, !.failed = @ \cup {j}]

\* The assertions of integrate_image: nothing is set that it sets.
MayIntegrate(spec) ==
  \A u \in spec.image.use :
    IF u \in ListUse THEN spec.imageVal[u] = <<>> ELSE spec.val[u] = None

\* got_image_success, for an image with contents c: started when it is ready.
GotImageSuccess(p, j, c) ==
  LET job == p.jobs[j]
      spec == IntegrateImage(job.spec, c)
      asserted == [p EXCEPT !.panic = @ \/ ~MayIntegrate(job.spec)]
      r == EvaluateLayers(asserted, spec.imageVal["layers"], j, TRUE)
  IN
  IF job = NoJob THEN p
  ELSE IF spec = None THEN JobError(asserted, j)
  ELSE IF r.err THEN JobError(r.p, j)
  ELSE [r.p EXCEPT !.jobs[j].spec = spec, !.jobs[j].imageLayers = r.found]

\* into_handle_and_spec: the environment is evaluated, and the spec checked.
Accepted(j, job) ==
  /\ j \notin Rejected
  /\ job.imageLayers \o job.layers # <<>>

BaseSpec_LayersFirst(job) ==
  [spec |-> job.spec, layers |-> job.layers \o job.imageLayers]

\* into_job_spec: the layers of the image come first.
BaseSpec(job) == [spec |-> job.spec, layers |-> job.imageLayers \o job.layers]

\* The handler ends with the state p.  Those of the jobs J it looked at that
\* have all they need are started, and job_prepared answers them and the failed.
Settle(p, J) ==
  LET ready == {j \in J : p.jobs[j] # NoJob /\ IsReady(p.jobs[j])}
      good == {j \in ready : Accepted(j, p.jobs[j])}
  IN
  /\ layers' = p.layers /\ pending' = p.pending /\ waiting' = p.waiting
  /\ building' = p.building /\ broken' = (broken \/ p.panic)
  /\ jobs' = [j \in Job |-> IF j \in ready THEN NoJob ELSE p.jobs[j]]
  /\ prepared' = [j \in Job |-> IF j \in good THEN BaseSpec(p.jobs[j]) ELSE prepared[j]]
  /\ phase' = [j \in Job |->
       IF j \in good THEN "prepared"
       ELSE IF j \in ready \cup p.failed THEN "failed"
       ELSE IF p.jobs[j] # NoJob THEN "preparing" ELSE phase[j]]

(***************************************************************************)
(* The preparer's messages.                                                *)
(***************************************************************************)
\* receive_add_container
AddContainer(k, c) ==
  /\ \A j \in Job : phase[j] = "none"
  /\ containers' = [containers EXCEPT ![k] = c]
  /\ UNCHANGED <<images, layers, jobs, pending, waiting, buildVars, routerVars,
                 phase, prepared, failures, broken>>

\* receive_prepare_job, up to the image
Evaluated(j, spec) ==
  LET r == EvaluateLayers(Now, spec.val["layers"], j, FALSE)
      job == [spec |-> spec, imageLayers |-> <<>>, layers |-> r.found]
  IN  IF spec.err \/ r.err THEN [r.p EXCEPT !.failed = {j}]
      ELSE [r.p EXCEPT !.jobs[j] = job]

\* receive_prepare_job
PrepareJob(j) ==
  LET spec == Collapse(SpecOf[j], containers)
      p == IF spec.err THEN [Now EXCEPT !.failed = {j}] ELSE Evaluated(j, spec)
      i == spec.image.name
  IN
  /\ phase[j] = "none" /\ containers \in Settings
  /\ IF p.failed # {} \/ spec.image = None THEN Settle(p, {j}) /\ UNCHANGED images
     ELSE CASE images[i].st = "none" ->
                 /\ images' = [images EXCEPT ![i] = Getting(<<j>>)]
                 /\ Settle(p, {})
            [] images[i].st = "getting" ->
                 /\ images' = [images EXCEPT ![i].wait = Append(@, j)]
                 /\ Settle(p, {})
            [] images[i].st = "got" ->
                 Settle(GotImageSuccess(p, j, Contents[i]), {j}) /\ UNCHANGED images
            [] images[i].st = "err" ->
                 Settle(JobError(p, j), {j}) /\ UNCHANGED images
  /\ UNCHANGED <<containers, files, processed, routerVars, failures>>

\* The fetch of get_image ends, and receive_got_image has the image.
GotImage(i) ==
  LET wait == images[i].wait IN
  /\ images[i].st = "getting"
  /\ images' = [images EXCEPT ![i] = Got(i)]
  /\ Settle(FoldLeft(LAMBDA p, j : GotImageSuccess(p, j, Contents[i]), Now, wait),
            ToSet(wait))
  /\ UNCHANGED <<containers, files, processed, routerVars, failures>>

\* The fetch fails: so do all that wait for it, then and later.
GotImageError(i) ==
  LET wait == images[i].wait IN
  /\ images[i].st = "getting" /\ failures < MaxFailures
  /\ failures' = failures + 1
  /\ images' = [images EXCEPT ![i] = Err]
  /\ Settle(FoldLeft(JobError, Now, wait), ToSet(wait))
  /\ UNCHANGED <<containers, files, processed, routerVars>>

\* The digest d of a layer takes its place in a job that waits for it.
Filled(p, w, d) ==
  LET j == w[2]
      slots == IF w[1] THEN p.jobs[j].imageLayers ELSE p.jobs[j].layers
      filled == [slots EXCEPT ![w[3]] = d]
  IN
  IF p.jobs[j] = NoJob THEN p
  ELSE IF w[3] \notin DOMAIN slots THEN [p EXCEPT !.panic = TRUE]
  ELSE IF w[1] THEN [p EXCEPT !.jobs[j].imageLayers = filled]
  ELSE [p EXCEPT !.jobs[j].layers = filled]

\* receive_got_layer, with what the build of l came to, an error if None
GotLayer(l) ==
  LET d == building[l].digest
      wait == layers[l].wait
      p == Pop([Now EXCEPT !.layers[l] = IF d = None THEN Err ELSE Got(d),
                           !.building[l] = NotBuilding,
                           !.panic = layers[l].st # "getting"])
  IN
  /\ building[l].step > Len(Steps[l])
  /\ Settle(FoldLeft(LAMBDA q, w : IF d = None THEN JobError(q, w[2]) ELSE Filled(q, w, d),
                     p, SetToSeq(wait)),
            {w[2] : w \in wait})
  /\ UNCHANGED <<containers, images, files, processed, routerVars, failures>>

(***************************************************************************)
(* The builds.                                                             *)
(***************************************************************************)
\* A manifest is written beside its path, which is derived from the paths of the
\* files in it, and moved there.
BuildWrites(l) ==
  LET b == building[l] IN
  /\ b.step \in 1 .. Len(Steps[l]) /\ Steps[l][b.step].op = "write"
  /\ files' = [files EXCEPT ![Steps[l][b.step].path] = Steps[l][b.step].digest]
  /\ building' = [building EXCEPT ![l].step = @ + 1]
  /\ UNCHANGED <<preparerVars, processed, routerVars, phase, prepared, failures, broken>>

Announced_Written(d, path) ==
  IF d \in processed \/ Files[path] # None THEN routerQueue
  ELSE Append(routerQueue, [kind |-> "AddArtifact", digest |-> d, path |-> path])

\* The router's channel, if a digest is announced that was not before.
Announced(d, path) ==
  IF d \in processed THEN routerQueue
  ELSE Append(routerQueue, [kind |-> "AddArtifact", digest |-> d, path |-> path])

\* Uploader::upload holds its lock from the digest to the message, which is sent
\* once for each digest.  The last upload of a build is that of the layer.
BuildUploads(l) ==
  LET b == building[l]
      path == Steps[l][b.step].path
      d == files[path]
  IN
  /\ b.step \in 1 .. Len(Steps[l]) /\ Steps[l][b.step].op = "upload"
  /\ d # None
  /\ building' = [building EXCEPT ![l] = [step |-> b.step + 1, digest |-> d]]
  /\ processed' = processed \cup {d}
  /\ routerQueue' = Announced(d, path)
  /\ UNCHANGED <<preparerVars, files, artifacts, routed, atBroker, atWorker, phase,
                 prepared, failures, broken>>

\* A file cannot be read or written: the build ends with an error.
BuildFails(l) ==
  /\ building[l].step \in 1 .. Len(Steps[l]) /\ failures < MaxFailures
  /\ failures' = failures + 1
  /\ building' = [building EXCEPT ![l] = [step |-> Len(Steps[l]) + 1, digest |-> None]]
  /\ UNCHANGED <<preparerVars, files, processed, routerVars, phase, prepared, broken>>

(***************************************************************************)
(* run_job and the router.                                                 *)
(***************************************************************************)
\* run_job gets the prepared spec and sends it to the router.
Submit(j) ==
  /\ phase[j] = "prepared"
  /\ phase' = [phase EXCEPT ![j] = "running"]
  /\ routerQueue' = Append(routerQueue, [kind |-> "RunJob", job |-> j])
  /\ UNCHANGED <<preparerVars, buildVars, artifacts, routed, atBroker, atWorker,
                 prepared, failures, broken>>

AddArtifact ==
  LET msg == Head(routerQueue) IN
  /\ routerQueue # <<>> /\ msg.kind = "AddArtifact"
  /\ routerQueue' = Tail(routerQueue)
  /\ artifacts' = [artifacts EXCEPT ![msg.digest] = msg.path]
  /\ UNCHANGED <<preparerVars, buildVars, routed, atBroker, atWorker, phase, prepared,
                 failures, broken>>

RunJob ==
  LET j == Head(routerQueue).job IN
  /\ routerQueue # <<>> /\ Head(routerQueue).kind = "RunJob"
  /\ routerQueue' = Tail(routerQueue)
  /\ routed' = routed \cup {j}
  /\ IF Standalone \/ j \in Local
     THEN atWorker' = atWorker \cup {j} /\ UNCHANGED atBroker
     ELSE atBroker' = atBroker \cup {j} /\ UNCHANGED atWorker
  /\ UNCHANGED <<preparerVars, buildVars, artifacts, phase, prepared, failures, broken>>

\* A JobStatusUpdate of the broker or the local worker for a job they have not
\* answered; unwrap panics if the router does not know it.
JobStatusUpdate(j) ==
  /\ j \in atBroker \cup atWorker
  /\ broken' = (broken \/ j \notin routed)
  /\ UNCHANGED <<preparerVars, buildVars, routerVars, phase, prepared, failures>>

\* The JobResponse of the broker or the local worker, and receive_job_response
JobResponse(j) ==
  /\ j \in atBroker \cup atWorker
  /\ atBroker' = atBroker \ {j} /\ atWorker' = atWorker \ {j}
  /\ routed' = routed \ {j}
  /\ phase' = [phase EXCEPT ![j] = "done"]
  /\ broken' = (broken \/ j \notin routed)
  /\ UNCHANGED <<preparerVars, buildVars, routerQueue, artifacts, prepared, failures>>

\* The artifacts in a layer, itself included: all that its build uploads.
Uploads(l) ==
  {Steps[l][n].path : n \in {m \in DOMAIN Steps[l] : Steps[l][m].op = "upload"}}

\* What a job's layers are: the layers of its spec and image.
LayersOf(spec) == spec.imageVal["layers"] \o spec.val["layers"]

\* The broker asks for an artifact (TransferArtifact), or the local worker does
\* (LocalWorkerStartArtifactFetch): of a layer of a job they have, or listed in
\* one.  The router's task ends, or the job fails, if it does not know it.
ArtifactWanted(d) ==
  /\ \E j \in atBroker \cup atWorker :
       \/ d \in ToSet(prepared[j].layers)
       \/ \E l \in ToSet(LayersOf(prepared[j].spec)) :
            \E path \in Uploads(l) : Files[path] # None /\ d = Files[path]
  /\ broken' = (broken \/ artifacts[d] = None)
  /\ UNCHANGED <<preparerVars, buildVars, routerVars, phase, prepared, failures>>

-----------------------------------------------------------------------------
Next ==
  \/ \E k \in Name, c \in Container : AddContainer(k, c)
  \/ \E j \in Job : PrepareJob(j) \/ Submit(j) \/ JobStatusUpdate(j) \/ JobResponse(j)
  \/ \E i \in Image : GotImage(i) \/ GotImageError(i)
  \/ \E l \in Layer : GotLayer(l) \/ BuildWrites(l) \/ BuildUploads(l) \/ BuildFails(l)
  \/ AddArtifact \/ RunJob
  \/ \E d \in Digest : ArtifactWanted(d)

Spec == Init /\ [][Next]_vars

\* The tasks run: messages are taken, builds and fetches end, and whoever got a
\* job answers it (EveryJobAnswered in Scheduler and in Dispatcher).  The last
\* two are weak fairness as well, with the guard instead of ENABLED, which TLC
\* is slow to find for them.
Fairness ==
  /\ \A j \in Job : WF_vars(Submit(j)) /\ WF_vars(JobResponse(j))
  /\ \A l \in Layer : WF_vars(BuildWrites(l) \/ BuildUploads(l) \/ BuildFails(l))
  /\ WF_vars(AddArtifact \/ RunJob)
  /\ \A i \in Image :
       <>[](images[i].st = "getting") => []<><<GotImage(i) \/ GotImageError(i)>>_vars
  /\ \A l \in Layer :
       <>[](building[l].step > Len(Steps[l])) => []<><<GotLayer(l)>>_vars

FairSpec == Spec /\ Fairness

-----------------------------------------------------------------------------
(***************************************************************************)
(* Properties                                                              *)
(***************************************************************************)
\* No unwrap or assertion of the two tasks fails, and neither the broker nor the
\* local worker asks for an artifact the router has not heard of: an artifact is
\* announced before the layer it belongs to is handed to any job.
NothingBreaks == ~broken

\* The count of builds is that of the builds there are, within the limit; layers
\* wait for a build only while the limit is reached; and every layer that jobs
\* wait for is being built or waits to be, once.
BuildsAccounted ==
  LET running == {l \in Layer : building[l].step > 0} IN
  /\ pending = Cardinality(running) /\ pending <= MaxPendingLayerBuilds
  /\ waiting # <<>> => pending = MaxPendingLayerBuilds
  /\ {l \in Layer : layers[l].st = "getting"} = running \cup ToSet(waiting)
  /\ Cardinality(ToSet(waiting)) = Len(waiting) /\ ToSet(waiting) \cap running = {}

\* Wherever a job lacks a layer, the layer is awaited and will fill that place;
\* a job that lacks its image is on the image's list; and no job is kept that
\* lacks nothing.
EveryJobIsAwaited ==
  \A j \in {k \in Job : jobs[k] # NoJob} :
    LET spec == jobs[j].spec
        Awaited(image, ls, found) ==
          \A i \in DOMAIN found :
            found[i] = None => /\ layers[ls[i]].st = "getting"
                               /\ <<image, j, i>> \in layers[ls[i]].wait
    IN
    /\ ~IsReady(jobs[j])
    /\ spec.image # None => /\ images[spec.image.name].st = "getting"
                            /\ j \in ToSet(images[spec.image.name].wait)
    /\ Awaited(TRUE, spec.imageVal["layers"], jobs[j].imageLayers)
    /\ Awaited(FALSE, spec.val["layers"], jobs[j].layers)

\* What a layer's spec describes: what its build writes, or the file it names.
Described(l) ==
  LET last == Steps[l][Len(Steps[l])]
      writes == {n \in DOMAIN Steps[l] : Steps[l][n].op = "write"}
  IN  IF writes = {} THEN Files[last.path]
      ELSE Steps[l][CHOOSE n \in writes : TRUE].digest

\* A job is run with the layers of its image and then its own, in the order of
\* its spec, each the artifact that its layer spec describes.
PreparedAsSpecified ==
  \A j \in {k \in Job : prepared[k] # None} :
    LET ls == LayersOf(prepared[j].spec) IN
    prepared[j].layers = [i \in DOMAIN ls |-> Described(ls[i])]

\* Whatever containers were added, before any job is run and they stay, a spec is
\* collapsed to what its ancestors say, see CollapsedAsDescribed.
CollapsesAsDescribed ==
  (\A j \in Job : phase[j] = "none") =>
    \A c \in Container \cup {SpecOf[j] : j \in Job} :
      CollapsedAsDescribed(c, containers)

\* Every call of run_job comes to an end: it gets an error, or the job completes.
EveryRunJobEnds ==
  \A j \in Job : phase[j] # "none" ~> phase[j] \in {"failed", "done"}
=============================================================================
