----------------------------- MODULE Dispatcher -----------------------------
(***************************************************************************)
(* A worker's dispatcher: crates/maelstrom-worker/src/dispatcher.rs, with  *)
(* the trackers of its jobs (LayerTracker) and its cache (CacheOps).       *)
(*                                                                         *)
(* It runs on one task that receives one message at a time; one action is  *)
(* one message.  Around it are                                             *)
(*   - the broker, which enqueues a job once and may cancel it any time    *)
(*     after, also when it has been answered;                              *)
(*   - the fetches, builds and reads it starts, each of which sends one    *)
(*     message when it ends, in any order;                                 *)
(*   - the executor, which says that a job has completed, also when it has *)
(*     been killed, and the timers;                                        *)
(*   - a signal or a connection error, which shuts the dispatcher down.    *)
(*                                                                         *)
(* A handler's steps are operators on the record of the dispatcher's       *)
(* state, and the action assigns the last record to the variables.         *)
(***************************************************************************)
EXTENDS LayerTracker

CONSTANTS
  Rank,         \* AvailableJob::cmp: by priority, then estimated duration
  Slots,        \* Dispatcher::slots
  Timeout,      \* the jobs with a timeout
  KeyOrders,    \* the orders in which keys come out of a hash set
  \* Bounds on what happens around the dispatcher:
  Batches,      \* the sets of jobs that the broker may send together
  Cancellable,  \* the jobs the broker may cancel
  MayFail,      \* the fetches and builds that may fail, and the reads that
                \* may when they are for no other job: <<manifest, job>>
  MayStick,     \* the keys whose removal from the cache may fail: what is left
                \* may then be in the way of the next fetch, which may fail
  MayShutDown   \* whether the dispatcher may be told to shut down

ASSUME DispatcherAssumption ==
  /\ Rank \in [Job -> Nat] /\ Slots \in Nat \ {0}
  /\ Batches \subseteq SUBSET Job
  /\ Timeout \subseteq Job /\ Cancellable \subseteq Job
  /\ KeyOrders \subseteq {ord \in Seq(Key) : ToSet(ord) = Key /\ IsInjective(ord)}
  /\ MayFail \subseteq Key \cup (Manifest \X Job) /\ MayStick \subseteq Key \cap MayFail
  /\ MayShutDown \in BOOLEAN

VARIABLES
  cache,      \* Dispatcher::cache
  job,        \* awaiting_layers, available and executing
  shutDown,   \* Dispatcher::shut_down
  enqueued,   \* the jobs the broker has sent
  cancelled,  \* the jobs the broker has cancelled
  tasks,      \* artifact fetches and layer builds that have not ended
  digests,    \* DispatcherAdapter::manifest_digest_cache, and its messages
  timers,     \* jobs whose JobTimer message may still come
  status,     \* the last JobStatusUpdate sent for a job
  responses   \* the outcomes of the JobResponses sent for a job

dispatcherVars == <<cache, job, shutDown>>
envVars == <<enqueued, cancelled, tasks, digests, timers, status, responses>>
workerVars == <<dispatcherVars, envVars>>
vars == <<workerVars, stuck>>

NoJob == [st |-> "none"]
Available(keys) == [st |-> "available", keys |-> keys]
Executing(mode, keys) == [st |-> "executing", mode |-> mode, keys |-> keys]

InState(jobs, st) == {j \in Job : jobs[j].st = st}

Now == [cache |-> cache, job |-> job, tasks |-> tasks, digests |-> digests,
        timers |-> timers, status |-> status, responses |-> responses,
        closed |-> shutDown]

Become(s) ==
  /\ cache' = s.cache /\ job' = s.job /\ tasks' = s.tasks
  /\ digests' = s.digests /\ timers' = s.timers
  /\ status' = s.status /\ responses' = s.responses

\* The loop ends with a panic, or when it is shut down and nothing executes.
Running ==
  /\ ~cache.panicked
  /\ ~(shutDown /\ InState(job, "executing") = {})

\* BrokerSender: nothing is sent once it is closed.
SendStatus(s, j, st) ==
  IF s.closed THEN s ELSE [s EXCEPT !.status[j] = st]
Respond(s, j, outcome) ==
  IF s.closed THEN s ELSE [s EXCEPT !.responses[j] = Append(@, outcome)]

\* ord is the order in which the keys come out of the hash set.
Release(s, keys, ord) ==
  LET Let(c, k) == IF k \in keys THEN Cache!Decremented(c, k) ELSE c IN
  [s EXCEPT !.cache = FoldLeft(Let, @, ord)]

-----------------------------------------------------------------------------
Best(s) ==
  {j \in InState(s.job, "available") :
     \A k \in InState(s.job, "available") : Rank[k] <= Rank[j]}

CanStart(s) ==
  Cardinality(InState(s.job, "executing")) < Slots /\ Best(s) # {}

\* possibly_start_job, for one of the best available jobs
Start(s, j) ==
  SendStatus([s EXCEPT !.job[j] = Executing("nominal", s.job[j].keys),
                       !.timers = IF j \in Timeout THEN @ \cup {j} ELSE @],
             j, "executing")

\* make_job_available.  While a slot is free nothing else is available, so the
\* job started is the only one there is.
MakeAvailable(s, j) ==
  LET h == [s EXCEPT !.job[j] = Available(s.job[j].keys)] IN
  IF CanStart(h) THEN Start(h, CHOOSE k \in Best(h) : TRUE)
  ELSE SendStatus(h, j, "waiting")

AdvanceJob_KeepReference(s, j, k, told) ==
  IF s.job[j].st # "awaiting" THEN s
  ELSE IF IsComplete(told.job[j], j) THEN MakeAvailable(told, j) ELSE told

\* advance_job, where told is the state s once the job's tracker has been told
\* of k: a job that has failed or was cancelled releases what it got.
AdvanceJob(s, j, k, told) ==
  IF s.job[j].st # "awaiting"
  THEN [s EXCEPT !.cache = Cache!Decremented(@, k)]
  ELSE IF IsComplete(told.job[j], j) THEN MakeAvailable(told, j) ELSE told

\* job_failure
JobFailure(s, j, ord) ==
  IF s.job[j].st # "awaiting" THEN s
  ELSE Release([Respond(s, j, "error") EXCEPT !.job[j] = NoJob],
               s.job[j].keys, ord)

-----------------------------------------------------------------------------
Init ==
  /\ cache = Cache!EmptyCache /\ job = [j \in Job |-> NoJob] /\ shutDown = FALSE
  /\ enqueued = {} /\ cancelled = {} /\ tasks = {} /\ timers = {}
  /\ digests = Digests!EmptyDigestCache
  /\ status = [j \in Job |-> "none"] /\ responses = [j \in Job |-> <<>>]
  /\ stuck = {}

\* receive_enqueue_job
EnqueueJob(j) ==
  LET s == NewTracker(Now, j) IN
  /\ Running /\ j \notin enqueued
  /\ \E B \in Batches : enqueued \cup {j} \subseteq B
  /\ enqueued' = enqueued \cup {j}
  /\ Become(IF shutDown THEN Now
            ELSE IF IsComplete(s.job[j], j) THEN MakeAvailable(s, j)
            ELSE SendStatus(s, j, "layers"))
  /\ UNCHANGED <<shutDown, cancelled>>

CancelJob_LetRun(j) ==
  /\ Running /\ j \in (enqueued \cap Cancellable) \ cancelled
  /\ cancelled' = cancelled \cup {j}
  /\ IF job[j].st \in {"none", "executing"} THEN Become(Now)
     ELSE \E ord \in KeyOrders :
            Become(Release([Now EXCEPT !.job[j] = NoJob], job[j].keys, ord))
  /\ UNCHANGED <<shutDown, enqueued>>

\* receive_cancel_job: the layers of an executing job are released when it has
\* terminated.  Dropping the handle aborts the timer, but its message may have
\* been sent.
CancelJob(j) ==
  /\ Running /\ j \in (enqueued \cap Cancellable) \ cancelled
  /\ cancelled' = cancelled \cup {j}
  /\ CASE job[j].st = "none" -> Become(Now)
       [] job[j].st = "executing" ->
            Become([Now EXCEPT !.job[j].mode = "canceled"])
       [] OTHER ->
            \E ord \in KeyOrders :
              Become(Release([Now EXCEPT !.job[j] = NoJob], job[j].keys, ord))
  /\ UNCHANGED <<shutDown, enqueued>>

JobCompleted_NoStart(j) ==
  LET outcome == [nominal |-> "completed", timedOut |-> "timedOut"]
      mode == job[j].mode
      s == [IF mode = "canceled" THEN Now ELSE Respond(Now, j, outcome[mode])
            EXCEPT !.job[j] = NoJob]
  IN
  /\ Running /\ job[j].st = "executing"
  /\ \E ord \in KeyOrders :
       Become(Release(s, job[j].keys, ord))
  /\ UNCHANGED <<shutDown, enqueued, cancelled>>

\* receive_job_completed
JobCompleted(j) ==
  LET outcome == [nominal |-> "completed", timedOut |-> "timedOut"]
      mode == job[j].mode
      s == [IF mode = "canceled" THEN Now ELSE Respond(Now, j, outcome[mode])
            EXCEPT !.job[j] = NoJob]
  IN
  /\ Running /\ job[j].st = "executing"
  /\ \E ord \in KeyOrders :
       LET h == Release(s, job[j].keys, ord) IN
       IF CanStart(h) THEN \E k \in Best(h) : Become(Start(h, k)) ELSE Become(h)
  /\ UNCHANGED <<shutDown, enqueued, cancelled>>

\* receive_job_timer
JobTimer(j) ==
  LET s == [Now EXCEPT !.timers = @ \ {j}] IN
  /\ Running /\ j \in timers
  /\ Become(IF job[j].st # "executing" \/ job[j].mode = "canceled" THEN s
            ELSE IF job[j].mode = "timedOut" THEN Panic(s)
            ELSE [s EXCEPT !.job[j].mode = "timedOut"])
  /\ UNCHANGED <<shutDown, enqueued, cancelled>>

\* The tracker of a job is told that it got k: got_artifact,
\* got_bottom_fs_layer, got_upper_fs_layer.
Told(s, j, k) ==
  CASE k[1] = "blob" -> GotArtifact(s, j, k[2])
    [] k[1] = "bottom" -> GotBottomFsLayer(s, j, k[2])
    [] k[1] = "upper" -> GotUpperFsLayer(s, j, k)

\* A fetch or a build has ended well: receive_artifact_success,
\* receive_build_bottom_fs_layer_success, receive_build_upper_fs_layer_success.
CacheFillSuccess(k) ==
  LET got == Cache!GotArtifactSuccess(cache, k, TRUE)
      s == [Now EXCEPT !.cache = got.cache, !.tasks = @ \ {k}]
  IN
  /\ Running /\ k \in tasks
  /\ Become(FoldLeft(LAMBDA h, j : AdvanceJob(h, j, k, Told(h, j, k)), s, got.jobs))
  /\ UNCHANGED <<shutDown, enqueued, cancelled>>

\* It has failed, or could not be moved into the cache, for a directory of its
\* name that was left there for instance.
CacheFillFailure(k) ==
  LET got == Cache!GotArtifactFailure(cache, k)
      s == [Now EXCEPT !.cache = got.cache, !.tasks = @ \ {k}]
  IN
  /\ Running /\ k \in tasks \cap MayFail
  /\ \E ord \in KeyOrders :
       Become(FoldLeft(LAMBDA h, j : JobFailure(h, j, ord), s, got.jobs))
  /\ UNCHANGED <<shutDown, enqueued, cancelled>>

\* The read of a manifest has ended, well or badly: every job that waits for it
\* is told by a message of its own.
ManifestRead(m, ok) ==
  /\ Running /\ digests.pending[m] # {}
  /\ ok \/ \A j \in digests.pending[m] : <<m, j>> \in MayFail
  /\ digests' = Digests!FillCache(digests, m, ok)
  /\ UNCHANGED <<dispatcherVars, enqueued, cancelled, tasks, timers, status, responses>>

\* receive_read_manifest_digests_success
ReadManifestDigests(m, j) ==
  LET message == <<m, j, TRUE>>
      s == [Now EXCEPT !.digests = Digests!Received(@, message)]
  IN
  /\ Running /\ message \in digests.sent
  /\ Become(AdvanceJob(s, j, Blob(m), GotManifestDigests(s, j, m)))
  /\ UNCHANGED <<shutDown, enqueued, cancelled>>

\* receive_read_manifest_digests_failure
ReadManifestFailure(m, j) ==
  LET message == <<m, j, FALSE>> IN
  /\ Running /\ message \in digests.sent
  /\ \E ord \in KeyOrders :
       Become(JobFailure([Now EXCEPT !.digests = Digests!Received(@, message)], j, ord))
  /\ UNCHANGED <<shutDown, enqueued, cancelled>>

ShutDown_KeepAvailable ==
  /\ Running /\ MayShutDown /\ ~shutDown
  /\ shutDown' = TRUE
  /\ job' = [j \in Job |-> IF job[j].st = "executing"
                           THEN Executing("canceled", job[j].keys) ELSE job[j]]
  /\ UNCHANGED <<cache, envVars>>

\* receive_shut_down: the references of the jobs dropped here stay.
ShutDown ==
  /\ Running /\ MayShutDown /\ ~shutDown
  /\ shutDown' = TRUE
  /\ job' = [j \in Job |-> IF job[j].st = "executing"
                           THEN Executing("canceled", job[j].keys) ELSE NoJob]
  /\ UNCHANGED <<cache, envVars>>

WorkerNext ==
  \/ \E j \in Job : EnqueueJob(j) \/ CancelJob(j) \/ JobCompleted(j) \/ JobTimer(j)
  \/ \E k \in Key : CacheFillSuccess(k) \/ CacheFillFailure(k)
  \/ \E m \in Manifest, j \in Job :
       ReadManifestDigests(m, j) \/ ReadManifestFailure(m, j)
  \/ \E m \in Manifest, ok \in BOOLEAN : ManifestRead(m, ok)
  \/ ShutDown

\* The file system changes its mind about what of the cache it would remove.
FileSystem ==
  /\ stuck' \in SUBSET (MayStick \cap Cache!Stored(cache))
  /\ UNCHANGED workerVars

Next ==
  \/ WorkerNext /\ UNCHANGED stuck
  \/ FileSystem

Spec == Init /\ [][Next]_vars

(***************************************************************************)
(* Every task that was started ends, and its message is received; jobs     *)
(* complete, if only because they are killed.  As the action that ends one *)
(* is enabled while it is under way and leaves it ended, []<>~(under way)  *)
(* says the same as weak fairness of that action, and costs TLC less.      *)
(***************************************************************************)
Fairness ==
  /\ \A j \in Job : []<>~(Running /\ job[j].st = "executing")
  /\ \A k \in Key : []<>~(Running /\ k \in tasks)
  /\ \A m \in Manifest : []<>~(Running /\ digests.pending[m] # {})
  /\ \A m \in Manifest, j \in Job, ok \in BOOLEAN :
       []<>~(Running /\ <<m, j, ok>> \in digests.sent)

FairSpec == Spec /\ Fairness

-----------------------------------------------------------------------------
PendingBottomLayer ==
  {WaitingForArtifact, WaitingForDigests, WaitingForFsLayer, Ready} \cup
  [st : {"artifacts"}, left : Nat \ {0}]

Tracker(j) ==
  [st : {"awaiting"}, keys : SUBSET Key, stacked : 1 .. Len(Layers[j]),
   bottom : [ToSet(Layers[j]) -> PendingBottomLayer],
   deps : [Digest -> Seq(Manifest)]]

CacheEntry ==
  {Cache!Absent, Cache!InHeap} \cup [st : {"inUse"}, refs : Nat \ {0}] \cup
  [st : {"getting"}, jobs : Seq(Job) \ {<<>>}, getters : {{"worker"}}]

TypeOK ==
  /\ cache.entry \in [Key -> CacheEntry]
  /\ cache.heap \in Seq(Key)
  /\ \A j \in Job :
       \/ job[j] = NoJob
       \/ job[j] \in Tracker(j)
       \/ job[j] \in [st : {"available"}, keys : SUBSET Key]
       \/ job[j] \in [st : {"executing"}, keys : SUBSET Key,
                      mode : {"nominal", "canceled", "timedOut"}]
  /\ shutDown \in BOOLEAN /\ cancelled \subseteq enqueued /\ enqueued \subseteq Job
  /\ tasks \subseteq Key /\ timers \subseteq Timeout
  /\ digests.pending \in [Manifest -> SUBSET Job]
  /\ digests.cached \in Seq(Manifest) /\ IsInjective(digests.cached)
  /\ digests.sent \subseteq Manifest \X Job \X BOOLEAN
  /\ status \in [Job -> {"none", "layers", "waiting", "executing"}]
  /\ responses \in [Job -> Seq({"completed", "timedOut", "error"})]

Held(j) == IF job[j] = NoJob THEN {} ELSE job[j].keys

\* Every reference the cache counts is some job's, and every job's is counted:
\* nothing is evicted that a job uses, and nothing is kept for ever.
RefsExact ==
  ~shutDown => \A k \in Key :
    Cache!Refs(cache, k) = Cardinality({j \in Job : k \in Held(j)})

\* None of the modelled expects, unwraps and asserts of the dispatcher, the
\* trackers and the cache fails.
NoPanic == ~cache.panicked

\* What a job needs to run: the blobs of its layers and of what its manifests
\* list, the bottom layers, and the layers stacked on them.
Needed(j) ==
  LET layers == ToSet(Layers[j])
      blobs == layers \cup UNION {Entries[m] : m \in layers \cap Manifest}
  IN  {Blob(d) : d \in blobs} \cup {Bottom(d) : d \in layers} \cup
      {Upper(Prefix(j, n)) : n \in 2 .. Len(Layers[j])}

\* A job that may run, or runs, holds exactly the layers it needs, in whatever
\* order they came and whoever else got them.
CompleteWhenAvailable ==
  \A j \in InState(job, "available") \cup InState(job, "executing") :
    job[j].keys = Needed(j)

\* The keys a job that awaits its layers waits for.
WaitsFor(j) ==
  LET t == job[j] IN
  {Blob(d) : d \in {x \in DOMAIN t.bottom : t.bottom[x] = WaitingForArtifact}}
  \cup {Blob(d) : d \in {x \in Digest : t.deps[x] # <<>>}}
  \cup {Bottom(d) : d \in {x \in DOMAIN t.bottom : t.bottom[x] = WaitingForFsLayer}}
  \cup (IF AllReady(t) THEN {Upper(Prefix(j, t.stacked + 1))} ELSE {})

\* Tracker, cache and tasks agree: the cache will tell a job of exactly the
\* keys it waits for, once each, and somebody is getting them; a manifest is
\* being read, for it or others too, or its message under way, exactly when it waits for its digests, and waits for
\* as many artifacts as it counts.  So no awaiting job is forgotten.
AwaitingIsWaiting ==
  \A j \in InState(job, "awaiting") :
    LET t == job[j]
        Times(k) == Cardinality({i \in DOMAIN cache.entry[k].jobs :
                                   cache.entry[k].jobs[i] = j})
        awaited == {k \in Key : cache.entry[k].st = "getting" /\ Times(k) > 0}
    IN
    /\ awaited = WaitsFor(j) /\ awaited \subseteq tasks
    /\ \A k \in awaited : Times(k) = 1
    /\ {d \in DOMAIN t.bottom : t.bottom[d] = WaitingForDigests} =
         {m \in Manifest : <<m, j>> \in Digests!Reads(digests)}
    /\ \A m \in DOMAIN t.bottom : t.bottom[m].st = "artifacts" =>
         t.bottom[m].left = Cardinality({d \in Digest : m \in ToSet(t.deps[d])})
    /\ ~IsComplete(t, j)

\* No more jobs execute than there are slots, and none is left waiting while
\* one is free.
SlotsUsed ==
  /\ Cardinality(InState(job, "executing")) <= Slots
  /\ InState(job, "available") # {} =>
       Cardinality(InState(job, "executing")) = Slots

Open ==
  {j \in Job : job[j] # NoJob /\ ~(job[j].st = "executing" /\ job[j].mode = "canceled")}

Service == INSTANCE JobService WITH
  open <- Open, answers <- [j \in Job |-> Len(responses[j])],
  abandoned <- IF shutDown THEN Job ELSE cancelled, told <- status

\* A worker serves its broker as JobService says: whatever it does when a job
\* is cancelled, or when it is shut down, it does not answer it or tell of it
\* any more, and until then the job is not dropped without an answer.
ServesJobs == Service!Spec

\* Once shut down, the dispatcher starts nothing and says nothing.
ShutDownIsFinal ==
  [][shutDown => /\ tasks' \subseteq tasks
                 /\ Digests!Reads(digests') \subseteq Digests!Reads(digests)
                 /\ InState(job', "executing") \subseteq InState(job, "executing")
                 /\ responses' = responses /\ status' = status]_vars

\* Every job the broker sends is answered, unless it is cancelled or the
\* dispatcher is shut down.
EveryJobAnswered ==
  \A j \in Job :
    j \in enqueued ~> (responses[j] # <<>> \/ j \in cancelled \/ shutDown)
=============================================================================
