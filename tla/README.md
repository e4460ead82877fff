# Maelstrom in TLA+

Maelstrom runs jobs, mostly tests, in containers on a cluster. A *client* builds
the layers of a job's file system, asks the *broker* to run the job, and uploads
the artifacts the broker does not have. The broker gathers the artifacts, then
sends the job to a *worker*, which fetches the artifacts, builds and stacks the
layers, and executes the job. Without a broker, a client runs jobs on a *local
worker* in its own process.

This directory holds TLA+ models of the state machines at the centre of it, in
the broker, the worker and the client, the TLC configurations that check them,
and proofs, checked by the TLA+ proof system, about the broker's scheduler and
artifact gatherer, a worker's dispatcher with its layer trackers, the cache's
directory, and the client. Paths below are relative to `src/crates/`.

Contents: 1 [The system](#1-the-system), 2 [The models](#2-the-models),
3 [What is checked](#3-what-is-checked), 4 [Bounds](#4-bounds),
5 [Fairness](#5-fairness), 6 [What is proved](#6-what-is-proved),
7 [Findings](#7-findings), 8 [What is not modelled](#8-what-is-not-modelled),
9 [Plan](#9-plan), 10 [Running](#10-running).

## 1 The system

### 1.1 Broker

The broker is one task around one queue of messages
(`maelstrom-broker/src/scheduler_task.rs`, `SchedulerTask::run`), and one socket
task pair per connection (`connection.rs`). The queue is the only way in: every
connection's task sends its connection first, then its messages in order, then
its disconnection. Ids are vended once (`lib.rs:36-44`).

| component | state | operations | correct when |
|---|---|---|---|
| scheduler (`scheduler_task/scheduler.rs`) | clients with their jobs and counts, workers with their pending jobs, a heap of workers by load, a heap of queued jobs by priority and duration | a client or worker connects or disconnects, a job request, jobs ready or failed, a worker's response or status update, statistics | no job is lost, in two places, answered twice or left idle next to a free worker; the counts match; a worker is told to stop what nobody wants |
| artifact gatherer (`scheduler_task/artifact_gatherer.rs`) | per job what it has acquired, waits for and reads; manifest reads in progress, waiting, and a cache of read manifests; the landing pad of uploads | start or complete a job, a client comes or goes, an upload lands or is reported, a manifest entry or the end of a read, a worker's fetch begins or ends | a job becomes ready once, with references on all it needs; a failed or abandoned one leaves none; reads and uploads are never forgotten |
| cache (`cache/local.rs`, `maelstrom-util/src/cache.rs`) | per artifact: being fetched for whom, in use how often, or evictable; bytes used; files on disk | get, got, failed, increment, decrement, a getter leaves, start from a directory | nothing referenced is evicted; the bytes are those stored; at the target or below when something can go |
| remote cache (`cache/remote.rs`, `cache/github.rs`) | which artifacts exist | the same interface, without references | |
| connections, fetcher, pusher (`connection.rs`, `artifact_fetcher.rs`, `artifact_pusher.rs`) | a socket each | forward messages, copy a file | what is taken is given back |
| monitors | a ring buffer of samples | a heartbeat samples the counts | |

### 1.2 Worker

One dispatcher (`maelstrom-worker/src/dispatcher.rs`) receives one message at a
time. It starts tasks and threads, each of which answers with one message.

| component | state | operations | correct when |
|---|---|---|---|
| dispatcher | jobs that await layers, are available or execute; slots; the cache | enqueue, cancel, completion, timer, end of a fetch, build or read, shutdown | each job answered once or cancelled; as many execute as there are slots; references are exact |
| layer tracker (`dispatcher/tracker.rs`) | per job: each bottom layer's progress, what manifests wait for, how many layers are stacked | an artifact, a manifest's digests, a layer arrives | complete exactly when everything the job needs is held |
| manifest digest cache (`manifest_digest_cache.rs`) | reads in progress by path, an LRU of results | get, end of a read | one read per path, everybody told |
| fetchers, executor, layer file systems | threads, system calls | | end once |

### 1.3 Client

| component | state | operations | correct when |
|---|---|---|---|
| router (`maelstrom-client-process/src/router.rs`) | paths of artifacts, jobs by client job id, counts | add an artifact, run a job, response, update, a transfer or local fetch is asked for | every response finds its job, every artifact asked for is known |
| preparer (`preparer.rs`, `preparer/task.rs`) | containers, images, layers, layer builds in progress or waiting, jobs that wait | add a container, prepare a job, image or layer got | each image and build once, at most the limit at a time, every job prepared or failed, once |
| collapsed job spec (`collapsed_job_spec.rs`) | the fields of a spec, those of its image, what is still to be got from the image | collapse a spec with its ancestors, integrate the image | each field is what the nearest ancestor that may say so says |
| layer builder, uploader (`client/layer_builder.rs`, `client.rs`) | files, digests announced | write a manifest, hash and announce an artifact | what a job gets is what its layers describe |
| state machine (`client/state_machine.rs`) | latent, activating, active, failed | try to begin, activate, fail, wait | one activation |
| artifact pusher (`artifact_pusher.rs`) | a pool of connections (`maelstrom-util/src/async.rs`) | upload | slots are not lost |

### 1.4 What is hard

Everything interesting is an order of messages. Each component is sequential,
but between two of its messages the rest of the system moves: a client leaves
while the gatherer's announcement of its jobs is in the queue; a worker's answer
crosses the order to cancel; a file lands before its client says so, and the
client may go in between; a manifest's reader opens the file later than it was
started; two jobs want one artifact, one of them twice; a cancelled job goes on
executing; a layer arrives for jobs that have failed. Nothing is retried and
nothing is persisted except the cache's directory, so crash recovery matters
there only. The list of hazards with their
lines, and the properties aimed at each, is in `PROJECT.json`.

## 2 The models

| module | models | composed of |
|---|---|---|
| `Scheduler` | the scheduler, with clients, workers and the gatherer at their interfaces | `StartOrder` |
| `StartOrder` | the orders of queued jobs and of workers, and which jobs are started where, as operators | |
| `WorkerHeap` | the array of the heap of workers with its index updates, under all that the scheduler does to it; the loop of `possibly_start_jobs` over it | `StartOrder` |
| `JobService` | abstract: what runs jobs promises who requests them; `Scheduler` and `Dispatcher` implement it | |
| `GathererContract` | abstract: what the scheduler relies on of the gatherer; `ArtifactGatherer` implements it | |
| `CacheOps` | what the cache knows, as operators on a value | |
| `CacheFiles` | the cache's directory on disk, file operation by file operation, over crashes and restarts | |
| `ArtifactGatherer` | the gatherer with its cache; uploads, manifest readers and workers' fetches around it | `CacheOps` |
| `LayerTracker` | a job's tracker and the fetcher it is given, as operators | `CacheOps`, `ManifestDigestCache` |
| `ManifestDigestCache` | the reads of manifests that jobs share in a worker, as operators | |
| `Dispatcher` | the dispatcher with its trackers and caches; broker, tasks, executor and timers around it | `LayerTracker` |
| `CollapsedJobSpec` | the loop that collapses a job's spec with its ancestors, and a description of its result | |
| `Client` | preparer, layer builds, router and calls of `run_job`; broker and local worker around them | `CollapsedJobSpec` |
| `MCScheduler`, `MCWorkerHeap`, `MCCacheFiles`, `MCGatherer`, `MCDispatcher`, `MCClient` | instances for TLC | |
| `SchedulerProofs` | theorems and proofs about `Scheduler` | |
| `CacheFilesProofs` | about `CacheFiles` | |
| `DispatcherProofs`, `TrackerProofs`, `ReferenceProofs` | about `Dispatcher`: its control; its trackers, operator by operator, and the invariant they keep; the references its cache counts | `FoldTheorems` |
| `ClientProofs` | about `Client` | `FoldTheorems` |
| `GathererProofs` | about `ArtifactGatherer` with its cache | `FoldTheorems` |
| `FoldTheorems` | what a fold over a sequence keeps, as a module to instantiate | |

**One action is one message**, with all that its handler does. A handler's code
is one critical section, since each of these components owns its state and
runs on one thread; so an action's atomicity is the code's. `CacheFiles` is the
exception: there an action is one operation of the file system, because the
process may stop between any two. Where a handler makes many calls that see each
other's effect, its steps are operators that take and return a record of the
component's state (`Now`), and the action assigns the last record to the
variables (`Become`, or `Settle` in `Client`). A failed `unwrap`, `expect` or
`assert` sets `cache.panicked` (`NoPanic`: there is none), in `Client` `broken`
(`NothingBreaks`).

**The environment** is part of each module's `Next`, at its interface only. Its
state (`envVars`) is what is under way: messages in the queue, files being
uploaded, tasks that have not ended, jobs that workers have. A message may be
under way whatever the receiver has done since, and that is where the orders of
1.4 come from.

**Correspondence.** Variables have the names of the fields they stand for, or
say in a comment which field they are; actions have the names of the handlers
without `receive_`. Some choices:

- *Scheduler.* `jobs` is all clients' job maps together: a job id has its
  client's id in it. The heap of workers is replaced by the least loaded worker,
  the heap of queued jobs by any greatest one: `Before` and `UnitBefore` are the
  code's orders, and jobs that compare equal may come out in either order.
  `possibly_start_jobs` is a loop; `Placements` says in one step which jobs it
  may start where.
- *WorkerHeap* has what that replaces: the array, in which the code sifts by
  loads that change under it, and the place each worker remembers of itself. Of
  the scheduler only the lengths matter to it, of the queue and of each worker's
  pending jobs. `StartsLikeTheLoop` compares `Placements` with the loop over the
  heap as the handlers left it.
- *ArtifactGatherer.* The fields of a job are `acquired`, `being` and `reading`.
  Ids come from one counter, so no job's id is a client's (an assumption of the
  module). The cache of read manifests is measured in manifests instead of bytes. Hash
  sets yield their elements in any order; where the order reaches the state (the
  order of decrements is the order of eviction, and of failures) an action
  quantifies over orders, elsewhere it takes one, and says so.
- *CacheOps.* The heap of unreferenced artifacts is a sequence, because its
  priorities are handed out in increasing order. Files, directories and links
  are not told apart. The same operators serve the broker, where getters are
  clients, and the worker, where there is one. The variable `stuck` is the
  file system's: the artifacts that it would not remove now. When one of them is
  evicted the entry is gone, its bytes still count and the loop ends, as in
  `possibly_remove_some_can_error`; `lost` are these bytes, `left` the artifacts
  that may still be there, `stopped` says that the last eviction ended so. The
  code has none of these three; `CacheSound` needs the first and the last, and
  `left` lets a manifest's reader open what the cache no longer knows.
- *CacheFiles.* `todo` is what the handler in progress still does to the file
  system; a step takes one operation off it, may find it impossible or may fail,
  and `Crash` may come before any of them. `phase` is how far `Cache::new` has
  come; if it preserves the contents it reads the directory (`files`), then the
  `.size` files and the metadata of what it found (`sizes`), then evicts
  (`shrink`). Removals in the background are threads
  that end, or die with the process. How often an artifact is in use, and
  which clients wait for it, is left to `CacheOps`; there is one kind of key, hence
  one directory under `sha256`, and perhaps one more, of a kind that another
  version of the program had, which `SweepKinds` removes. Any operation may fail,
  any number of times; an error while the cache is opened ends the process
  (`Crash`), except that a size file that cannot be read is removed, as one that is
  too short is (`Unreadable`).
- *LayerTracker.* The digest of an upper layer is a hash of the chain below it;
  the prefix of the job's layers stands for it.
- *ManifestDigestCache.* Its two operations hold its lock, one in the dispatcher's
  thread (`Get`) and one in the reader's (`FillCache`, the action `ManifestRead`
  of `Dispatcher`). What the reader sends to each waiting job is a set of
  messages that the dispatcher receives in any order, with anything between. A
  manifest's path has its digest in it, so a path stands for a content.
- *Dispatcher.* `awaiting_layers`, `available` and `executing` are disjoint by
  construction of the handlers and are one function `job`. The keys of a job come
  out of a hash set; the order is that of their releases, hence of evictions, and
  an action that releases takes any of `KeyOrders`. `Told` is which of a tracker's
  three operations an arrival is for.
- *CollapsedJobSpec.* A field is appended to what an ancestor has, or replaces it,
  and an image may give it, or not. Fields of one kind are treated alike, so one or
  two stand for each. Which environments and mounts are refused
  is a parameter (`Rejected`).
- *Client.* The preparer handles a message in the step that sends it: the senders
  are tasks that may take any time before they send, so no order is lost. The
  router's channel is a queue, since what is announced before a job must arrive
  before it. A call of `run_job` is not abandoned; a job nobody has sent, or
  that has been answered, is `NoJob`. Every `unwrap` and `assert` of preparer and
  router sets `broken`. The broker and the local worker
  are held to `JobService`: they tell of a job, ask for its artifacts and answer
  it once. What a build does is a sequence of writes and uploads (`Steps`), and a
  file is its content.

**Abstract specifications.** `JobService` has the jobs that are open, the answers
given, the jobs abandoned and what was last told of each; a job leaves `open` by
one answer or by being abandoned, and only open jobs are told of. The scheduler
implements it with its clients' job maps for `open` and the jobs of clients that
have gone for `abandoned`; the dispatcher with the jobs that await layers, are
available or execute uncancelled, and those the broker has cancelled, or all
once it is shut down. `GathererContract` says when a started job may be announced
and that what it needs stays stored until it is completed; its actions are the
ones `Scheduler` has for the gatherer (`JobRequestReady`, `JobRequestNotReady`,
`GathererAnnounces`). `ArtifactGatherer` implements it with the cache's directory
for `stored`.

A definition `D_Slip` just before `D` is `D` with a plausible mistake. No
behaviour uses it; `PROJECT.json` says which property the mistake would break,
and TLC confirms it.

## 3 What is checked

| run | instance | states | shows |
|---|---|---|---|
| `scheduler` | 2 clients, 3 jobs of different ranks and workers with 1 and 2 slots, in full detail; or 5 jobs and 2 workers with 1 slot, so that both are full while jobs wait | 142 633 | with everybody connecting, leaving, announcing and answering in every order, no job is lost, doubled, answered twice or left idle; the counts shown to monitors match; with fair delivery, jobs of clients that stay are answered |
| `worker_heap` | 7 workers with 1 or 2 slots that come and go, at most 5 jobs at a time, 4 jobs of 3 ranks to start | 31 080 | the heap is in order after every handler and every worker knows its place; jobs go to the least loaded; the one-step form of `possibly_start_jobs` has exactly the outcomes of its loop |
| `gatherer` | 1 client with 3 jobs, 2 manifests that list one artifact; or 2 clients that share a manifest and an artifact; one read at a time, room for one known manifest and two artifacts, one of which at times cannot be removed | 163 519 | what jobs and workers hold stays cached; the gatherer keeps its contract; waits, reads and the queue of reads agree; a client that leaves takes its traces with it, and only those; every job settles |
| `cache_files` | 2 directories and a file or symlink, of which 2 units fit; any operation may fail, or the process stop before it | 323 717 | a crash at any point leaves a directory that the next start opens, counts exactly and cleans; what the cache believes to have is there |
| `dispatcher` | 3 jobs whose tar layers and stacks overlap, or 3 whose manifests list each other's file and a layer; 1 slot, a timeout, failing tasks, a layer that at times cannot be removed, two jobs that may be cancelled, shutdown at any moment | 106 919 | references exact, jobs complete exactly when they hold what they need, whoever waits for a read is told, slots used, one answer, silence after shutdown; every job answered |
| `client` | 3 jobs: from an image, from containers that may lead to that image, to a broken one or nowhere; 4 layers of which 2 are built at a time; one build or fetch may fail | 96 194 | specs are collapsed as described; each awaited layer and image comes and fills its place; nothing is asked of the router before it knows of it; every `run_job` ends |
| `gatherer_leak`, `gatherer_fetch`, `gatherer_shared_upload`, `gatherer_nested`, `dispatcher_cancelled_read`, `client_manifest` | smallest that shows it, but for the last, which is `client`'s | | the findings of section 7 |

The properties, by what they relate:

- *Where a job is* (`JobInOnePlace`, `NoJobLost`, `NoDanglingJob`): gatherer,
  queue of messages, job queue and workers. These are the `unwrap`s of the
  scheduler turned into invariants, over all orders of disconnections and
  announcements.
- *What two parties believe*: broker and worker on what is pending
  (`WorkerAgrees`); the heap and the workers in it on their places
  (`HeapOrdered`); the cache and its directory (`TrackedIsThere`); client and
  router on what has been announced (`NothingBreaks`).
- *Accounts* (`CountsMatch`, `CacheSound`, `RefsExact`, `HeldStaysCached`,
  `DiskAccounted`, `BuildsAccounted`): numbers that are kept by increments in
  many places against what they count.
- *Waiting* (`WaitedFor`, `AwaitingIsWaiting`, `ReadsMatch`,
  `EveryJobIsAwaited`): whoever waits is on somebody's list, once, and that
  somebody has something under way. They are what liveness rests on, and fail
  earlier and more clearly than it.
- *Readiness* (`ReadyHasEverything`, `CompleteWhenAvailable`,
  `PreparedAsSpecified`).
- *An algorithm against its meaning*: `StartsLikeTheLoop` and
  `StartsAtTheLeastLoaded` (a loop over a disturbed heap against the minimum),
  `CollapsesAsDescribed` (a loop over ancestors against a description by their
  distance).
- *Contracts* (`ServesJobs` of the scheduler and of the dispatcher,
  `KeepsContract` of the gatherer): each step is one the abstract specification
  allows, under the refinement mapping given where it is instantiated.
- *Capacity* (`WorkConserving`, `SlotsUsed`). A response is followed by one start
  at the same worker, with no look at the others; that is enough only because of
  `WorkConserving`.
- *Crashes* (`DiskIsReady`, `NoGarbageForgotten`): wherever an earlier process
  stopped, every operation of the next finds what it needs, and what was left
  half done is cleaned up.
- *Ends* (`ShutDownIsFinal`, `GoneIsForgotten`, `NoneHeldForNobody`).
- *Liveness* (`EveryJobAnswered` of the scheduler and of the dispatcher,
  `EveryJobSettles`, `EveryRunJobEnds`).

Deadlock is checked in `worker_heap` and `cache_files`. Elsewhere
`CHECK_DEADLOCK FALSE`: ids are used once, so an instance whose clients, workers
and jobs have come and gone stops, as does a component that has been shut down.

## 4 Bounds

Clients, workers, jobs and artifacts are finite sets, each id is used once, and
that alone makes the state spaces finite; nothing else is cut off. In particular
queues, reference counts and message buffers are as long as they get.

- *Scheduler.* Two clients and two workers suffice for what is between two of
  them: one leaves and the other stays; one is full and the other is not. Three
  jobs make the queue longer than one with a worker full, a job pending, and one
  equal in priority but not in duration; but they never fill workers of one and of
  two slots, which take six. So `Arrivals`, who may have come, allows five jobs as
  well, with two workers of one slot, which take four: with the fifth queued, a
  response, or a worker that leaves, moves jobs while every other worker is full.
  Those five come in one order and are ready at once; `Detailed` are the arrivals
  with which jobs may also be requested in any order, be acquired first and then
  announced, and have status updates.
- *WorkerHeap.* Six workers are the fewest for which the element that takes the
  place of a removed one may have to go up; there are seven, so that one may
  connect after. `MaxJobs = 5` bounds the jobs queued and pending at a time.
  `FewUnits = 5` bounds the free units of the states in which every outcome of the
  loop is compared; `StartsAtTheLeastLoaded` looks at the loop in all states, for
  jobs that are alike.
- *ArtifactGatherer.* `MaxReads = 1` (16 in the broker) makes reads queue with two
  manifests, and `MaxKnown = 1` makes the cache of manifests forget. `Target = 2`
  with three artifacts of size 1 makes a release with a third stored evict.
  `MayStick` is the one that may not be removable.
  `MaxFetches = 1` bounds the copies of an artifact a worker makes at a time; a
  second reference is counted like a second job's. `MaxAborts = 1` is the fetches
  that break off. `Batches` says which clients and jobs there are together.
  `Overlap = FALSE` lets one client upload an artifact at a time, and manifests
  do not list manifests, which keeps `gatherer` clear of what
  `gatherer_shared_upload` and `gatherer_nested` find.
- *CacheFiles.* `Target = 2` with sizes 2, 1 and 1 makes a second artifact evict,
  and one eviction not always enough. `MaxTrash = 3` bounds the directories being
  removed and those left from earlier processes; `MayFail` lets operations fail
  that could succeed (what cannot succeed always fails). An eviction that fails
  leaves its bytes counted, so `MaxBytes = 5` bounds what is counted when one that
  could succeed fails. The number of crashes and of failures is not bounded.
- *Dispatcher.* `Slots = 1` with three jobs makes jobs wait for one another;
  `Cancellable`, `MayFail`, `MayStick`, `Timeout`, `MayShutDown` and `KeyOrders` say
  what may happen around it. `SomeOrders` are rotations: every key comes first, and last,
  in one of them. `Batches` are the jobs of tar layers and the jobs of manifests.
  `MaxKnown = 1` makes the cache of read manifests forget. Of the manifests' jobs
  only one, which has a single manifest to read, may see its read fail, and none
  is cancelled: otherwise they meet the finding of `dispatcher_cancelled_read`.
- *Client.* `MaxPendingLayerBuilds = 2` of four layers makes builds wait.
  `MaxFailures = 1` is the builds and fetches that fail. `Rejected` and `Local`
  are one job each. `Settings` are the containers there may be once jobs run: one
  that leads to the image, one to an image that is not valid, and one to nothing;
  before that, every choice of seven specs for three names is collapsed and
  compared (`CollapsesAsDescribed`), with loops among them.
- `HeldStaysCached` allows references nobody claims, because of `gatherer_leak`
  and `gatherer_fetch`; once those are mended it should be an equality.

With finitely many jobs nothing can starve for ever: that a stream of urgent
jobs starves another is by design and is not something these runs could show.

## 5 Fairness

- *Scheduler*: messages in its queue are received (the task is a loop around
  `recv`); the gatherer announces every job it has said is not ready (checked of
  the gatherer: `EveryJobSettles`); a worker answers a job it was sent and keeps
  (checked of the dispatcher: `EveryJobAnswered`). Nobody is obliged to connect,
  to disconnect or to send a request.
- *ArtifactGatherer*: as long as it is connected, a client uploads what it is
  asked for and reports it; readers run; their messages are received. This assumes
  that uploads end, well or badly. A client that has gone may still upload what it
  was asked for, or never do.
- *Dispatcher*: every fetch, build and read that was started ends, what it sends
  is received, and executing jobs end. The code ensures the latter only for jobs
  with a timeout or that are cancelled; for others it is an assumption about the
  job.
- *Client*: the tasks run, which is what the runtime gives them; builds and
  fetches end, well or badly; whoever got a job answers it (`EveryJobAnswered` of
  the scheduler and the dispatcher).

In `ArtifactGatherer` and `Dispatcher` the conjuncts have the form
`[]<>~(Running /\ work)`. The actions that do the work are enabled exactly while
there is any, and there is less of it after each, so this says what weak fairness
of these actions says. In `Client` two conjuncts are weak fairness written with
the action's guard in place of `ENABLED`.

## 6 What is proved

For every value of the constants that satisfies the assumptions of the modules
that declare them (finite sets where the code has finitely many things at a
time; the types of the parameters), and for the conditions named below, where
there are any.

| module | theorem | states |
|---|---|---|
| `SchedulerProofs` | `TypeCorrect` | `Spec => []TypeOK` |
| | `OnePlace` | `Spec => []JobInOnePlace` |
| | `NoneLost` | `Spec => [](NoJobLost /\ NoDanglingJob)` |
| | `BrokerAndWorkerAgree` | `Spec => []WorkerAgrees` |
| | `AtMostOneResponse` | `Spec => []OneResponse` |
| | `ImplementsService` | `Spec => ServesJobs`: the scheduler implements `JobService` |
| | `WorkersAreKept` | `Spec => []WorkConserving` |
| | `CountsAreExact` | `Spec => []CountsMatch` |
| `GathererProofs` | `GathererIsRight` | `Spec => [](Right /\ Came)`, the inductive invariant |
| | `GathererTyped` | `Spec => []TypeOK` |
| | `WaitedForAlways` | `Spec => []WaitedFor` |
| | `ReadsAlwaysMatch` | `Spec => []ReadsMatch` |
| | `GoneIsAlwaysForgotten` | `Spec => []GoneIsForgotten` |
| | `HeldIsNeverEvicted` | `~Overlap`: `Spec => []HeldStaysCached` |
| | `GathererNeverPanics` | `~Overlap`: `Spec => []NoPanic` |
| | `CacheStaysSound` | `~Overlap`: `Spec => []CacheSound`, whatever removals fail |
| | `ReadyJobsHaveEverything` | `Apart` of all jobs: `Spec => []ReadyHasEverything` |
| | `GathererServes` | both: `Spec => KeepsContract`: the gatherer implements `GathererContract` |
| `CacheFilesProofs` | `DiskStaysReady` | `Spec => []DiskIsReady` |
| | `TrackedStaysThere` | `Spec => []TrackedIsThere` |
| | `DiskStaysAccounted` | `Spec => []DiskAccounted` |
| | `NoGarbageIsForgotten` | `Spec => []NoGarbageForgotten` |
| `DispatcherProofs` | `SlotsStayUsed` | `Spec => []SlotsUsed` |
| | `DispatcherServes` | `Spec => ServesJobs`: the dispatcher implements `JobService` |
| | `ShutDownStaysFinal` | `Spec => ShutDownIsFinal` |
| `TrackerProofs` | `TrackersStayRight` | `Spec => []TrackersRight`, the inductive invariant |
| | `DispatcherTyped` | `Spec => []TypeOK` |
| | `RunsWithItsLayers` | `Spec => []CompleteWhenAvailable` |
| | `NoJobIsForgotten` | `Spec => []AwaitingIsWaiting` |
| `ReferenceProofs` | `RefsStayExact` | `Spec /\ []Undisturbed => []RefsExact` |
| | `NeverPanics` | `Spec /\ []Undisturbed => []NoPanic` |
| | `CarefulIsUndisturbed` | `Careful`: `Spec => []Undisturbed` |
| | `CarefulStaysExact` | `Careful`: `Spec => [](RefsExact /\ NoPanic)` |
| `ClientProofs` | `ClientIsRight` | `Spec => []ClientRight`, the inductive invariant |
| | `NothingEverBreaks` | `Spec => []NothingBreaks` |
| | `BuildsAreAccounted` | `Spec => []BuildsAccounted` |
| | `EveryJobIsServed` | `Spec => []EveryJobIsAwaited` |
| | `JobsRunAsSpecified` | `OwnManifests`: `Spec => []PreparedAsSpecified` |

Each argument has the same form: an invariant stronger than the properties, one
lemma per action that it is kept, and below these one lemma per operator that a
handler is made of.

### 6.1 The scheduler

None of the invariants is inductive alone: a job that goes to the queue must not
be there already (`JobInOnePlace`), which for a worker's disconnection needs that
pending jobs are in the maps (`NoDanglingJob`), and so on. Their conjunction is
not inductive either: a new request might be for a job that is somewhere already,
a worker that connects might have jobs, an answer might come for a job cancelled
though its client is connected. `Past` excludes these: what is anywhere was
requested, by a client whose id was vended; a worker that is not connected has
nothing; what was cancelled belongs to clients that have gone; what has not left
the maps has no response. The inductive invariant is

    IInv == TypeOK /\ JobInOnePlace /\ NoJobLost /\ NoDanglingJob /\ WorkerAgrees
            /\ OneResponse /\ Past

Two lemmas keep the proofs of the actions short: `PlacementFacts` says all that
they need of `possibly_start_jobs` (it starts queued jobs, each at one of the
given workers), so they do not depend on the order in which it chooses;
`TakeMessage` says what remains when an announcement leaves the queue.
`ImplementsService` is a refinement: `StepServes` shows that each action, in a
state that satisfies `IInv`, is a step of `JobService` or a stutter; that what is
told is told of open jobs rests on `NoDanglingJob`, that a requested job is new on
`Past`.

`WorkersAreKept` rests on what `possibly_start_jobs` leaves behind: it stops for
want of jobs or of free places, and each job it starts takes a place of its own.
`StartedTakePlaces` makes the jobs started at a worker an injection into that
worker's free places, and onto them when a job is left in the queue;
`PlacementFills` counts them. The handler of a response is the one that does not
call it: it frees one place and fills it, so if a job is still queued the worker
is as full as before, and the others have not changed (`ResponseKeeps`).

`CountsAreExact` compares each client's four counts with the cardinalities of four
sets of its jobs (`ByState`). Whatever a handler does is one of three things to
them, each with a lemma: jobs go from one state to another (`MovedCounted`), one
comes (`OneMoreCounted`), or some of the queue are started (`StartCounted`). Each
needs that the sets were disjoint, which is `JobInOnePlace`, and nothing of a
client that has gone, which is `NoDanglingJob`. That no subtraction underflows
follows, since the counts are cardinalities.

### 6.2 Folds

A handler that goes through jobs, digests or layers is a fold, and what a fold
keeps is an induction on the length of a sequence. The library states induction
with an operator as a parameter, which these provers cannot instantiate.
`FoldTheorems` takes the step and the invariant as *constants* instead, so that a
proof instantiates the module (`Turning == INSTANCE FoldTheorems WITH Op <-
TurnStep, Inv <- TurnIs`) and cites `Turning!FoldKeeps`. The module writes the
library's `FoldLeft` out, and each use proves the two equal. The induction itself
is on a least counterexample: that a set of naturals has a least element is its
hypothesis, and lemma `LeastOf` where it is used.

### 6.3 The gatherer

A handler composes steps on a record `g` of the gatherer's state, and is in the
middle of something between two steps: a client has gone from `clients` while its
jobs are still listed, a job is in the map before its layers have been asked for, a
manifest is acquired before its entries have been gone through. So the invariant
is stated of a record, `Kept(g, p)`, where `p` has the variables around `g` and
three sets of what the handler has still to go through (`unlisted`, `unread`,
`unasked`); `Right` is `Kept(Now, Around)`, with these empty. Each step takes `g`
and `p` to the next, and each handler ends with nothing left. It says, among other
things,

- that a job and the cache's list of who waits for an artifact agree, once each,
  and that the client has still to upload what its jobs wait for (`WaitsRight`);
- that jobs and reads agree, reads and readers, and a read's entries with how far
  its reader is (`ReadsRight`, `ReadersRight`, `EntriesRight`);
- that a job has, or waits for, each of its layers and all that has been read of
  its manifests (`LayersRight`);
- what the scheduler was told (`TellsRight`), which says that a job is announced
  once and that what was promised is still held;
- if uploads do not overlap, that references cover the claims, and that the bytes
  are those of what is stored and of what could not be removed (`HeldRight`).

`Came` adds that a client comes before its jobs. Waiting, reading and forgetting
are proved without condition. Two conditions remain, and each is the exact
complement of a finding: `~Overlap`, that one artifact is not uploaded by two
clients at a time, is what `gatherer_shared_upload` violates, and `Apart`, that a
job's manifests are not files of its as well, what `gatherer_nested` violates. So
these are the only ways to what these runs find, whatever the clients, jobs,
layers, manifests, sizes and limits.

The refinement `GathererServes` follows from this invariant. `TellsOnly` bounds,
step by step, whom a handler tells that they are ready or have failed; with it
each action is a step of `GathererContract` as far as connections, starts,
completions and announcements go (`NextMoves`); and what was promised is stored,
before and after every step (`RightKeepsPromises`), since a job that is announced
holds all it needs, with a reference for each.

### 6.4 The cache's directory

For each phase, and in an open cache for what is being done, `PhaseInv` says which
operations are left in `todo` and what is on disk before them; what it says of a
process that is down (`DownInv`, with `DirectoryInv`) is all that a start can rely
on. Each operation is then one case: it fits, and leads to the case with one
operation less. A failed operation, be it the first of its process or not, makes the
process `faulty`, and what remains is that what it believes to have is whole
(`Whole`) and that the bytes it counts cover what it tracks (`Charged`); without a
failure they are equal. So `TrackedIsThere` and the first part of `DiskAccounted`
hold whatever fails, `DiskIsReady`, the rest of `DiskAccounted` and
`NoGarbageForgotten` until something of that process has failed. Nothing bounds the
number of crashes and of failures, here or in the run.

### 6.5 The dispatcher and its trackers

`Control` is the part that does not look into trackers: `OnlyTracks` says that
their operators change the cache, the reads, the tasks and the tracker of their own
job, and neither another's state nor what the broker was told. That is enough for
the slots, for `JobService` and for what holds after a shutdown.

`TrackerProofs` says what one tracker must be, `TrackerRight`: what it waits for is
what the cache will tell it of, once each; the manifests it waits for are those read
for it; how many entries each manifest lacks is counted exactly; its keys are
those of what is done. Inside of a handler a tracker has received keys that it does
not know of, goes through a manifest's entries, or has still to tell manifests of an
artifact; parameters of `TrackerRight` say which, and each operator of `LayerTracker`
takes the tracker from one such state to the next. `TrackersRight` is `TrackerRight`
of every job that waits, exactly its keys for every job that may run, and that
nothing is awaited for a job that is still to come. When a fetch ends, its jobs are
told one after the other: `AllRight` has those to be told as a parameter, and the
fold over them empties it.

`ReferenceProofs` adds what the cache counts. A job has a `Claim` on each key of its
tracker, or that it runs with; `Ledger` says that the cache counts exactly the claims,
that its heap has what has no reference, once, that nothing has panicked, and that no
job has what it still waits for. Inside of a handler the account of one job is open: it
has received a key that its tracker has not been told of. `Balanced` takes its
references apart from the others', `Booked` says so of a tracker at work, and
`Settling` is what an operator must do for the ledger to hold again. The invariant is
`RefsCounted`, the ledger with nothing open.

It is inductive, given `TrackersRight`, under `Undisturbed`: before a shutdown,
every job that a manifest is read for awaits its layers. When a job ends while one
of its manifests is read, its tracker gives that reference back, and the end of the
read gives it back again; that is what `dispatcher_cancelled_read` finds, and the
theorems say that there is no other way to it. At a shutdown jobs are dropped with
their references. From then on the cache counts at least the claims, and a job that was
dropped still claims the manifests that are read for it, which is what their ends give
back.

`Careful` is a condition on the constants alone: a job with manifests cannot be
cancelled and has no fetch or build that may fail, and if the read of one of its
manifests may fail it is the only one. Under it every behaviour is undisturbed:
`Tame` adds to `Undisturbed` that a job is told of a failed read only if it may fail, and
each step that ends a job ends one that no manifest is read for any more. The
constants of the run `dispatcher` are careful, those of `dispatcher_cancelled_read` are
not.

### 6.6 The client

`ClientRight` relates five parts that each message changes two or more of:

- every layer that a job lacks has that job and place among its waiters, every
  waiter is a place that lacks that layer, and a job's image has the job on its list;
- a layer is being got exactly if its build runs or waits, with the counts of
  `BuildsAccounted`;
- what is in the router's channel, behind it and in its maps: an artifact is
  announced before the job that names it, and the router learns of it before it is
  asked for it;
- calls of `run_job` and the jobs that the router, the broker or the worker has.

No `unwrap` fails because whatever it looks up is known by one of these.

`JobsRunAsSpecified` adds `DescribedRight`: what a layer's build has uploaded, and
what every prepared job runs with, is what the layer describes. This is kept under
`OwnManifests`, that no build writes to the path another one uploads from, which is
exactly what `client_manifest` violates: the shared path is the only way to what
that run finds.

### 6.7 What is model-checked only

- Liveness and `ENABLED`, which are out of the prover's reach.
- `HeapOrdered`, `StartsAtTheLeastLoaded` and `StartsLikeTheLoop` of `WorkerHeap`,
  whose sifts and loop are recursive operators, and `CollapsesAsDescribed`, which
  compares a loop over ancestors with a recursion over them: inductions over data.

## 7 Findings

Each is a run that TLC finishes with a counterexample to what the code's own
comments or assertions say; `PROJECT.json` quotes them.

- `gatherer_leak` (`artifact_gatherer.rs:535`): a job fails while another of its
  artifacts is being uploaded. When that arrives, the cache counts a reference
  for the job, which is no longer there to release it.
- `gatherer_fetch` (`artifact_fetcher.rs:49`): a worker's fetch takes a reference
  and gives it back after the copy. When the file cannot be opened or the
  connection breaks, the function returns before that, and the artifact stays.
- `gatherer_shared_upload` (`artifact_gatherer.rs:497`): two clients upload one
  artifact into the one place it has in the landing pad. The second report finds
  the place empty, and the failure removes the cache's entry though jobs use it.
- `gatherer_nested` (`artifact_gatherer.rs:293`): a layer that is a manifest, and
  whose file another manifest of the job lists, is not read if the file is
  acquired the other way first.
- `dispatcher_cancelled_read` (`dispatcher.rs:543`): a job is cancelled, or
  fails, while one of its manifests is read. The end of the read releases a
  reference that has been released.
- `client_manifest` (`client/layer_builder.rs:184`): the manifest of a layer is
  written to a path that is a hash of its files' paths. Two layers of the same
  files with different prefix options share it, and if one is moved there between
  the other's move and its upload, a job runs with the other's layer.

Two things the models and their reading brought up that are not runs: a
manifest's reader in the broker opens its file when it is first polled, when the
jobs that held the manifest may be gone (`cache/local.rs:105`; the model lets
such a read fail, which the gatherer handles); and a client that stops because
one of its tasks failed seems to wait for ever for its local worker, since the
router is aborted before it can pass `Shutdown` on (`client.rs:396-430`).

## 8 What is not modelled

`PROJECT.json` lists every component. Not modelled by choice: system calls and
the process under construction in a worker (`executor.rs`,
`maelstrom-worker-child`, `maelstrom-linux`), file formats and protocols, HTTP,
the user interfaces and test runners, the parsing of specs, services outside the
repository (GitHub's queue and cache, container registries), the layer file
system. They are most of the repository's lines; their state is the kernel's, or
they have none that outlives a call.

Of the modelled components these parts are missing: the limits on simultaneous
fetches and layer builds in a worker, and the pools of `sync.rs` and `async.rs`
under them; the client's start and end, with its state machine; the remote cache
of the broker, which has no references; the statistics; in the client, which files
a glob or a shared library listing names, and the digest repository, whose
staleness is in the file system's times; in `CacheFiles`, more than one kind of
key in use, and entries of the cache's directory that no version of the program
made. The broker's scheduler and gatherer are checked each against the other's
contract, not composed over their common queue.

## 9 Plan

Done:

1. `Scheduler` and `StartOrder`; `WorkerHeap` with the loop.
2. `CacheOps`, `ArtifactGatherer` with the fetches that break off; `CacheFiles`.
3. `LayerTracker`, `ManifestDigestCache`, `Dispatcher`; the abstract `JobService`
   and `GathererContract`, with what implements them.
4. `CollapsedJobSpec` and `Client`.
5. Theorems about all of these but `WorkerHeap` and `CollapsedJobSpec` (section 6).

Next, in order of what matters to the system:

6. `Broker`: `Scheduler` and `ArtifactGatherer` over one first-in-first-out queue,
   in place of the runs of each with an assumed other.
7. The client's start and end: state machine, monitor, local worker, and what
   becomes of calls under way.
8. The pools of `sync.rs` and `async.rs`; the ring buffer of statistics; `simex`,
   a pure algorithm, against a reference.

## 10 Running

    tlc -config Scheduler.cfg MCScheduler
    tlapm SchedulerProofs.tla

Each `.cfg` names the module it is for by its prefix: `Scheduler`, `WorkerHeap`,
`Gatherer*`, `CacheFiles`, `Dispatcher*` and `Client*` go with `MCScheduler`,
`MCWorkerHeap`, `MCGatherer`, `MCCacheFiles`, `MCDispatcher` and `MCClient`. The
longest runs, `dispatcher` and `gatherer`, take two to three minutes. The modules with
theorems are those of the table in section 6; each checks on its own, in five to
ten minutes, `FoldTheorems` in seconds, `GathererProofs` and `TrackerProofs` in a
quarter of an hour.
