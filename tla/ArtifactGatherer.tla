-------------------------- MODULE ArtifactGatherer --------------------------
(***************************************************************************)
(* The broker's artifact gatherer, which gets into the cache, and keeps    *)
(* there, all the artifacts a job needs, with the cache it owns:           *)
(*   crates/maelstrom-broker/src/scheduler_task/artifact_gatherer.rs       *)
(*   crates/maelstrom-broker/src/cache/local.rs                            *)
(*   crates/maelstrom-util/src/cache.rs (CacheOps).                        *)
(*                                                                         *)
(* It runs on the scheduler task's thread; one action is one call by the   *)
(* scheduler or one message.  Around it are                                *)
(*   - the scheduler, which starts each job once and completes those that  *)
(*     became ready;                                                       *)
(*   - the clients, which upload what they are asked for: the upload       *)
(*     connection delivers the file (GotArtifact), then the client's own   *)
(*     connection says so (ArtifactTransferred);                           *)
(*   - the manifest readers, tasks that open a manifest some time after    *)
(*     they were started, and send its entries and then the result;        *)
(*   - the workers, which take references to artifacts they copy.          *)
(*                                                                         *)
(* A handler makes many calls, each of which sees what the one before did: *)
(* its steps are operators on the record of the gatherer's state, and the  *)
(* action assigns the last record to the variables.                        *)
(***************************************************************************)
EXTENDS CacheOps

CONSTANTS
  Client,     \* client ids; the getter of a job is its client
  Job,        \* job ids
  Layers,     \* JobSpec::layers: a sequence of <<digest, is a manifest>>
  Entries,    \* what a manifest lists: a sequence of digests
  MaxReads,   \* ManifestReads::max_in_progress
  MaxKnown,   \* how many manifests fit in ManifestReads::cache
  \* Bounds on what happens around the gatherer:
  Batches,    \* the sets of clients and jobs that come together
  MaxFetches, \* workers that copy an artifact at a time
  MaxAborts,  \* how many of these copies break off
  Overlap,    \* whether an artifact may be uploaded twice at a time
  MayStick    \* the artifacts whose removal from the cache may fail

ASSUME GathererAssumption ==
  /\ IsFiniteSet(Digest) /\ Client \cap Job = {}
  /\ Getter \in [Job -> Client]
  /\ Layers \in [Job -> Seq(Digest \X BOOLEAN)]
  /\ Entries \in [Digest -> Seq(Digest)]
  /\ MaxReads \in Nat \ {0} /\ MaxKnown \in Nat /\ MaxFetches \in Nat /\ MaxAborts \in Nat
  /\ Batches \subseteq SUBSET (Client \cup Job) /\ Overlap \in BOOLEAN
  /\ MayStick \subseteq Digest

VARIABLES
  cache,       \* ArtifactGatherer::cache
  clients,     \* the keys of ArtifactGatherer::clients
  job,         \* Client::jobs
  landed,      \* the keys of tcp_upload_landing_pad
  reads,       \* ManifestReads::entries
  known,       \* the keys of ManifestReads::cache, the last read one last
  waiting,     \* ManifestReads::waiting
  inProgress,  \* ManifestReads::in_progress
  started,     \* the clients that connected and the jobs that were started
  asked,       \* TransferArtifacts a client has not uploaded the file for
  uploaded,    \* uploads of which the client has not said so yet
  reader,      \* the manifest readers
  announced,   \* what the scheduler was told of a job
  completed,   \* the jobs the scheduler has completed
  fetching,    \* the references that worker connections hold
  aborted      \* the number of fetches of workers that have broken off

gathererVars == <<cache, clients, job, landed, reads, known, waiting, inProgress>>
envVars == <<started, asked, uploaded, reader, announced, completed,
             fetching, aborted>>
brokerVars == <<gathererVars, envVars>>
vars == <<brokerVars, stuck>>

Owner(j) == Getter[j]

NoJob == [st |-> "none"]
NewJob == [st |-> "job", acquired |-> {}, being |-> {}, reading |-> {}]
NoRead == [st |-> "none"]
NewRead(j) == [st |-> "read", jobs |-> {j}, entries |-> {}]
NoReader == [st |-> "none", next |-> 1]
NewReader == [st |-> "requested", next |-> 1]

(***************************************************************************)
(* The state that the handlers' steps work on.                             *)
(***************************************************************************)
Now == [cache |-> cache, job |-> job, reads |-> reads, known |-> known,
        waiting |-> waiting, inProgress |-> inProgress, asked |-> asked,
        reader |-> reader, ready |-> {}, failed |-> {}]

\* The handler ends in state g: the jobs it found ready or failed are told to
\* the scheduler.
Become(g) ==
  /\ cache' = g.cache /\ job' = g.job /\ reads' = g.reads
  /\ known' = g.known /\ waiting' = g.waiting /\ inProgress' = g.inProgress
  /\ asked' = g.asked /\ reader' = g.reader
  /\ announced' = [j \in Job |->
       announced[j] \o (IF j \in g.ready THEN <<"ready">> ELSE <<>>)
                    \o (IF j \in g.failed THEN <<"failed">> ELSE <<>>)]

Panic(g) == [g EXCEPT !.cache = Panicked(@)]

BeingAcquired(r) == {b[1] : b \in r.being}

HaveAll_OnlyArtifacts(r) == r.being = {}

\* Job::have_all_artifacts
HaveAll(r) == r.being = {} /\ r.reading = {}

(***************************************************************************)
(* Acquiring artifacts.                                                    *)
(***************************************************************************)
StartAcquiring_Again(g, j, d, manifest) ==
  LET r == g.job[j]
      got == GetArtifact(g.cache, d, j)
      h == [g EXCEPT !.cache = got.cache]
      wait == [h EXCEPT !.job[j].being = @ \cup {<<d, manifest>>}]
  IN
  IF d \in r.acquired THEN g
  ELSE CASE got.result = "success" -> [h EXCEPT !.job[j].acquired = @ \cup {d}]
         [] got.result = "wait" -> wait
         [] OTHER ->
              [wait EXCEPT !.asked[<<Owner(j), d>>] = @ + 1]

\* start_acquiring_artifact_for_job up to the reading of a manifest
StartAcquiring(g, j, d, manifest) ==
  LET r == g.job[j]
      got == GetArtifact(g.cache, d, j)
      h == [g EXCEPT !.cache = got.cache]
      wait == [h EXCEPT !.job[j].being = @ \cup {<<d, manifest>>}]
  IN
  IF d \in r.acquired \cup BeingAcquired(r) THEN g
  ELSE CASE got.result = "success" -> [h EXCEPT !.job[j].acquired = @ \cup {d}]
         [] got.result = "wait" -> wait
         [] OTHER ->
              [wait EXCEPT !.asked[<<Owner(j), d>>] = @ + 1]

\* start_acquiring_manifest_entries_for_job.  The entries come out of a hash
\* set in any order, which changes nothing but the order of the requests.
AcquireEntries(g, j, D) ==
  FoldLeft(LAMBDA h, d : StartAcquiring(h, j, d, FALSE), g, SetToSeq(D))

\* start_manifest_reader
StartReader(g, d) ==
  IF g.inProgress >= MaxReads THEN Panic(g)
  ELSE [g EXCEPT !.inProgress = @ + 1, !.reader[d] = NewReader]

\* start_or_enqueue_manifest_read
StartOrEnqueueRead(g, d) ==
  IF g.inProgress = MaxReads THEN [g EXCEPT !.waiting = Append(@, d)]
  ELSE StartReader(g, d)

ToLast(s, d) == Append(RemoveFirst(s, d), d)

\* potentially_start_reading_manifest_for_job, for a manifest: its entries
\* are known, or being read, or it is to be read.
ReadManifest(g, j, d) ==
  LET h == [g EXCEPT !.job[j].reading = @ \cup {d}] IN
  IF d \in ToSet(g.known)
  THEN AcquireEntries([g EXCEPT !.known = ToLast(@, d)], j, ToSet(Entries[d]))
  ELSE IF g.reads[d] = NoRead
  THEN StartOrEnqueueRead([h EXCEPT !.reads[d] = NewRead(j)], d)
  ELSE AcquireEntries([h EXCEPT !.reads[d].jobs = @ \cup {j}], j,
                      g.reads[d].entries)

\* start_acquiring_artifact_for_job
Acquire(g, j, d, manifest) ==
  LET h == StartAcquiring(g, j, d, manifest) IN
  IF manifest /\ d \in h.job[j].acquired \ g.job[j].acquired
  THEN ReadManifest(h, j, d) ELSE h

(***************************************************************************)
(* Letting go of them.  ord is the order in which the digests come out of  *)
(* the hash table: the cache evicts in the order of the decrements.        *)
(***************************************************************************)
Orders == SetToSeqs(Digest)

Release(c, D, ord) ==
  FoldLeft(LAMBDA b, d : IF d \in D THEN Decremented(b, d) ELSE b, c, ord)

DropJob_StillReading(g, j, ord) ==
  [g EXCEPT !.cache = Release(@, g.job[j].acquired, ord), !.job[j] = NoJob]

\* try_pop_job and drop_job
DropJob(g, j, ord) ==
  LET r == g.job[j]
      Left(d) == IF d \in r.reading
                 THEN [g.reads[d] EXCEPT !.jobs = @ \ {j}] ELSE g.reads[d]
  IN
  [g EXCEPT !.cache = Release(@, r.acquired, ord),
            !.reads = [d \in Digest |-> Left(d)],
            !.job[j] = NoJob]

\* Drop those of the jobs in the sequence js that there still are, and fail
\* them.
FailJobs(g, js, ord) ==
  LET FailOne(h, j) ==
        IF h.job[j] = NoJob THEN h
        ELSE [DropJob(h, j, ord) EXCEPT !.failed = @ \cup {j}]
  IN  FoldLeft(FailOne, g, js)

-----------------------------------------------------------------------------
Init ==
  /\ cache = EmptyCache /\ clients = {} /\ job = [j \in Job |-> NoJob]
  /\ landed = {} /\ reads = [d \in Digest |-> NoRead]
  /\ known = <<>> /\ waiting = <<>> /\ inProgress = 0
  /\ started = {}
  /\ asked = [u \in Client \X Digest |-> 0]
  /\ uploaded = [u \in Client \X Digest |-> 0]
  /\ reader = [d \in Digest |-> NoReader]
  /\ announced = [j \in Job |-> <<>>] /\ completed = {}
  /\ fetching = [d \in Digest |-> 0] /\ aborted = 0
  /\ stuck = {}

\* A panic ends the scheduler task.
Running == ~cache.panicked

\* The client or job x may come next.
MayCome(x) == x \notin started /\ \E B \in Batches : started \cup {x} \subseteq B

\* client_connected
ClientConnected(c) ==
  /\ Running
  /\ MayCome(c)
  /\ started' = started \cup {c}
  /\ clients' = clients \cup {c}
  /\ UNCHANGED <<cache, job, landed, reads, known, waiting, inProgress, asked,
                 uploaded, reader, announced, completed, fetching, aborted>>

\* client_disconnected: first the cache forgets the client, then its jobs are
\* dropped.  What it has been asked for it may still have uploaded.
ClientDisconnected(c, ord) ==
  LET mine == {j \in Job : Owner(j) = c /\ job[j] # NoJob}
      forgotten == [Now EXCEPT !.cache = GetterDisconnected(@, c)]
  IN
  /\ Running
  /\ c \in clients
  /\ clients' = clients \ {c}
  /\ \E js \in SetToSeqs(mine) :
       Become(FoldLeft(LAMBDA g, j : DropJob(g, j, ord), forgotten, js))
  /\ uploaded' = [u \in Client \X Digest |-> IF u[1] = c THEN 0 ELSE uploaded[u]]
  /\ UNCHANGED <<landed, started, completed, fetching, aborted>>

\* start_job
StartJob(j) ==
  LET new == [Now EXCEPT !.job[j] = NewJob]
      g == FoldLeft(LAMBDA h, l : Acquire(h, j, l[1], l[2]), new, Layers[j])
  IN
  /\ Running
  /\ Owner(j) \in clients /\ MayCome(j)
  /\ started' = started \cup {j}
  /\ Become([g EXCEPT !.ready = IF HaveAll(g.job[j]) THEN {j} ELSE {}])
  /\ UNCHANGED <<clients, landed, uploaded, completed, fetching, aborted>>

\* receive_got_artifact: an upload connection has received a file that a
\* client was asked for.
GotArtifact(c, d) ==
  /\ Running
  /\ asked[<<c, d>>] > 0
  /\ Overlap \/ \A e \in Client : uploaded[<<e, d>>] = 0
  /\ asked' = [asked EXCEPT ![<<c, d>>] = @ - 1]
  /\ landed' = landed \cup {d}
  /\ uploaded' = [uploaded EXCEPT ![<<c, d>>] =
                    IF c \in clients THEN @ + 1 ELSE @]
  /\ UNCHANGED <<cache, clients, job, reads, known, waiting, inProgress, started,
                 reader, announced, completed, fetching, aborted>>

\* self.clients.get_mut(&jid.cid) is there for j, and has the job.
HasClient(j) == Owner(j) \in clients
HasJob(j) == HasClient(j) /\ job[j] # NoJob

\* receive_artifact_transferred, for ArtifactUploadLocation::TcpUpload; fsOk is
\* whether the file can be moved into the cache.  A job of the cache's may have
\* been dropped, its client not.
ArtifactTransferred(c, d, fsOk, ord) ==
  LET got == IF d \in landed THEN GotArtifactSuccess(cache, d, fsOk)
             ELSE GotArtifactFailure(cache, d)
      g == [Now EXCEPT !.cache = got.cache]
      Advance(h, j) ==
        LET r == h.job[j]
            b == CHOOSE x \in r.being : x[1] = d
            has == [h EXCEPT !.job[j].being = @ \ {b},
                             !.job[j].acquired = @ \cup {d}]
            next == IF b[2] THEN ReadManifest(has, j, d) ELSE has
        IN
        IF r = NoJob THEN h
        ELSE IF d \notin BeingAcquired(r) THEN Panic(h)
        ELSE IF HaveAll(next.job[j]) THEN [next EXCEPT !.ready = @ \cup {j}]
        ELSE next
  IN
  /\ Running
  /\ c \in clients /\ uploaded[<<c, d>>] > 0
  /\ uploaded' = [uploaded EXCEPT ![<<c, d>>] = @ - 1]
  /\ landed' = landed \ {d}
  /\ IF \E j \in ToSet(got.jobs) : ~HasClient(j) THEN Become(Panic(g))
     ELSE IF got.ok THEN Become(FoldLeft(Advance, g, got.jobs))
     ELSE Become(FailJobs(g, got.jobs, ord))
  /\ UNCHANGED <<clients, started, completed, fetching, aborted>>

\* LazyRead: the reader's task opens the file some time after it was started.
\* A file that could not be removed is there although the cache has dropped it.
ReaderOpens(d) ==
  /\ Running
  /\ reader[d].st = "requested"
  /\ reader' = [reader EXCEPT ![d].st =
                   IF d \in Stored(cache) \cup cache.left THEN "open" ELSE "failed"]
  /\ UNCHANGED <<gathererVars, started, asked, uploaded, announced, completed,
                 fetching, aborted>>

\* receive_manifest_entry: the read and all of its jobs must be there.
ManifestEntry(d) ==
  LET e == Entries[d][reader[d].next]
      js == SetToSeq(reads[d].jobs)
      seen == [Now EXCEPT !.reader[d].next = @ + 1,
                          !.reads[d].entries = @ \cup {e}]
  IN
  /\ Running
  /\ reader[d].st = "open" /\ reader[d].next <= Len(Entries[d])
  /\ IF reads[d] # NoRead /\ (e \in reads[d].entries \/ \A j \in reads[d].jobs : HasJob(j))
     THEN Become(IF e \in reads[d].entries THEN seen
                 ELSE FoldLeft(LAMBDA g, j : StartAcquiring(g, j, e, FALSE), seen, js))
     ELSE Become(Panic(Now))
  /\ UNCHANGED <<clients, landed, started, uploaded, completed, fetching, aborted>>

\* insert_manifest_into_cache
Learn(s, d) ==
  LET t == Append(s, d) IN
  SubSeq(t, Len(t) - (IF Len(t) > MaxKnown THEN MaxKnown ELSE Len(t)) + 1, Len(t))

\* the end of receive_finished_reading_manifest
NextRead(g) ==
  IF g.waiting = <<>> THEN g
  ELSE StartReader([g EXCEPT !.waiting = Tail(@)], Head(g.waiting))

\* What the end of a read relies on: it is in progress, its jobs are there and
\* know of it, and a manifest that is learnt was not known.
ReadInOrder(d, ok) ==
  /\ reads[d] # NoRead /\ inProgress > 0
  /\ \A j \in reads[d].jobs : HasJob(j) /\ d \in job[j].reading
  /\ ok => d \notin ToSet(known)

\* receive_finished_reading_manifest.  A reader that could not open the file
\* fails; one that could may still meet an error.
FinishedReadingManifest(d, ok, ord) ==
  LET g == [Now EXCEPT !.reads[d] = NoRead, !.inProgress = @ - 1,
                       !.reader[d] = NoReader,
                       !.job = [j \in Job |->
                          IF j \in reads[d].jobs
                          THEN [job[j] EXCEPT !.reading = @ \ {d}] ELSE job[j]]]
      ready == {j \in reads[d].jobs : HaveAll(g.job[j])}
  IN
  /\ Running
  /\ \/ reader[d].st = "failed" /\ ~ok
     \/ reader[d].st = "open" /\ (ok => reader[d].next > Len(Entries[d]))
  /\ IF ~ReadInOrder(d, ok) THEN Become(Panic(Now))
     ELSE IF ok THEN Become(NextRead([g EXCEPT !.ready = ready, !.known = Learn(@, d)]))
     ELSE \E js \in SetToSeqs(reads[d].jobs) : Become(NextRead(FailJobs(g, js, ord)))
  /\ UNCHANGED <<clients, landed, started, uploaded, completed, fetching, aborted>>

\* job_completed, which the scheduler calls once for a job that became ready,
\* unless its client disconnects first
JobCompleted(j, ord) ==
  /\ Running
  /\ announced[j] # <<>> /\ announced[j][1] = "ready"
  /\ Owner(j) \in clients /\ j \notin completed
  /\ completed' = completed \cup {j}
  /\ Become(IF job[j] = NoJob \/ ~HaveAll(job[j]) THEN Panic(Now)
            ELSE DropJob(Now, j, ord))
  /\ UNCHANGED <<clients, landed, started, uploaded, fetching, aborted>>

\* receive_get_artifact_for_worker, when there is a reference already: the
\* worker's connection gets one.  Otherwise it gets an error.
GetArtifactForWorker(d) ==
  /\ Running
  /\ cache.entry[d].st = "inUse"
  /\ MapThenSumSet(LAMBDA e : fetching[e], Digest) < MaxFetches
  /\ fetching' = [fetching EXCEPT ![d] = @ + 1]
  /\ cache' = Incremented(cache, d)
  /\ UNCHANGED <<clients, job, landed, reads, known, waiting, inProgress, started,
                 asked, uploaded, reader, announced, completed, aborted>>

\* receive_decrement_refcount_from_worker
DecrementRefcount(d) ==
  /\ Running
  /\ fetching[d] > 0
  /\ fetching' = [fetching EXCEPT ![d] = @ - 1]
  /\ cache' = Decremented(cache, d)
  /\ UNCHANGED <<clients, job, landed, reads, known, waiting, inProgress, started,
                 asked, uploaded, reader, announced, completed, aborted>>

\* handle_one_message and send_artifact return early when the file cannot be
\* opened or the socket breaks: no DecrementRefcount is sent.
FetchAborted(d) ==
  /\ Running
  /\ fetching[d] > 0 /\ aborted < MaxAborts
  /\ fetching' = [fetching EXCEPT ![d] = @ - 1]
  /\ aborted' = aborted + 1
  /\ UNCHANGED <<gathererVars, started, asked, uploaded, reader, announced,
                 completed>>

BrokerNext ==
  \/ \E c \in Client : ClientConnected(c)
  \/ \E c \in Client, ord \in Orders : ClientDisconnected(c, ord)
  \/ \E j \in Job : StartJob(j)
  \/ \E c \in Client, d \in Digest : GotArtifact(c, d)
  \/ \E c \in Client, d \in Digest, fsOk \in BOOLEAN, ord \in Orders :
       ArtifactTransferred(c, d, fsOk, ord)
  \/ \E d \in Digest : ReaderOpens(d) \/ ManifestEntry(d)
  \/ \E d \in Digest, ok \in BOOLEAN, ord \in Orders :
       FinishedReadingManifest(d, ok, ord)
  \/ \E j \in Job, ord \in Orders : JobCompleted(j, ord)
  \/ \E d \in Digest : GetArtifactForWorker(d) \/ DecrementRefcount(d) \/ FetchAborted(d)

\* The file system changes its mind about what of the cache it would remove.
FileSystem ==
  /\ stuck' \in SUBSET (MayStick \cap Stored(cache))
  /\ UNCHANGED brokerVars

Next ==
  \/ BrokerNext /\ UNCHANGED stuck
  \/ FileSystem

Spec == Init /\ [][Next]_vars

(***************************************************************************)
(* As long as it is connected, a client uploads what it is asked for and   *)
(* says so; one that has gone may still upload it, or not.  The            *)
(* readers' tasks run, and the scheduler task receives their messages.     *)
(* Each of these actions is enabled while there is such work and leaves    *)
(* less of it, so []<>~(work) says the same as its weak fairness, and      *)
(* costs TLC less.                                                         *)
(***************************************************************************)
Fairness ==
  /\ \A c \in Client, d \in Digest :
       /\ []<>~(Running /\ c \in clients /\ asked[<<c, d>>] > 0)
       /\ []<>~(Running /\ c \in clients /\ uploaded[<<c, d>>] > 0)
  /\ \A d \in Digest : []<>~(Running /\ reader[d].st # "none")

FairSpec == Spec /\ Fairness

-----------------------------------------------------------------------------
Entry ==
  {Absent, InHeap} \cup [st : {"inUse"}, refs : Nat \ {0}]
  \cup [st : {"getting"}, jobs : Seq(Job) \ {<<>>}, getters : SUBSET Client]

TypeOK ==
  /\ cache.entry \in [Digest -> Entry]
  /\ cache.heap \in Seq(Digest) /\ cache.bytes \in Nat
  /\ clients \subseteq Client /\ landed \subseteq Digest
  /\ job \in [Job -> {NoJob} \cup
       [st : {"job"}, acquired : SUBSET Digest,
        being : SUBSET (Digest \X BOOLEAN), reading : SUBSET Digest]]
  /\ reads \in [Digest -> {NoRead} \cup
       [st : {"read"}, jobs : SUBSET Job, entries : SUBSET Digest]]
  /\ known \in Seq(Digest) /\ waiting \in Seq(Digest)
  /\ inProgress \in 0 .. MaxReads
  /\ asked \in [Client \X Digest -> Nat] /\ uploaded \in [Client \X Digest -> Nat]
  /\ announced \in [Job -> Seq({"ready", "failed"})]

Live == {j \in Job : job[j] # NoJob}

\* The references that jobs and worker connections believe they have.
Claims(d) == Cardinality({j \in Live : d \in job[j].acquired}) + fetching[d]

\* What a job was promised stays in the cache: an artifact that jobs or
\* workers hold has at least as many references, so it is not evicted.
HeldStaysCached ==
  \A d \in Digest : Claims(d) > 0 => Refs(cache, d) >= Claims(d)

\* None of the expects, unwraps and asserts fails: no reference is released
\* twice, no job is completed that the gatherer has dropped, a job that the
\* cache lists still waits for the artifact, reads stay within their limit.
NoPanic == ~cache.panicked

\* The cache's accounts agree with one another, over get, eviction and
\* failure: what has no reference is in the heap once; bytes_used is the size
\* of what is stored and of what could not be removed; and above the target
\* nothing without a reference stays, unless a removal has failed since the
\* cache last came to it.
CacheSound ==
  /\ ToSet(cache.heap) = {d \in Digest : cache.entry[d] = InHeap}
  /\ \A i, k \in DOMAIN cache.heap : cache.heap[i] = cache.heap[k] => i = k
  /\ cache.bytes = cache.lost
       + FoldLeft(LAMBDA n, d : n + Size[d], 0, SetToSeq(Stored(cache)))
  /\ cache.bytes > Target => cache.heap = <<>> \/ cache.stopped

Needed(j) ==
  LET layers == ToSet(Layers[j]) IN
  {l[1] : l \in layers} \cup
  UNION {ToSet(Entries[l[1]]) : l \in {x \in layers : x[2]}}

\* A job the scheduler may start has references on all of its layers and on
\* all that its manifests list, whoever read the manifest and whenever the
\* job joined.
ReadyHasEverything ==
  \A j \in Live : announced[j] = <<"ready">> => Needed(j) \subseteq job[j].acquired

Said(a) ==
  CASE a = <<>> -> "none" [] a = <<"ready">> -> "ready"
    [] a = <<"failed">> -> "failed" [] OTHER -> "twice"

Contract == INSTANCE GathererContract WITH
  ClientOf <- Getter, Needs <- [j \in Job |-> Needed(j)],
  connected <- clients, started <- started \cap Job,
  said <- [j \in Job |-> Said(announced[j])], stored <- Stored(cache)

\* The gatherer does what the scheduler relies on: it announces a job once,
\* neither before it has everything nor after its client has gone, and keeps
\* stored what the job needs until it is completed, over all evictions.
KeepsContract == Contract!Spec

\* Every artifact a job waits for is on its way: the cache will return the
\* job, once, when it comes, and its client still has to upload it or to say
\* that it has.
WaitedFor ==
  \A j \in Live : \A d \in BeingAcquired(job[j]) :
    LET e == cache.entry[d] IN
    /\ e.st = "getting"
    /\ Cardinality({i \in DOMAIN e.jobs : e.jobs[i] = j}) = 1
    /\ Owner(j) \in e.getters
    /\ asked[<<Owner(j), d>>] + uploaded[<<Owner(j), d>>] > 0

\* Jobs and manifest reads agree about who reads what; as many reads are in
\* progress as there are readers; and a read waits only while the limit is
\* reached, so the queue cannot be forgotten.
ReadsMatch ==
  LET reading == {d \in Digest : reader[d] # NoReader} IN
  /\ \A d \in Digest : reads[d] # NoRead =>
       reads[d].jobs = {j \in Live : d \in job[j].reading}
  /\ \A j \in Live, d \in Digest : d \in job[j].reading => reads[d] # NoRead
  /\ inProgress = Cardinality(reading)
  /\ {d \in Digest : reads[d] # NoRead} = reading \cup ToSet(waiting)
  /\ reading \cap ToSet(waiting) = {}
  /\ waiting # <<>> => inProgress = MaxReads

\* No trace of a client that has gone stays with the gatherer or in the cache.
GoneIsForgotten ==
  /\ \A j \in Live : Owner(j) \in clients
  /\ \A d \in Digest : cache.entry[d].st = "getting" =>
       /\ cache.entry[d].getters \subseteq clients
       /\ \A i \in DOMAIN cache.entry[d].jobs :
            Owner(cache.entry[d].jobs[i]) \in clients

\* A job whose client stays becomes ready or fails, whoever else was asked for
\* its artifacts and whoever else leaves: no upload, read or turn in the queue
\* of reads is forgotten.  (Unless the scheduler task has panicked.)
EveryJobSettles ==
  \A j \in Job : j \in started ~>
    (announced[j] # <<>> \/ Owner(j) \notin clients \/ cache.panicked)

-----------------------------------------------------------------------------
(***************************************************************************)
(* What comments in the code say, and the code does not do.                *)
(***************************************************************************)
\* artifact_gatherer.rs: when a job has failed, the gatherer "will have
\* already released any references the job may have had".  scheduler_task.rs:
\* after a worker was sent an artifact "the refcount needs to be decremented".
\* So nobody else than live jobs and fetches under way has references.
NoneHeldForNobody == \A d \in Digest : Refs(cache, d) <= Claims(d)
=============================================================================
