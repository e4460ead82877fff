------------------------------ MODULE Scheduler ------------------------------
(***************************************************************************)
(* The broker's job scheduler:                                             *)
(*   crates/maelstrom-broker/src/scheduler_task/scheduler.rs.              *)
(*                                                                         *)
(* The scheduler runs on one thread and owns all of the state below; one   *)
(* action is one message taken from the scheduler task's channel, with     *)
(* everything its handler does.  What the scheduler talks to is modelled   *)
(* at its interface only:                                                  *)
(*   - a client connects, sends requests and disconnects, once per id;     *)
(*   - a worker connects, answers what it was sent and disconnects, once   *)
(*     per id; an answer may already be under way when a job is cancelled; *)
(*   - the artifact gatherer answers a request Ready or NotReady, and      *)
(*     later announces NotReady jobs as ready or failed through the        *)
(*     scheduler's own channel, so the announcement is received after      *)
(*     whatever was already there, a disconnection for instance.           *)
(*                                                                         *)
(* A definition named D_Slip, just before D, is D with a plausible slip;   *)
(* no behaviour uses it, PROJECT.json lists the property it would break.   *)
(***************************************************************************)
EXTENDS StartOrder

CONSTANTS
  Client,  \* client ids; each is vended once, see lib.rs
  Owner,   \* the client id of a job id
  Arrivals, \* bound: the sets of clients, workers and jobs that may have come
  Detailed  \* bound: those with which jobs may wait and workers send updates

ASSUME ClientAssumption == IsFiniteSet(Client)
ASSUME OwnerAssumption == Owner \in [Job -> Client]

VARIABLES
  clients,    \* the keys of Scheduler::clients
  jobs,       \* the job ids in the Client::jobs maps
  counts,     \* Client::counts
  workers,    \* the keys of Scheduler::workers
  pending,    \* Worker::pending
  queued,     \* Scheduler::queued_jobs
  vended,     \* the client and worker ids that have connected
  requested,  \* the jobs that have been requested
  acquiring,  \* gatherer: jobs answered NotReady and not announced
  announced,  \* JobsReady and JobsFailed messages in the channel
  atWorker,   \* jobs a worker was sent and has not answered
  cancelled,  \* those of them it was told to cancel
  status,     \* the last status update sent to the job's client
  responses   \* the number of responses sent to the job's client

schedVars == <<clients, jobs, counts, workers, pending, queued>>
envVars == <<vended, requested, acquiring, announced, atWorker, cancelled>>
clientVars == <<status, responses>>
vars == <<schedVars, envVars, clientVars>>

JobState == {"WaitingForArtifacts", "Pending", "Running", "Complete"}
Status == {"none", "WaitingForLayers", "WaitingForWorker", "AtWorker"}
Announcement == [kind : {"ready", "failed"}, jobs : (SUBSET Job) \ {{}}]

JobsOf(c) == {j \in Job : Owner[j] = c}

Moved_OnlyInto(cs, J, from, to) ==
  [c \in Client |-> [cs[c] EXCEPT ![to] = @ + Cardinality(J \cap JobsOf(c))]]

Moved_OnlyOutOf(cs, J, from, to) ==
  [c \in Client |-> [cs[c] EXCEPT ![from] = @ - Cardinality(J \cap JobsOf(c))]]

\* The counts cs once the jobs of J have gone from state `from' to state `to'.
Moved(cs, J, from, to) ==
  [c \in Client |->
     LET n == Cardinality(J \cap JobsOf(c)) IN
     [cs[c] EXCEPT ![from] = @ - n, ![to] = @ + n]]

\* The JobStatusUpdates at the end of possibly_start_jobs.
Reported(J) ==
  [j \in Job |-> IF j \in J THEN "WaitingForWorker" ELSE status[j]]

\* possibly_start_jobs(fresh) from the workers W, their pending jobs p, the
\* queue q, the counts cs and the jobs at the workers aw.
PossiblyStartJobs(W, p, q, cs, aw, fresh) ==
  \E f \in Placements(W, p, q) :
    /\ pending' = [w \in Worker |-> p[w] \cup StartedAt(f, w)]
    /\ atWorker' = [w \in Worker |-> aw[w] \cup StartedAt(f, w)]
    /\ queued' = q \ DOMAIN f
    /\ counts' = Moved(cs, DOMAIN f, "Pending", "Running")
    /\ status' = Reported(fresh \ DOMAIN f)

(***************************************************************************)
(* What the handlers share.                                                *)
(***************************************************************************)
Respond_Silently(J) ==
  /\ jobs' = jobs \ J
  /\ UNCHANGED responses

\* The clients of J are sent their responses and the jobs leave their maps.
Respond(J) ==
  /\ responses' = [j \in Job |-> responses[j] + IF j \in J THEN 1 ELSE 0]
  /\ jobs' = jobs \ J

LiveJobs_All(m) == m.jobs

\* The announced jobs whose client is still connected.
LiveJobs(m) == {j \in m.jobs : Owner[j] \in clients}

Cancelled_None(c) == cancelled

\* The CancelJobs sent when client c disconnects.
Cancelled(c) ==
  [w \in Worker |-> cancelled[w] \cup (pending[w] \cap JobsOf(c))]

Requeued_None(w) == {}

\* The jobs that a disconnected worker leaves to the queue.
Requeued(w) == pending[w]

\* The jobs that queued_jobs.pop() may return.
NextQueued == {k \in queued : \A i \in queued : ~Before(i, k)}

Taken_Peeked(k) == queued

\* The queue once job k has been popped from it.
Taken(k) == queued \ {k}

-----------------------------------------------------------------------------
\* Who has come so far.  The bounds are on this: the instances for TLC say
\* which clients, workers and jobs come together.
Came == {v[2] : v \in vended} \cup requested

NoCounts == [s \in JobState |-> 0]

Init ==
  /\ clients = {} /\ jobs = {} /\ workers = {} /\ queued = {}
  /\ counts = [c \in Client |-> NoCounts]
  /\ pending = [w \in Worker |-> {}]
  /\ vended = {} /\ requested = {} /\ acquiring = {} /\ announced = {}
  /\ atWorker = [w \in Worker |-> {}]
  /\ cancelled = [w \in Worker |-> {}]
  /\ status = [j \in Job |-> "none"]
  /\ responses = [j \in Job |-> 0]

\* receive_client_connected
ClientConnected(c) ==
  /\ <<"client", c>> \notin vended /\ Came \cup {c} \in Arrivals
  /\ vended' = vended \cup {<<"client", c>>}
  /\ clients' = clients \cup {c}
  /\ counts' = [counts EXCEPT ![c] = NoCounts]
  /\ UNCHANGED <<jobs, workers, pending, queued, requested, acquiring,
                 announced, atWorker, cancelled, clientVars>>

\* receive_client_disconnected.  The gatherer forgets the client's jobs; what
\* it announced before stays in the channel.
ClientDisconnected(c) ==
  /\ c \in clients
  /\ clients' = clients \ {c}
  /\ jobs' = jobs \ JobsOf(c)
  /\ acquiring' = acquiring \ JobsOf(c)
  /\ cancelled' = Cancelled(c)
  /\ PossiblyStartJobs(workers, [w \in Worker |-> pending[w] \ JobsOf(c)],
                       queued \ JobsOf(c), [counts EXCEPT ![c] = NoCounts],
                       atWorker, {})
  /\ UNCHANGED <<workers, vended, requested, announced, responses>>

\* receive_job_request_from_client, when ArtifactGatherer::start_job answers
\* StartJob::Ready
JobRequestReady(j) ==
  /\ Owner[j] \in clients /\ j \notin requested /\ Came \cup {j} \in Arrivals
  /\ requested' = requested \cup {j}
  /\ jobs' = jobs \cup {j}
  /\ PossiblyStartJobs(workers, pending, queued \cup {j},
                       [counts EXCEPT ![Owner[j]]["Pending"] = @ + 1],
                       atWorker, {j})
  /\ UNCHANGED <<clients, workers, vended, acquiring, announced, cancelled,
                 responses>>

\* receive_job_request_from_client, when it answers StartJob::NotReady
JobRequestNotReady(j) ==
  /\ Owner[j] \in clients /\ j \notin requested /\ Came \cup {j} \in Detailed
  /\ requested' = requested \cup {j}
  /\ jobs' = jobs \cup {j}
  /\ acquiring' = acquiring \cup {j}
  /\ counts' = [counts EXCEPT ![Owner[j]]["WaitingForArtifacts"] = @ + 1]
  /\ status' = [status EXCEPT ![j] = "WaitingForLayers"]
  /\ UNCHANGED <<clients, workers, pending, queued, vended, announced,
                 atWorker, cancelled, responses>>

\* The gatherer has all of J's artifacts, or cannot get one that all of J
\* need: it sends the scheduler task a message.
GathererAnnounces(kind, J) ==
  /\ J # {} /\ J \subseteq acquiring
  /\ acquiring' = acquiring \ J
  /\ announced' = announced \cup {[kind |-> kind, jobs |-> J]}
  /\ UNCHANGED <<schedVars, clientVars, vended, requested, atWorker,
                 cancelled>>

\* receive_jobs_ready_from_artifact_gatherer
JobsReady(m) ==
  LET live == LiveJobs(m) IN
  /\ m.kind = "ready"
  /\ announced' = announced \ {m}
  /\ PossiblyStartJobs(workers, pending, queued \cup live,
                       Moved(counts, live, "WaitingForArtifacts", "Pending"),
                       atWorker, live)
  /\ UNCHANGED <<clients, jobs, workers, vended, requested, acquiring,
                 cancelled, responses>>

\* receive_jobs_failed_from_artifact_gatherer
JobsFailed(m) ==
  LET live == LiveJobs(m) IN
  /\ m.kind = "failed"
  /\ announced' = announced \ {m}
  /\ Respond(live)
  /\ counts' = Moved(counts, live, "WaitingForArtifacts", "Complete")
  /\ UNCHANGED <<clients, workers, pending, queued, vended, requested,
                 acquiring, atWorker, cancelled, status>>

\* receive_worker_connected
WorkerConnected(w) ==
  /\ <<"worker", w>> \notin vended /\ Came \cup {w} \in Arrivals
  /\ vended' = vended \cup {<<"worker", w>>}
  /\ workers' = workers \cup {w}
  /\ PossiblyStartJobs(workers \cup {w}, pending, queued, counts, atWorker, {})
  /\ UNCHANGED <<clients, jobs, requested, acquiring, announced, cancelled,
                 responses>>

\* receive_worker_disconnected: its jobs go back to the queue, and to the
\* other workers.
WorkerDisconnected(w) ==
  LET lost == Requeued(w) IN
  /\ w \in workers
  /\ workers' = workers \ {w}
  /\ cancelled' = [cancelled EXCEPT ![w] = {}]
  /\ PossiblyStartJobs(workers \ {w}, [pending EXCEPT ![w] = {}],
                       queued \cup lost,
                       Moved(counts, lost, "Running", "Pending"),
                       [atWorker EXCEPT ![w] = {}], lost)
  /\ UNCHANGED <<clients, jobs, vended, requested, acquiring, announced,
                 responses>>

\* receive_job_response_from_worker for a job that is not pending there: its
\* client has gone.
StaleJobResponse(w, j) ==
  /\ w \in workers /\ j \in atWorker[w] \ pending[w]
  /\ atWorker' = [atWorker EXCEPT ![w] = @ \ {j}]
  /\ cancelled' = [cancelled EXCEPT ![w] = @ \ {j}]
  /\ UNCHANGED <<schedVars, clientVars, vended, requested, acquiring,
                 announced>>

\* receive_job_response_from_worker for a pending job.  One queued job, if
\* there is any, takes its place at the same worker.
JobResponse(w, j) ==
  LET done == Moved(counts, {j}, "Running", "Complete") IN
  /\ w \in workers /\ j \in atWorker[w] \cap pending[w]
  /\ Respond({j})
  /\ cancelled' = [cancelled EXCEPT ![w] = @ \ {j}]
  /\ \/ \E k \in NextQueued :
          /\ queued' = Taken(k)
          /\ pending' = [pending EXCEPT ![w] = (@ \ {j}) \cup {k}]
          /\ atWorker' = [atWorker EXCEPT ![w] = (@ \ {j}) \cup {k}]
          /\ counts' = Moved(done, {k}, "Pending", "Running")
     \/ /\ queued = {}
        /\ pending' = [pending EXCEPT ![w] = @ \ {j}]
        /\ atWorker' = [atWorker EXCEPT ![w] = @ \ {j}]
        /\ counts' = done
        /\ UNCHANGED queued
  /\ UNCHANGED <<clients, workers, vended, requested, acquiring, announced,
                 status>>

\* receive_job_status_update_from_worker; one for a job that is not pending
\* there is ignored.
JobStatusUpdate(w, j) ==
  /\ w \in workers /\ j \in atWorker[w] \cap pending[w] /\ Came \in Detailed
  /\ status' = [status EXCEPT ![j] = "AtWorker"]
  /\ UNCHANGED <<schedVars, envVars, responses>>

Next ==
  \/ \E c \in Client : ClientConnected(c) \/ ClientDisconnected(c)
  \/ \E j \in Job : JobRequestReady(j) \/ JobRequestNotReady(j)
  \/ \E kind \in {"ready", "failed"}, J \in SUBSET acquiring :
       GathererAnnounces(kind, J)
  \/ \E m \in announced : JobsReady(m) \/ JobsFailed(m)
  \/ \E w \in Worker : WorkerConnected(w) \/ WorkerDisconnected(w)
  \/ \E w \in Worker, j \in Job :
       \/ JobResponse(w, j) \/ StaleJobResponse(w, j)
       \/ JobStatusUpdate(w, j)

Spec == Init /\ [][Next]_vars

(***************************************************************************)
(* The scheduler task takes every message out of its channel, a gatherer   *)
(* that is never left waiting for a client announces every job, and a      *)
(* worker answers every job it keeps.  Nothing makes a client send a       *)
(* request or anybody connect or disconnect.                               *)
(***************************************************************************)
Fairness ==
  /\ WF_vars(\E m \in announced : JobsReady(m) \/ JobsFailed(m))
  /\ \A j \in Job :
       WF_vars(\E kind \in {"ready", "failed"}, J \in SUBSET acquiring :
                 j \in J /\ GathererAnnounces(kind, J))
  /\ \A w \in Worker, j \in Job : WF_vars(JobResponse(w, j))

FairSpec == Spec /\ Fairness

-----------------------------------------------------------------------------
\* The counts are unsigned.
TypeOK ==
  /\ clients \subseteq Client
  /\ jobs \subseteq Job
  /\ counts \in [Client -> [JobState -> Nat]]
  /\ workers \subseteq Worker
  /\ pending \in [Worker -> SUBSET Job]
  /\ queued \subseteq Job
  /\ vended \subseteq ({"client"} \X Client) \cup ({"worker"} \X Worker)
  /\ requested \subseteq Job
  /\ acquiring \subseteq Job
  /\ announced \subseteq Announcement
  /\ atWorker \in [Worker -> SUBSET Job]
  /\ cancelled \in [Worker -> SUBSET Job]
  /\ status \in [Job -> Status]
  /\ responses \in [Job -> Nat]

AnnouncedJobs == UNION {m.jobs : m \in announced}

\* The jobs that wait for an announcement, or whose announcement waits.
Waiting == acquiring \cup AnnouncedJobs

PendingJobs == UNION {pending[w] : w \in Worker}

\* A job is at one place at most: two announcements of it, an announcement
\* of a queued or pending job, a queued job that is also pending, or a job
\* pending at two workers would run it twice or lose count of it.  Across a
\* disconnection of its worker the requeued job is pending nowhere else.
JobInOnePlace ==
  /\ Waiting \cap (queued \cup PendingJobs) = {}
  /\ acquiring \cap AnnouncedJobs = {}
  /\ \A m1, m2 \in announced : m1 # m2 => m1.jobs \cap m2.jobs = {}
  /\ queued \cap PendingJobs = {}
  /\ \A w1, w2 \in Worker : w1 # w2 => pending[w1] \cap pending[w2] = {}

\* A job of a connected client that has not been answered is somewhere: none
\* falls between the gatherer, the queue and the workers.
NoJobLost == jobs \subseteq Waiting \cup queued \cup PendingJobs

\* The unwraps and asserts of start_job, possibly_start_jobs, jobs_ready,
\* jobs_failed, worker_disconnected and job_response hold: whatever is
\* queued, pending or announced for a connected client is in its jobs map.
NoDanglingJob ==
  /\ queued \cup PendingJobs \cup acquiring \subseteq jobs
  /\ \A j \in Waiting : Owner[j] \in clients => j \in jobs
  /\ \A j \in jobs : Owner[j] \in clients
  /\ \A w \in Worker : pending[w] # {} => w \in workers

\* The counts a monitor is shown are the jobs there are, so the unsigned
\* subtractions of start_job and of the handlers never underflow.
CountsMatch ==
  \A c \in clients :
    /\ counts[c]["WaitingForArtifacts"] = Cardinality(Waiting \cap JobsOf(c))
    /\ counts[c]["Pending"] = Cardinality(queued \cap JobsOf(c))
    /\ counts[c]["Running"] = Cardinality(PendingJobs \cap JobsOf(c))
    /\ counts[c]["Complete"]
         = Cardinality({j \in requested \cap JobsOf(c) : j \notin jobs})

\* No worker has more than twice as many jobs as slots, and while jobs wait in
\* the queue every worker has as many: a response may start one job at its own
\* worker without a look at the others, and nobody idles or is overloaded
\* whichever workers and clients come and go.
WorkConserving ==
  \A w \in workers :
    /\ Cardinality(pending[w]) <= 2 * Slots[w]
    /\ queued # {} => Cardinality(pending[w]) = 2 * Slots[w]

\* What the worker has been told is what the broker believes: the jobs it
\* was sent, has not answered and was not told to cancel are the pending
\* ones.  A job the broker gives up on is cancelled at its worker.
WorkerAgrees ==
  \A w \in workers : atWorker[w] \ cancelled[w] = pending[w]

Abandoned == {j \in requested : Owner[j] \notin clients}

Service == INSTANCE JobService WITH
  open <- jobs, answers <- responses, abandoned <- Abandoned, told <- status

\* The scheduler serves its clients as JobService says: a job leaves its
\* client's map with an answer, or with its client and then without one, and
\* updates are sent of jobs in the maps only.
ServesJobs == Service!Spec

\* As long as there are workers, every job of a client that stays is answered.
EveryJobAnswered ==
  \A j \in Job : j \in jobs ~> (j \notin jobs \/ workers = {})
=============================================================================
