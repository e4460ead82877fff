--------------------------- MODULE SchedulerProofs ---------------------------
(***************************************************************************)
(* Proofs about Scheduler, for any clients, jobs, workers and slots.       *)
(***************************************************************************)
EXTENDS Scheduler, FiniteSetTheorems, TLAPS

\* Moving jobs from one state to another keeps the counts integers.
LEMMA MovedType ==
  ASSUME NEW cs \in [Client -> [JobState -> Int]], NEW J \in SUBSET Job,
         NEW from \in JobState, NEW to \in JobState
  PROVE  Moved(cs, J, from, to) \in [Client -> [JobState -> Int]]
<1>1. \A c \in Client : Cardinality(J \cap JobsOf(c)) \in Int
  BY JobAssumption, FS_Subset, FS_CardinalityType DEF JobsOf
<1>2. ASSUME NEW c \in Client, NEW n \in Int
      PROVE  [cs[c] EXCEPT ![from] = @ - n, ![to] = @ + n] \in [JobState -> Int]
  <2>1. [cs[c] EXCEPT ![from] = @ - n] \in [JobState -> Int]
    OBVIOUS
  <2>2. QED
    BY <2>1
<1>3. QED
  BY <1>1, <1>2 DEF Moved

(***************************************************************************)
(* What possibly_start_jobs does, without its choice of jobs and places:   *)
(* the jobs it starts were queued, and each goes to one worker of W.       *)
(***************************************************************************)
LEMMA PlacementFacts ==
  ASSUME NEW W, NEW p, NEW q, NEW f \in Placements(W, p, q)
  PROVE  /\ DOMAIN f \subseteq q
         /\ \A j \in DOMAIN f : \E w \in W : j \in StartedAt(f, w)
         /\ \A w : StartedAt(f, w) \subseteq DOMAIN f
         /\ \A w1, w2 : w1 # w2 => StartedAt(f, w1) \cap StartedAt(f, w2) = {}
         /\ \A w : w \notin W => StartedAt(f, w) = {}
<1>1. /\ DOMAIN f \subseteq q
      /\ f \in [DOMAIN f -> FreeUnits(W, p)]
  BY DEF Placements
<1>2. \A j \in DOMAIN f : f[j][1] \in W
  <2>1. \A u \in FreeUnits(W, p) : u[1] \in W
    BY DEF FreeUnits
  <2>2. QED
    BY <1>1, <2>1
<1>3. QED
  BY <1>1, <1>2 DEF StartedAt

(***************************************************************************)
(* The invariants about where jobs are support one another.  With them go  *)
(* that a client gets at most one response to a job, which then is nowhere *)
(* any more, and three facts about the past: what is anywhere was          *)
(* requested by a client that had connected, a worker that has not         *)
(* connected or has gone has been sent nothing, and only jobs of clients   *)
(* that have gone were cancelled.                                          *)
(***************************************************************************)
OneResponse ==
  \A j \in Job : /\ responses[j] <= 1
                 /\ responses[j] = 1 => j \notin jobs \cup queued \cup PendingJobs

Past ==
  /\ jobs \cup Waiting \cup queued \cup PendingJobs \subseteq requested
  /\ \A j \in requested : <<"client", Owner[j]>> \in vended
  /\ \A c \in clients : <<"client", c>> \in vended
  /\ \A w \in Worker \ workers : atWorker[w] = {} /\ cancelled[w] = {}
  /\ \A w \in Worker : \A j \in cancelled[w] :
       j \in requested /\ Owner[j] \notin clients
  /\ \A j \in Job : j \in jobs \/ j \notin requested => responses[j] = 0

\* TypeOK, with the counts integers only: that they are never negative follows
\* once they are known to be exact, at the end of this module.
Typed ==
  /\ clients \subseteq Client
  /\ jobs \subseteq Job
  /\ counts \in [Client -> [JobState -> Int]]
  /\ workers \subseteq Worker
  /\ pending \in [Worker -> SUBSET Job]
  /\ queued \subseteq Job
  /\ vended \subseteq ({"client"} \X Client) \cup ({"worker"} \X Worker)
  /\ requested \subseteq Job
  /\ acquiring \subseteq Job
  /\ announced \subseteq Announcement
  /\ atWorker \in [Worker -> SUBSET Job]
  /\ cancelled \in [Worker -> SUBSET Job]
  /\ status \in [Job -> Status]
  /\ responses \in [Job -> Nat]

IInv == Typed /\ JobInOnePlace /\ NoJobLost /\ NoDanglingJob /\ WorkerAgrees
        /\ OneResponse /\ Past

\* Nothing is connected, queued or announced at the start.
LEMMA InitIInv == Init => IInv
<1> SUFFICES ASSUME Init PROVE IInv
  OBVIOUS
<1> USE DEF Init
<1>1. AnnouncedJobs = {} /\ Waiting = {} /\ PendingJobs = {}
  BY DEF AnnouncedJobs, Waiting, PendingJobs
<1>2. Typed
  BY DEF Typed, NoCounts, Announcement, Status, JobState
<1>3. QED
  BY <1>1, <1>2 DEF IInv, JobInOnePlace, NoJobLost, NoDanglingJob,
     WorkerAgrees, OneResponse, Past

(***************************************************************************)
(* Every action preserves the invariant.  First those that start no job.   *)
(***************************************************************************)
LEMMA ClientConnectedIInv ==
  ASSUME IInv, NEW c \in Client, ClientConnected(c) PROVE IInv'
<1> USE DEF ClientConnected, clientVars
<1>1. /\ AnnouncedJobs' = AnnouncedJobs
      /\ Waiting' = Waiting
      /\ PendingJobs' = PendingJobs
  BY DEF AnnouncedJobs, Waiting, PendingJobs
<1>2. Typed'
  BY DEF IInv, Typed, NoCounts, JobState
<1>3. \A j \in requested : Owner[j] # c
  BY DEF IInv, Past
<1>4. NoDanglingJob'
  BY <1>1, <1>3 DEF IInv, NoDanglingJob, Past
<1>5. Past'
  BY <1>1, <1>3 DEF IInv, Past
<1>6. QED
  BY <1>1, <1>2, <1>4, <1>5
     DEF IInv, JobInOnePlace, NoJobLost, WorkerAgrees, OneResponse

\* A request whose artifacts are missing: one more job in `acquiring' only.
LEMMA JobRequestNotReadyIInv ==
  ASSUME IInv, NEW j \in Job, JobRequestNotReady(j) PROVE IInv'
<1> USE DEF JobRequestNotReady
<1>1. /\ AnnouncedJobs' = AnnouncedJobs
      /\ Waiting' = Waiting \cup {j}
      /\ PendingJobs' = PendingJobs
  BY DEF AnnouncedJobs, Waiting, PendingJobs
<1>2. Typed'
  BY OwnerAssumption DEF IInv, Typed, JobState, Status
<1>3. j \notin jobs \cup Waiting \cup queued \cup PendingJobs
  BY DEF IInv, Past
<1>4. JobInOnePlace'
  BY <1>1, <1>3 DEF IInv, JobInOnePlace, Waiting
<1>5. OneResponse' /\ Past'
  BY <1>1, <1>3 DEF IInv, OneResponse, Past, Typed
<1>6. QED
  BY <1>1, <1>2, <1>4, <1>5
     DEF IInv, NoJobLost, NoDanglingJob, WorkerAgrees

\* Jobs go from `acquiring' to a message that shares none with the others.
LEMMA GathererAnnouncesIInv ==
  ASSUME IInv, NEW kind \in {"ready", "failed"}, NEW J \in SUBSET acquiring,
         GathererAnnounces(kind, J)
  PROVE  IInv'
<1> DEFINE m == [kind |-> kind, jobs |-> J]
<1> USE DEF GathererAnnounces, schedVars, clientVars
<1>1. /\ AnnouncedJobs' = AnnouncedJobs \cup J
      /\ Waiting' = Waiting
      /\ PendingJobs' = PendingJobs
  <2>1. announced' = announced \cup {m} /\ m.jobs = J
    OBVIOUS
  <2>2. AnnouncedJobs' = AnnouncedJobs \cup J
    BY <2>1 DEF AnnouncedJobs
  <2>3. QED
    BY <2>2 DEF Waiting, PendingJobs
<1>2. Typed'
  <2>1. m \in Announcement
    BY DEF Announcement, IInv, Typed
  <2>2. QED
    BY <2>1 DEF IInv, Typed
<1>3. JobInOnePlace'
  <2>1. \A n \in announced : n.jobs \cap J = {}
    BY DEF IInv, JobInOnePlace, AnnouncedJobs
  <2>2. \A n1, n2 \in announced' : n1 # n2 => n1.jobs \cap n2.jobs = {}
    BY <2>1 DEF IInv, JobInOnePlace
  <2>3. QED
    BY <1>1, <2>2 DEF IInv, JobInOnePlace
<1>4. QED
  BY <1>1, <1>2, <1>3
     DEF IInv, NoJobLost, NoDanglingJob, WorkerAgrees, OneResponse, Past

\* An answer from a worker that was told to cancel the job changes no map.
LEMMA StaleJobResponseIInv ==
  ASSUME IInv, NEW w \in Worker, NEW j \in Job, StaleJobResponse(w, j)
  PROVE  IInv'
<1> USE DEF StaleJobResponse, schedVars, clientVars
<1>1. /\ AnnouncedJobs' = AnnouncedJobs
      /\ Waiting' = Waiting
      /\ PendingJobs' = PendingJobs
  BY DEF AnnouncedJobs, Waiting, PendingJobs
<1>2. Typed'
  BY DEF IInv, Typed
<1>3. WorkerAgrees'
  BY DEF IInv, WorkerAgrees, Typed
<1>4. Past'
  BY <1>1 DEF IInv, Past, Typed
<1>5. QED
  BY <1>1, <1>2, <1>3, <1>4
     DEF IInv, JobInOnePlace, NoJobLost, NoDanglingJob, OneResponse

\* A status update changes nothing but what the client was last told.
LEMMA JobStatusUpdateIInv ==
  ASSUME IInv, NEW w \in Worker, NEW j \in Job, JobStatusUpdate(w, j)
  PROVE  IInv'
<1> USE DEF JobStatusUpdate, schedVars, envVars
<1>1. /\ AnnouncedJobs' = AnnouncedJobs
      /\ Waiting' = Waiting
      /\ PendingJobs' = PendingJobs
  BY DEF AnnouncedJobs, Waiting, PendingJobs
<1>2. Typed'
  BY DEF IInv, Typed, Status
<1>3. QED
  BY <1>1, <1>2 DEF IInv, JobInOnePlace, NoJobLost, NoDanglingJob,
     WorkerAgrees, OneResponse, Past

\* A message that is taken out of the channel carries jobs that no other
\* message does, and that are nowhere else.
LEMMA TakeMessage ==
  ASSUME IInv, NEW m \in announced, announced' = announced \ {m},
         acquiring' = acquiring
  PROVE  /\ AnnouncedJobs' = AnnouncedJobs \ m.jobs
         /\ Waiting' = Waiting \ m.jobs
         /\ m.jobs \subseteq Waiting
         /\ m.jobs \subseteq Job
         /\ m.jobs \cap (queued \cup PendingJobs) = {}
         /\ LiveJobs(m) \subseteq m.jobs
         /\ LiveJobs(m) \subseteq jobs
         /\ m.jobs \cap jobs \subseteq LiveJobs(m)
<1>1. \A n \in announced \ {m} : n.jobs \cap m.jobs = {}
  BY DEF IInv, JobInOnePlace
<1>2. AnnouncedJobs' = AnnouncedJobs \ m.jobs
  BY <1>1 DEF AnnouncedJobs
<1>3. m.jobs \subseteq AnnouncedJobs
  BY DEF AnnouncedJobs
<1>4. Waiting' = Waiting \ m.jobs /\ m.jobs \subseteq Waiting
  BY <1>2, <1>3 DEF Waiting, IInv, JobInOnePlace
<1>5. m.jobs \subseteq Job
  BY DEF IInv, Typed, Announcement
<1>6. QED
  BY <1>2, <1>4, <1>5 DEF IInv, JobInOnePlace, NoDanglingJob, LiveJobs

\* The announced jobs of connected clients are answered and leave the maps.
LEMMA JobsFailedIInv ==
  ASSUME IInv, NEW m \in announced, JobsFailed(m) PROVE IInv'
<1> USE DEF JobsFailed
<1> DEFINE live == LiveJobs(m)
<1>1. /\ AnnouncedJobs' = AnnouncedJobs \ m.jobs
      /\ Waiting' = Waiting \ m.jobs
      /\ m.jobs \subseteq Waiting
      /\ m.jobs \cap (queued \cup PendingJobs) = {}
      /\ live \subseteq m.jobs /\ live \subseteq Job /\ live \subseteq jobs
      /\ m.jobs \cap jobs \subseteq live
      /\ PendingJobs' = PendingJobs
  BY TakeMessage DEF PendingJobs
<1>2. /\ jobs' = jobs \ live
      /\ \A j \in Job : responses'[j] = IF j \in live THEN responses[j] + 1
                                        ELSE responses[j]
      /\ responses' \in [Job -> Nat]
  BY DEF Respond, IInv, Typed
<1>3. Typed'
  BY <1>1, <1>2, MovedType DEF IInv, Typed, JobState
<1>4. JobInOnePlace'
  BY <1>1 DEF IInv, JobInOnePlace
<1>5. NoJobLost' /\ NoDanglingJob'
  BY <1>1, <1>2 DEF IInv, NoJobLost, NoDanglingJob, Waiting
<1>6. OneResponse' /\ Past'
  BY <1>1, <1>2 DEF IInv, OneResponse, Past, Typed
<1>7. QED
  BY <1>3, <1>4, <1>5, <1>6 DEF IInv, WorkerAgrees

(***************************************************************************)
(* Then those that call possibly_start_jobs.                               *)
(***************************************************************************)
LEMMA JobRequestReadyIInv ==
  ASSUME IInv, NEW j \in Job, JobRequestReady(j) PROVE IInv'
<1> USE DEF JobRequestReady
<1> DEFINE cs == [counts EXCEPT ![Owner[j]]["Pending"] = @ + 1]
           q == queued \cup {j}
<1>1. j \notin jobs \cup Waiting \cup queued \cup PendingJobs
  BY DEF IInv, Past
<1>2. /\ AnnouncedJobs' = AnnouncedJobs
      /\ Waiting' = Waiting
  BY DEF AnnouncedJobs, Waiting
<1>3. cs \in [Client -> [JobState -> Int]]
  BY OwnerAssumption DEF IInv, Typed, JobState
<1>4. /\ workers \in SUBSET Worker
      /\ pending \in [Worker -> SUBSET Job] /\ atWorker \in [Worker -> SUBSET Job]
      /\ q \in SUBSET Job /\ status \in [Job -> Status] /\ {j} \in SUBSET Job
      /\ \A w \in Worker : q \cap pending[w] = {}
      /\ \A w1, w2 \in Worker : w1 # w2 => pending[w1] \cap pending[w2] = {}
  BY <1>1 DEF IInv, Typed, JobInOnePlace, PendingJobs
<1>5. PICK f \in Placements(workers, pending, q) :
        /\ pending' = [w \in Worker |-> pending[w] \cup StartedAt(f, w)]
        /\ atWorker' = [w \in Worker |-> atWorker[w] \cup StartedAt(f, w)]
        /\ queued' = q \ DOMAIN f
        /\ counts' = Moved(cs, DOMAIN f, "Pending", "Running")
        /\ status' = Reported({j} \ DOMAIN f)
  BY DEF PossiblyStartJobs
<1>6. /\ DOMAIN f \subseteq q
      /\ \A i \in DOMAIN f : \E w \in workers : i \in StartedAt(f, w)
      /\ \A w : StartedAt(f, w) \subseteq DOMAIN f
      /\ \A w1, w2 : w1 # w2 => StartedAt(f, w1) \cap StartedAt(f, w2) = {}
      /\ \A w : w \notin workers => StartedAt(f, w) = {}
  BY PlacementFacts
<1> HIDE DEF cs, q
<1>7. PendingJobs' = PendingJobs \cup DOMAIN f
  BY <1>4, <1>5, <1>6 DEF PendingJobs
<1>8. Typed'
  <2>1. counts' \in [Client -> [JobState -> Int]]
    BY <1>3, <1>4, <1>5, <1>6, MovedType DEF JobState
  <2>2. status' \in [Job -> Status]
    BY <1>4, <1>5 DEF Status, Reported
  <2>3. QED
    BY <1>4, <1>5, <1>6, <2>1, <2>2 DEF IInv, Typed
<1>9. JobInOnePlace'
  BY <1>1, <1>2, <1>5, <1>6, <1>7 DEF IInv, JobInOnePlace, Typed, PendingJobs, q
<1>10. NoJobLost' /\ NoDanglingJob'
  BY <1>1, <1>2, <1>4, <1>5, <1>6, <1>7
     DEF IInv, NoJobLost, NoDanglingJob, Waiting, Typed, q
<1>11. WorkerAgrees'
  BY <1>1, <1>4, <1>5, <1>6, <1>7 DEF IInv, WorkerAgrees, Typed, Past, NoDanglingJob, q
<1>12. OneResponse' /\ Past'
  BY <1>1, <1>2, <1>4, <1>5, <1>6, <1>7 DEF IInv, OneResponse, Past, Typed, NoDanglingJob, q
<1>13. QED
  BY <1>8, <1>9, <1>10, <1>11, <1>12 DEF IInv

\* The announced jobs of connected clients are queued, then placed.
LEMMA JobsReadyIInv ==
  ASSUME IInv, NEW m \in announced, JobsReady(m) PROVE IInv'
<1> USE DEF JobsReady
<1> DEFINE live == LiveJobs(m)
           p == pending
           q == queued \cup live
           cs == Moved(counts, live, "WaitingForArtifacts", "Pending")
<1>1. /\ AnnouncedJobs' = AnnouncedJobs \ m.jobs
      /\ Waiting' = Waiting \ m.jobs
      /\ m.jobs \subseteq Waiting
      /\ m.jobs \cap (queued \cup PendingJobs) = {}
      /\ live \subseteq m.jobs /\ live \subseteq Job /\ live \subseteq jobs
      /\ m.jobs \cap jobs \subseteq live
  BY TakeMessage
<1>2. \A j \in live : Owner[j] \in clients
  BY DEF LiveJobs
<1>3. cs \in [Client -> [JobState -> Int]]
  BY <1>1, MovedType DEF IInv, Typed, JobState
<1>4. /\ pending \in [Worker -> SUBSET Job] /\ atWorker \in [Worker -> SUBSET Job]
      /\ q \in SUBSET Job /\ status \in [Job -> Status]
      /\ workers \subseteq Worker
  BY <1>1 DEF IInv, Typed
<1>5. PICK f \in Placements(workers, p, q) :
        /\ pending' = [x \in Worker |-> p[x] \cup StartedAt(f, x)]
        /\ atWorker' = [x \in Worker |-> atWorker[x] \cup StartedAt(f, x)]
        /\ queued' = q \ DOMAIN f
        /\ counts' = Moved(cs, DOMAIN f, "Pending", "Running")
        /\ status' = Reported(live \ DOMAIN f)
  BY DEF PossiblyStartJobs
<1>6. /\ DOMAIN f \subseteq q
      /\ \A i \in DOMAIN f : \E x \in workers : i \in StartedAt(f, x)
      /\ \A x : StartedAt(f, x) \subseteq DOMAIN f
      /\ \A x, y : x # y => StartedAt(f, x) \cap StartedAt(f, y) = {}
      /\ \A x : x \notin workers => StartedAt(f, x) = {}
  BY PlacementFacts
<1> HIDE DEF cs, q, live
<1>7. PendingJobs' = PendingJobs \cup DOMAIN f
  BY <1>4, <1>5, <1>6 DEF PendingJobs
<1>8. Typed'
  <2>1. counts' \in [Client -> [JobState -> Int]]
    BY <1>3, <1>4, <1>5, <1>6, MovedType DEF JobState
  <2>2. status' \in [Job -> Status]
    BY <1>4, <1>5 DEF Status, Reported
  <2>3. QED
    BY <1>1, <1>4, <1>5, <1>6, <2>1, <2>2 DEF IInv, Typed
<1>9. JobInOnePlace'
  BY <1>1, <1>5, <1>6, <1>7 DEF IInv, JobInOnePlace, Typed, PendingJobs, q
<1>10. NoJobLost' /\ NoDanglingJob'
  BY <1>1, <1>2, <1>4, <1>5, <1>6, <1>7
     DEF IInv, NoJobLost, NoDanglingJob, Waiting, Typed, q
<1>11. WorkerAgrees'
  BY <1>1, <1>2, <1>4, <1>5, <1>6, <1>7
     DEF IInv, WorkerAgrees, Typed, Past, NoDanglingJob, q
<1>12. OneResponse' /\ Past'
  BY <1>1, <1>4, <1>5, <1>6, <1>7
     DEF IInv, OneResponse, Past, Typed, NoDanglingJob, q
<1>13. QED
  BY <1>8, <1>9, <1>10, <1>11, <1>12 DEF IInv

\* A new worker has no pending jobs; queued ones are placed at it.
LEMMA WorkerConnectedIInv ==
  ASSUME IInv, NEW w \in Worker, WorkerConnected(w) PROVE IInv'
<1> USE DEF WorkerConnected
<1> DEFINE W == workers \cup {w}
           p == pending
           q == queued
           cs == counts
<1>1. AnnouncedJobs' = AnnouncedJobs /\ Waiting' = Waiting
  BY DEF AnnouncedJobs, Waiting
<1>3. cs \in [Client -> [JobState -> Int]]
  BY DEF IInv, Typed
<1>4. /\ pending \in [Worker -> SUBSET Job] /\ atWorker \in [Worker -> SUBSET Job]
      /\ q \in SUBSET Job /\ status \in [Job -> Status]
      /\ W \subseteq Worker
  BY DEF IInv, Typed
<1>5. PICK f \in Placements(W, p, q) :
        /\ pending' = [x \in Worker |-> p[x] \cup StartedAt(f, x)]
        /\ atWorker' = [x \in Worker |-> atWorker[x] \cup StartedAt(f, x)]
        /\ queued' = q \ DOMAIN f
        /\ counts' = Moved(cs, DOMAIN f, "Pending", "Running")
        /\ status' = Reported({} \ DOMAIN f)
  BY DEF PossiblyStartJobs
<1>6. /\ DOMAIN f \subseteq q
      /\ \A i \in DOMAIN f : \E x \in W : i \in StartedAt(f, x)
      /\ \A x : StartedAt(f, x) \subseteq DOMAIN f
      /\ \A x, y : x # y => StartedAt(f, x) \cap StartedAt(f, y) = {}
      /\ \A x : x \notin W => StartedAt(f, x) = {}
  BY PlacementFacts
<1>7. PendingJobs' = PendingJobs \cup DOMAIN f
  BY <1>4, <1>5, <1>6 DEF PendingJobs
<1>8. Typed'
  <2>1. counts' \in [Client -> [JobState -> Int]]
    BY <1>3, <1>4, <1>5, <1>6, MovedType DEF JobState
  <2>2. status' \in [Job -> Status]
    BY <1>4, <1>5 DEF Status, Reported
  <2>3. QED
    BY <1>1, <1>4, <1>5, <1>6, <2>1, <2>2 DEF IInv, Typed
<1>9. JobInOnePlace'
  BY <1>1, <1>5, <1>6, <1>7 DEF IInv, JobInOnePlace, Typed, PendingJobs
<1>10. NoJobLost' /\ NoDanglingJob'
  BY <1>1, <1>4, <1>5, <1>6, <1>7
     DEF IInv, NoJobLost, NoDanglingJob, Waiting, Typed
<1>11. WorkerAgrees'
  BY <1>1, <1>4, <1>5, <1>6, <1>7
     DEF IInv, WorkerAgrees, Typed, Past, NoDanglingJob
<1>12. OneResponse' /\ Past'
  BY <1>1, <1>4, <1>5, <1>6, <1>7
     DEF IInv, OneResponse, Past, Typed, NoDanglingJob
<1>13. QED
  BY <1>8, <1>9, <1>10, <1>11, <1>12 DEF IInv

\* The jobs of a worker that leaves are queued again, then placed elsewhere.
LEMMA WorkerDisconnectedIInv ==
  ASSUME IInv, NEW w \in Worker, WorkerDisconnected(w) PROVE IInv'
<1> USE DEF WorkerDisconnected
<1> DEFINE W == workers \ {w}
           lost == Requeued(w)
           p == [pending EXCEPT ![w] = {}]
           q == queued \cup lost
           cs == Moved(counts, lost, "Running", "Pending")
           aw == [atWorker EXCEPT ![w] = {}]
<1>1. AnnouncedJobs' = AnnouncedJobs /\ Waiting' = Waiting
  BY DEF AnnouncedJobs, Waiting
<1>2. /\ lost = pending[w] /\ lost \subseteq Job /\ lost \subseteq PendingJobs
      /\ \A x \in Worker : p[x] = IF x = w THEN {} ELSE pending[x]
      /\ \A x \in Worker : aw[x] = IF x = w THEN {} ELSE atWorker[x]
      /\ \A x \in Worker : cancelled'[x] = IF x = w THEN {} ELSE cancelled[x]
      /\ cancelled' \in [Worker -> SUBSET Job]
  BY DEF IInv, Typed, Requeued, PendingJobs
<1>3. cs \in [Client -> [JobState -> Int]]
  BY <1>2, MovedType DEF IInv, Typed, JobState
<1>4. /\ p \in [Worker -> SUBSET Job] /\ aw \in [Worker -> SUBSET Job]
      /\ q \in SUBSET Job /\ status \in [Job -> Status]
      /\ W \subseteq Worker
  BY <1>2 DEF IInv, Typed
<1>5. PICK f \in Placements(W, p, q) :
        /\ pending' = [x \in Worker |-> p[x] \cup StartedAt(f, x)]
        /\ atWorker' = [x \in Worker |-> aw[x] \cup StartedAt(f, x)]
        /\ queued' = q \ DOMAIN f
        /\ counts' = Moved(cs, DOMAIN f, "Pending", "Running")
        /\ status' = Reported(lost \ DOMAIN f)
  BY DEF PossiblyStartJobs
<1>6. /\ DOMAIN f \subseteq q
      /\ \A i \in DOMAIN f : \E x \in W : i \in StartedAt(f, x)
      /\ \A x : StartedAt(f, x) \subseteq DOMAIN f
      /\ \A x, y : x # y => StartedAt(f, x) \cap StartedAt(f, y) = {}
      /\ \A x : x \notin W => StartedAt(f, x) = {}
  BY PlacementFacts
<1> HIDE DEF cs, q, lost, p, aw
<1>7. /\ PendingJobs' = (PendingJobs \ lost) \cup DOMAIN f
      /\ \A x \in Worker : pending'[x] = p[x] \cup StartedAt(f, x)
      /\ \A x \in Worker : atWorker'[x] = aw[x] \cup StartedAt(f, x)
  <2>1. \A i : i \in PendingJobs \ lost <=> \E x \in Worker : i \in p[x]
    BY <1>2 DEF PendingJobs, IInv, JobInOnePlace
  <2>2. QED
    BY <1>4, <1>5, <1>6, <2>1 DEF PendingJobs
<1>8. Typed'
  <2>1. counts' \in [Client -> [JobState -> Int]]
    BY <1>3, <1>4, <1>5, <1>6, MovedType DEF JobState
  <2>2. status' \in [Job -> Status]
    BY <1>4, <1>5 DEF Status, Reported
  <2>3. QED
    BY <1>1, <1>4, <1>5, <1>6, <2>1, <2>2 DEF IInv, Typed
<1>9. JobInOnePlace'
  BY <1>1, <1>2, <1>5, <1>6, <1>7 DEF IInv, JobInOnePlace, PendingJobs, q
<1>10. NoJobLost' /\ NoDanglingJob'
  BY <1>1, <1>2, <1>4, <1>5, <1>6, <1>7
     DEF IInv, NoJobLost, NoDanglingJob, Waiting, Typed, q
<1>11. WorkerAgrees'
  BY <1>1, <1>2, <1>4, <1>5, <1>6, <1>7
     DEF IInv, WorkerAgrees, Typed, Past, NoDanglingJob, q
<1>12. OneResponse' /\ Past'
  BY <1>1, <1>2, <1>4, <1>5, <1>6, <1>7
     DEF IInv, OneResponse, Past, Typed, NoDanglingJob, q
<1>13. QED
  BY <1>8, <1>9, <1>10, <1>11, <1>12 DEF IInv

\* The jobs of a client that leaves are dropped everywhere but in the channel
\* and at the workers, which are told to cancel them.
LEMMA ClientDisconnectedIInv ==
  ASSUME IInv, NEW c \in Client, ClientDisconnected(c) PROVE IInv'
<1> USE DEF ClientDisconnected
<1> DEFINE W == workers
           mine == JobsOf(c)
           p == [x \in Worker |-> pending[x] \ mine]
           q == queued \ mine
           cs == [counts EXCEPT ![c] = NoCounts]
<1>1. /\ AnnouncedJobs' = AnnouncedJobs
      /\ Waiting' = (acquiring \ mine) \cup AnnouncedJobs
      /\ Waiting = acquiring \cup AnnouncedJobs
  BY DEF AnnouncedJobs, Waiting
<1>2. /\ \A j \in Job : j \in mine <=> Owner[j] = c
      /\ \A x \in Worker : cancelled'[x] = cancelled[x] \cup (pending[x] \cap mine)
      /\ cancelled' \in [Worker -> SUBSET Job]
      /\ jobs' = jobs \ mine /\ acquiring' = acquiring \ mine
  BY DEF IInv, Typed, Cancelled, JobsOf
<1>3. cs \in [Client -> [JobState -> Int]]
  BY DEF IInv, Typed, NoCounts, JobState
<1>4. /\ p \in [Worker -> SUBSET Job] /\ atWorker \in [Worker -> SUBSET Job]
      /\ q \in SUBSET Job /\ status \in [Job -> Status]
      /\ W \subseteq Worker
  BY <1>2 DEF IInv, Typed
<1>5. PICK f \in Placements(W, p, q) :
        /\ pending' = [x \in Worker |-> p[x] \cup StartedAt(f, x)]
        /\ atWorker' = [x \in Worker |-> atWorker[x] \cup StartedAt(f, x)]
        /\ queued' = q \ DOMAIN f
        /\ counts' = Moved(cs, DOMAIN f, "Pending", "Running")
        /\ status' = Reported({} \ DOMAIN f)
  BY DEF PossiblyStartJobs
<1>6. /\ DOMAIN f \subseteq q
      /\ \A i \in DOMAIN f : \E x \in W : i \in StartedAt(f, x)
      /\ \A x : StartedAt(f, x) \subseteq DOMAIN f
      /\ \A x, y : x # y => StartedAt(f, x) \cap StartedAt(f, y) = {}
      /\ \A x : x \notin W => StartedAt(f, x) = {}
  BY PlacementFacts
<1>a. /\ \A x \in Worker : p[x] = pending[x] \ mine
      /\ \A x \in Worker : x \notin workers => p[x] = {}
  BY DEF IInv, NoDanglingJob
<1> HIDE DEF cs, p, q, mine
<1>7. /\ PendingJobs' = (PendingJobs \ mine) \cup DOMAIN f
      /\ \A x \in Worker : pending'[x] = p[x] \cup StartedAt(f, x)
      /\ \A x \in Worker : atWorker'[x] = atWorker[x] \cup StartedAt(f, x)
  <2>1. \A i : i \in PendingJobs \ mine <=> \E x \in Worker : i \in p[x]
    BY <1>a DEF PendingJobs
  <2>2. QED
    BY <1>4, <1>5, <1>6, <2>1 DEF PendingJobs, q
<1>8. Typed'
  <2>1. counts' \in [Client -> [JobState -> Int]]
    BY <1>3, <1>4, <1>5, <1>6, MovedType DEF JobState
  <2>2. status' \in [Job -> Status]
    BY <1>4, <1>5 DEF Status, Reported
  <2>3. QED
    BY <1>1, <1>2, <1>4, <1>5, <1>6, <2>1, <2>2 DEF IInv, Typed
<1>9. JobInOnePlace'
  BY <1>1, <1>a, <1>5, <1>6, <1>7 DEF IInv, JobInOnePlace, PendingJobs, q
<1>10. NoJobLost' /\ NoDanglingJob'
  BY <1>1, <1>2, <1>a, <1>4, <1>5, <1>6, <1>7
     DEF IInv, NoJobLost, NoDanglingJob, Typed, q
<1>11. WorkerAgrees'
  BY <1>1, <1>2, <1>a, <1>4, <1>5, <1>6, <1>7
     DEF IInv, WorkerAgrees, Typed, Past, NoDanglingJob, q
<1>12. OneResponse'
  BY <1>1, <1>2, <1>a, <1>4, <1>5, <1>6, <1>7
     DEF IInv, OneResponse, Past, Typed, NoDanglingJob, q
<1>13. Past'
  <2>1. \A x \in Worker : \A j \in cancelled'[x] :
          j \in requested /\ Owner[j] \notin clients'
    BY <1>2 DEF IInv, Past, PendingJobs, Typed
  <2>2. jobs' \cup Waiting' \cup queued' \cup PendingJobs' \subseteq requested
    BY <1>1, <1>2, <1>5, <1>6, <1>7 DEF IInv, Past, q
  <2>3. \A x \in Worker \ workers : atWorker'[x] = {} /\ cancelled'[x] = {}
    BY <1>2, <1>6, <1>7 DEF IInv, Past, NoDanglingJob
  <2>4. QED
    BY <1>2, <2>1, <2>2, <2>3 DEF IInv, Past
<1>14. QED
  BY <1>8, <1>9, <1>10, <1>11, <1>12, <1>13 DEF IInv

\* The answered job leaves the maps; a queued one may take its place.
LEMMA JobResponseIInv ==
  ASSUME IInv, NEW w \in Worker, NEW j \in Job, JobResponse(w, j) PROVE IInv'
<1> USE DEF JobResponse
<1> DEFINE done == Moved(counts, {j}, "Running", "Complete")
<1>1. AnnouncedJobs' = AnnouncedJobs /\ Waiting' = Waiting
  BY DEF AnnouncedJobs, Waiting
<1>2. /\ jobs' = jobs \ {j}
      /\ \A i \in Job : responses'[i] = IF i = j THEN responses[i] + 1
                                        ELSE responses[i]
      /\ responses' \in [Job -> Nat]
      /\ w \in workers /\ j \in pending[w] /\ j \in atWorker[w] /\ j \in jobs
      /\ j \notin queued /\ j \in PendingJobs
      /\ \A x \in Worker : cancelled'[x] = IF x = w THEN cancelled[x] \ {j}
                                           ELSE cancelled[x]
      /\ cancelled' \in [Worker -> SUBSET Job]
  <2>1. /\ w \in workers /\ j \in pending[w] /\ j \in atWorker[w]
        /\ j \in PendingJobs
    BY DEF PendingJobs
  <2>2. j \in jobs /\ j \notin queued
    BY <2>1 DEF IInv, NoDanglingJob, JobInOnePlace
  <2>3. /\ jobs' = jobs \ {j}
        /\ responses' \in [Job -> Nat]
        /\ \A i \in Job : responses'[i] = IF i = j THEN responses[i] + 1
                                          ELSE responses[i]
    BY DEF Respond, IInv, Typed
  <2>4. /\ \A x \in Worker : cancelled'[x] = IF x = w THEN cancelled[x] \ {j}
                                             ELSE cancelled[x]
        /\ cancelled' \in [Worker -> SUBSET Job]
    BY DEF IInv, Typed
  <2>5. QED
    BY <2>1, <2>2, <2>3, <2>4
<1>3. done \in [Client -> [JobState -> Int]]
  BY MovedType DEF IInv, Typed, JobState
<1>4. PICK K \in SUBSET queued :
        /\ queued' = queued \ K
        /\ pending' = [pending EXCEPT ![w] = (@ \ {j}) \cup K]
        /\ atWorker' = [atWorker EXCEPT ![w] = (@ \ {j}) \cup K]
        /\ counts' = done \/ counts' = Moved(done, K, "Pending", "Running")
  <2>1. CASE \E k \in NextQueued :
               /\ queued' = Taken(k)
               /\ pending' = [pending EXCEPT ![w] = (@ \ {j}) \cup {k}]
               /\ atWorker' = [atWorker EXCEPT ![w] = (@ \ {j}) \cup {k}]
               /\ counts' = Moved(done, {k}, "Pending", "Running")
    BY <2>1 DEF NextQueued, Taken
  <2>2. CASE /\ queued = {}
             /\ pending' = [pending EXCEPT ![w] = @ \ {j}]
             /\ atWorker' = [atWorker EXCEPT ![w] = @ \ {j}]
             /\ counts' = done
             /\ UNCHANGED queued
    <3>1. /\ queued' = queued \ {}
          /\ pending' = [pending EXCEPT ![w] = (@ \ {j}) \cup {}]
          /\ atWorker' = [atWorker EXCEPT ![w] = (@ \ {j}) \cup {}]
      BY <2>2
    <3>2. QED
      BY <2>2, <3>1
  <2>3. QED
    BY <2>1, <2>2
<1> HIDE DEF done
<1>5. /\ \A x \in Worker : pending'[x] = IF x = w THEN (pending[x] \ {j}) \cup K
                                         ELSE pending[x]
      /\ \A x \in Worker : atWorker'[x] = IF x = w THEN (atWorker[x] \ {j}) \cup K
                                          ELSE atWorker[x]
      /\ pending' \in [Worker -> SUBSET Job]
      /\ atWorker' \in [Worker -> SUBSET Job]
  BY <1>4 DEF IInv, Typed
<1>6. PendingJobs' = (PendingJobs \ {j}) \cup K
  BY <1>2, <1>5 DEF PendingJobs, IInv, JobInOnePlace
<1>7. Typed'
  <2>1. counts' \in [Client -> [JobState -> Int]]
    BY <1>3, <1>4, MovedType DEF IInv, Typed, JobState
  <2>2. QED
    BY <1>2, <1>4, <1>5, <2>1 DEF IInv, Typed
<1>8. JobInOnePlace'
  BY <1>1, <1>2, <1>4, <1>5, <1>6 DEF IInv, JobInOnePlace, PendingJobs
<1>9. NoJobLost' /\ NoDanglingJob'
  BY <1>1, <1>2, <1>4, <1>5, <1>6
     DEF IInv, NoJobLost, NoDanglingJob, Typed, Waiting, JobInOnePlace
<1>10. WorkerAgrees'
  BY <1>2, <1>4, <1>5 DEF IInv, WorkerAgrees, Typed, Past, NoDanglingJob
<1>11. OneResponse' /\ Past'
  BY <1>1, <1>2, <1>4, <1>5, <1>6
     DEF IInv, OneResponse, Past, Typed, NoDanglingJob
<1>12. QED
  BY <1>7, <1>8, <1>9, <1>10, <1>11 DEF IInv

-----------------------------------------------------------------------------
\* IInv is inductive: the lemmas above, one for each action.
LEMMA StepIInv == IInv /\ [Next]_vars => IInv'
<1> SUFFICES ASSUME IInv, [Next]_vars PROVE IInv'
  OBVIOUS
<1>1. CASE \E c \in Client : ClientConnected(c) \/ ClientDisconnected(c)
  BY <1>1, ClientConnectedIInv, ClientDisconnectedIInv
<1>2. CASE \E j \in Job : JobRequestReady(j) \/ JobRequestNotReady(j)
  BY <1>2, JobRequestReadyIInv, JobRequestNotReadyIInv
<1>3. CASE \E kind \in {"ready", "failed"}, J \in SUBSET acquiring :
             GathererAnnounces(kind, J)
  BY <1>3, GathererAnnouncesIInv
<1>4. CASE \E m \in announced : JobsReady(m) \/ JobsFailed(m)
  BY <1>4, JobsReadyIInv, JobsFailedIInv
<1>5. CASE \E w \in Worker : WorkerConnected(w) \/ WorkerDisconnected(w)
  BY <1>5, WorkerConnectedIInv, WorkerDisconnectedIInv
<1>6. CASE \E w \in Worker, j \in Job :
             \/ JobResponse(w, j) \/ StaleJobResponse(w, j)
             \/ JobStatusUpdate(w, j)
  BY <1>6, JobResponseIInv, StaleJobResponseIInv, JobStatusUpdateIInv
<1>7. CASE UNCHANGED vars
  <2> USE <1>7 DEF vars, schedVars, envVars, clientVars
  <2>1. /\ AnnouncedJobs' = AnnouncedJobs
        /\ Waiting' = Waiting
        /\ PendingJobs' = PendingJobs
    BY DEF AnnouncedJobs, Waiting, PendingJobs
  <2>2. Typed' /\ JobInOnePlace'
    BY <2>1 DEF IInv, Typed, JobInOnePlace
  <2>3. QED
    BY <2>1, <2>2 DEF IInv, NoJobLost, NoDanglingJob, WorkerAgrees,
       OneResponse, Past
<1>8. QED
  BY <1>1, <1>2, <1>3, <1>4, <1>5, <1>6, <1>7 DEF Next

\* Every reachable state of the scheduler satisfies the inductive invariant,
\* whatever the clients, workers, jobs, priorities and slots.
THEOREM Invariance == Spec => []IInv
<1>1. QED
  BY InitIInv, StepIInv, PTL DEF Spec

\* No job is announced, queued or pending twice, however clients and workers
\* come and go.
THEOREM OnePlace == Spec => []JobInOnePlace
<1>1. IInv => JobInOnePlace
  BY DEF IInv
<1>2. QED
  BY <1>1, Invariance, PTL

\* Every unanswered job of a connected client is with the gatherer, in the
\* queue or at a worker; and everything there is in its client's map, so that
\* no unwrap or assert of the handlers fails.
THEOREM NoneLost == Spec => [](NoJobLost /\ NoDanglingJob)
<1>1. IInv => NoJobLost /\ NoDanglingJob
  BY DEF IInv
<1>2. QED
  BY <1>1, Invariance, PTL

\* A worker runs what the broker believes it runs.
THEOREM BrokerAndWorkerAgree == Spec => []WorkerAgrees
<1>1. IInv => WorkerAgrees
  BY DEF IInv
<1>2. QED
  BY <1>1, Invariance, PTL

\* No job is answered twice, or queued or pending once it is answered.
THEOREM AtMostOneResponse == Spec => []OneResponse
<1>1. IInv => OneResponse
  BY DEF IInv
<1>2. QED
  BY <1>1, Invariance, PTL

(***************************************************************************)
(* The scheduler implements JobService: every action is a step of it, or   *)
(* changes nothing of it.                                                  *)
(***************************************************************************)
\* Updates are sent of the jobs of J only.
LEMMA ReportedTellsOpen ==
  ASSUME IInv, NEW J \in SUBSET Job, status' = Reported(J), J \subseteq jobs'
  PROVE  /\ Service!TellOpen
         /\ J = {} => status' = status
<1>1. status \in [Job -> Status]
  BY DEF IInv, Typed
<1>2. status' = [j \in Job |-> IF j \in J THEN "WaitingForWorker" ELSE status[j]]
  BY DEF Reported
<1>3. QED
  BY <1>1, <1>2 DEF Service!TellOpen

\* The jobs that possibly_start_jobs was given and did not start are told of.
LEMMA PlacingTellsOpen ==
  ASSUME IInv, NEW W, NEW p, NEW q, NEW cs, NEW aw, NEW J \in SUBSET Job,
         PossiblyStartJobs(W, p, q, cs, aw, J), J \subseteq jobs'
  PROVE  /\ Service!TellOpen
         /\ J = {} => status' = status
<1>1. PICK f \in Placements(W, p, q) : status' = Reported(J \ DOMAIN f)
  BY DEF PossiblyStartJobs
<1>2. J \ DOMAIN f \in SUBSET Job /\ J \ DOMAIN f \subseteq jobs'
  OBVIOUS
<1>3. QED
  BY <1>1, <1>2, ReportedTellsOpen

\* A request opens a job that was neither answered nor abandoned before.
LEMMA RequestServes ==
  ASSUME IInv, NEW j \in Job, Owner[j] \in clients, j \notin requested,
         requested' = requested \cup {j}, jobs' = jobs \cup {j},
         UNCHANGED <<clients, responses>>, Service!TellOpen
  PROVE  Service!Request(j)
<1>1. j \notin jobs /\ responses[j] = 0
  BY DEF IInv, Past
<1>2. j \notin Abandoned /\ Abandoned' = Abandoned
  BY DEF Abandoned
<1>3. QED
  BY <1>1, <1>2 DEF Service!Request

\* An answer is given to open jobs.
LEMMA RespondServes ==
  ASSUME IInv, NEW J \in SUBSET Job, J \subseteq jobs, Respond(J),
         UNCHANGED <<clients, requested, status>>
  PROVE  [Service!Next]_Service!vars
<1>1. /\ responses' = [j \in Job |-> responses[j] + IF j \in J THEN 1 ELSE 0]
      /\ jobs' = jobs \ J
  BY DEF Respond
<1>2. Abandoned' = Abandoned
  BY DEF Abandoned
<1>3. CASE J = {}
  <2>1. responses' = responses
    BY <1>1, <1>3 DEF IInv, Typed
  <2>2. QED
    BY <1>1, <1>2, <1>3, <2>1 DEF Service!vars
<1>4. CASE J # {}
  <2>1. Service!Answer(J)
    BY <1>1, <1>2, <1>4 DEF Service!Answer, Service!TellOpen
  <2>2. QED
    BY <2>1 DEF Service!Next
<1>5. QED
  BY <1>3, <1>4

\* A client that leaves abandons what it requested, and is told nothing.
LEMMA ClientDisconnectedServes ==
  ASSUME IInv, NEW c \in Client, ClientDisconnected(c)
  PROVE  Service!Next
<1> DEFINE J == requested \cap JobsOf(c)
<1>1. /\ clients' = clients \ {c}
      /\ jobs' = jobs \ JobsOf(c)
      /\ requested' = requested /\ responses' = responses
  BY DEF ClientDisconnected
<1>2. status' = status
  BY PlacingTellsOpen DEF ClientDisconnected
<1>3. jobs' = jobs \ J
  BY <1>1 DEF IInv, Past
<1>4. Abandoned' = Abandoned \cup J
  BY <1>1 DEF Abandoned, JobsOf, IInv, Typed
<1>5. Service!Abandon(J)
  BY <1>1, <1>2, <1>3, <1>4 DEF Service!Abandon
<1>6. J \in SUBSET Job
  BY DEF JobsOf
<1>7. QED
  BY <1>5, <1>6 DEF Service!Next

\* Every step of the scheduler is one that JobService allows.
LEMMA StepServes == IInv /\ [Next]_vars => [Service!Next]_Service!vars
<1> SUFFICES ASSUME IInv, [Next]_vars PROVE [Service!Next]_Service!vars
  OBVIOUS
<1>1. ASSUME NEW c \in Client, ClientConnected(c)
      PROVE  UNCHANGED Service!vars
  <2>1. \A j \in requested : Owner[j] # c
    BY <1>1 DEF ClientConnected, IInv, Past
  <2>2. Abandoned' = Abandoned
    BY <1>1, <2>1 DEF ClientConnected, Abandoned, IInv, Typed
  <2>3. QED
    BY <1>1, <2>2 DEF ClientConnected, Service!vars, clientVars
<1>2. ASSUME NEW j \in Job, JobRequestReady(j)
      PROVE  Service!Next
  <2>1. {j} \in SUBSET Job /\ {j} \subseteq jobs'
    BY <1>2 DEF JobRequestReady
  <2>2. Service!TellOpen
    BY <1>2, <2>1, PlacingTellsOpen DEF JobRequestReady
  <2>3. Service!Request(j)
    BY <1>2, <2>2, RequestServes DEF JobRequestReady
  <2>4. QED
    BY <2>3 DEF Service!Next
<1>3. ASSUME NEW j \in Job, JobRequestNotReady(j)
      PROVE  Service!Next
  <2>1. Service!TellOpen
    BY <1>3 DEF JobRequestNotReady, Service!TellOpen, IInv, Typed
  <2>2. Service!Request(j)
    BY <1>3, <2>1, RequestServes DEF JobRequestNotReady
  <2>3. QED
    BY <2>2 DEF Service!Next
<1>4. ASSUME NEW m \in announced, JobsReady(m)
      PROVE  Service!Next
  <2>1. LiveJobs(m) \in SUBSET Job /\ LiveJobs(m) \subseteq jobs
    BY <1>4 DEF LiveJobs, IInv, Typed, Announcement, NoDanglingJob, Waiting,
       AnnouncedJobs
  <2>2. /\ jobs' = jobs /\ responses' = responses
        /\ clients' = clients /\ requested' = requested
    BY <1>4 DEF JobsReady
  <2>3. Service!TellOpen
    BY <1>4, <2>1, <2>2, PlacingTellsOpen DEF JobsReady
  <2>4. Service!Tell
    BY <2>2, <2>3 DEF Service!Tell, Abandoned
  <2>5. QED
    BY <2>4 DEF Service!Next
<1>5. ASSUME NEW m \in announced, JobsFailed(m)
      PROVE  [Service!Next]_Service!vars
  <2>1. LiveJobs(m) \in SUBSET Job /\ LiveJobs(m) \subseteq jobs
    BY <1>5 DEF LiveJobs, IInv, Typed, Announcement, NoDanglingJob, Waiting,
       AnnouncedJobs
  <2>2. QED
    BY <1>5, <2>1, RespondServes DEF JobsFailed
<1>6. ASSUME NEW w \in Worker, WorkerConnected(w)
      PROVE  UNCHANGED Service!vars
  <2>1. status' = status
    BY <1>6, PlacingTellsOpen DEF WorkerConnected
  <2>2. QED
    BY <1>6, <2>1 DEF WorkerConnected, Service!vars, Abandoned
<1>7. ASSUME NEW w \in Worker, WorkerDisconnected(w)
      PROVE  Service!Next
  <2>1. /\ jobs' = jobs /\ responses' = responses
        /\ clients' = clients /\ requested' = requested
    BY <1>7 DEF WorkerDisconnected
  <2>2. Requeued(w) \in SUBSET Job /\ Requeued(w) \subseteq jobs'
    BY <2>1 DEF Requeued, IInv, Typed, NoDanglingJob, PendingJobs
  <2>3. Service!TellOpen
    BY <1>7, <2>2, PlacingTellsOpen DEF WorkerDisconnected
  <2>4. Service!Tell
    BY <2>1, <2>3 DEF Service!Tell, Abandoned
  <2>5. QED
    BY <2>4 DEF Service!Next
<1>8. ASSUME NEW w \in Worker, NEW j \in Job, JobResponse(w, j)
      PROVE  [Service!Next]_Service!vars
  <2>1. j \in jobs
    BY <1>8 DEF JobResponse, IInv, NoDanglingJob, PendingJobs
  <2>2. QED
    BY <1>8, <2>1, RespondServes DEF JobResponse
<1>9. ASSUME NEW w \in Worker, NEW j \in Job, JobStatusUpdate(w, j)
      PROVE  Service!Next
  <2>1. /\ jobs' = jobs /\ responses' = responses
        /\ clients' = clients /\ requested' = requested
    BY <1>9 DEF JobStatusUpdate, schedVars, envVars
  <2>2. j \in jobs
    BY <1>9 DEF JobStatusUpdate, IInv, NoDanglingJob, PendingJobs
  <2>3. Service!TellOpen
    BY <1>9, <2>1, <2>2 DEF JobStatusUpdate, Service!TellOpen, IInv, Typed
  <2>4. Service!Tell
    BY <2>1, <2>3 DEF Service!Tell, Abandoned
  <2>5. QED
    BY <2>4 DEF Service!Next
<1>10. ASSUME \/ \E kind \in {"ready", "failed"}, J \in SUBSET acquiring :
                    GathererAnnounces(kind, J)
              \/ \E w \in Worker, j \in Job : StaleJobResponse(w, j)
              \/ UNCHANGED vars
       PROVE  UNCHANGED Service!vars
  BY <1>10 DEF GathererAnnounces, StaleJobResponse, vars, schedVars, envVars,
     clientVars, Service!vars, Abandoned
<1>11. QED
  BY <1>1, <1>2, <1>3, <1>4, <1>5, <1>6, <1>7, <1>8, <1>9, <1>10,
     ClientDisconnectedServes DEF Next

\* The scheduler implements JobService: a requested job leaves the scheduler
\* with an answer or with its client, and with an answer once.
THEOREM ImplementsService == Spec => ServesJobs
<1>1. Init => Service!Init
  BY DEF Init, Service!Init, Abandoned
<1>2. QED
  BY <1>1, StepServes, Invariance, PTL DEF Spec, ServesJobs, Service!Spec

-----------------------------------------------------------------------------
(***************************************************************************)
(* Proof that Scheduler keeps its workers full and overloads none, for any *)
(* clients, jobs, workers and slots (WorkConserving).                      *)
(*                                                                         *)
(* The code never compares workers when a response frees a place; it       *)
(* starts one queued job there.  That is enough because the queue is empty *)
(* unless every worker has twice as many jobs as slots, which each handler *)
(* that changes a worker's jobs, the queue or the workers restores with    *)
(* possibly_start_jobs: it stops for want of jobs, or of free places.      *)
(***************************************************************************)

\* Worker w, with the jobs P, has not too many, and as many as it may have while
\* some job is left in the queue q.
Kept(w, P, q) ==
  /\ Cardinality(P) <= 2 * Slots[w]
  /\ q # {} => Cardinality(P) = 2 * Slots[w]

\* The jobs started at one worker take free places of it, one each.
LEMMA StartedTakePlaces ==
  ASSUME NEW W \in SUBSET Worker, NEW p, NEW q \in SUBSET Job,
         NEW f \in Placements(W, p, q), NEW w \in W
  PROVE  LET places == Cardinality(p[w]) .. 2 * Slots[w] - 1
             g == [j \in StartedAt(f, w) |-> f[j][2]]
         IN  /\ g \in Injection(StartedAt(f, w), places)
             /\ q \ DOMAIN f # {} => g \in Surjection(StartedAt(f, w), places)
<1> DEFINE places == Cardinality(p[w]) .. 2 * Slots[w] - 1
           g == [j \in StartedAt(f, w) |-> f[j][2]]
           free == FreeUnits(W, p)
           used == {f[j] : j \in DOMAIN f}
<1>1. /\ f \in [DOMAIN f -> free]
      /\ \A j, k \in DOMAIN f : j # k => f[j] # f[k]
      /\ DOMAIN f = q \/ used = free
      /\ DOMAIN f \subseteq q
  BY DEF Placements
<1>2. \A u \in free : u = <<u[1], u[2]>>
  BY DEF FreeUnits
<1>3. \A n : <<w, n>> \in free <=> n \in places
  BY DEF FreeUnits
<1>4. \A j \in StartedAt(f, w) : j \in DOMAIN f /\ f[j] = <<w, g[j]>>
  BY <1>1, <1>2 DEF StartedAt
<1>5. g \in [StartedAt(f, w) -> places]
  <2>1. ASSUME NEW j \in StartedAt(f, w) PROVE g[j] \in places
    <3>1. <<w, g[j]>> \in free
      BY <1>1, <1>4
    <3>2. QED
      BY <3>1, <1>3
  <2>2. QED
    BY <2>1
<1>6. \A j, k \in StartedAt(f, w) : g[j] = g[k] => j = k
  BY <1>1, <1>4
<1>7. g \in Injection(StartedAt(f, w), places)
  BY <1>5, <1>6 DEF Injection, IsInjective
<1>8. ASSUME q \ DOMAIN f # {}, NEW n \in places
      PROVE  \E j \in StartedAt(f, w) : g[j] = n
  <2>1. <<w, n>> \in used
    BY <1>1, <1>3, <1>8
  <2>2. PICK j \in DOMAIN f : f[j] = <<w, n>>
    BY <2>1
  <2>3. QED
    BY <2>2 DEF StartedAt
<1>9. QED
  BY <1>5, <1>7, <1>8 DEF Surjection

\* possibly_start_jobs fills the workers W, or empties the queue q, and gives no
\* worker more than it may have.
LEMMA PlacementFills ==
  ASSUME NEW W \in SUBSET Worker, NEW p \in [Worker -> SUBSET Job],
         NEW q \in SUBSET Job, NEW f \in Placements(W, p, q), NEW w \in W,
         p[w] \cap q = {}, Cardinality(p[w]) <= 2 * Slots[w]
  PROVE  Kept(w, p[w] \cup StartedAt(f, w), q \ DOMAIN f)
<1> DEFINE places == Cardinality(p[w]) .. 2 * Slots[w] - 1
           S == StartedAt(f, w)
           g == [j \in S |-> f[j][2]]
<1>1. /\ g \in Injection(S, places)
      /\ q \ DOMAIN f # {} => g \in Surjection(S, places)
  BY StartedTakePlaces
<1>2. S \subseteq q
  BY PlacementFacts
<1>3. /\ IsFiniteSet(p[w]) /\ Cardinality(p[w]) \in Nat
      /\ IsFiniteSet(S) /\ Cardinality(S) \in Nat
  BY <1>2, JobAssumption, FS_Subset, FS_CardinalityType
<1>4. /\ Slots[w] \in Nat
      /\ IsFiniteSet(places)
      /\ Cardinality(places) = 2 * Slots[w] - Cardinality(p[w])
  <2>1. Slots[w] \in Nat
    BY SlotsAssumption
  <2>2. ASSUME NEW a \in Nat, NEW b \in Nat, a <= b + 1
        PROVE  IsFiniteSet(a .. b) /\ Cardinality(a .. b) = b + 1 - a
    BY <2>2, FS_Interval
  <2>3. 2 * Slots[w] - 1 \in Nat
    BY SlotsAssumption
  <2>4. Cardinality(p[w]) <= (2 * Slots[w] - 1) + 1
    BY <2>1
  <2>5. IsFiniteSet(places) /\ Cardinality(places) = (2 * Slots[w] - 1) + 1 - Cardinality(p[w])
    BY <2>2, <2>3, <2>4, <1>3
  <2>6. QED
    BY <2>1, <2>5, <1>3
<1>5. /\ Cardinality(S) <= Cardinality(places)
      /\ Cardinality(S) = Cardinality(places) <=> g \in Surjection(S, places)
  BY <1>1, <1>4, FS_Injection
<1>6. Cardinality(p[w] \cup S) = Cardinality(p[w]) + Cardinality(S)
  <2>1. p[w] \cap S = {}
    BY <1>2
  <2>2. Cardinality(p[w] \cup S) = Cardinality(p[w]) + Cardinality(S) - Cardinality({})
    <3> HIDE DEF S
    <3>1. QED
      BY <2>1, <1>3, FS_Union
  <2>3. QED
    BY <2>2, <1>3, FS_EmptySet
<1>7. QED
  BY <1>1, <1>3, <1>4, <1>5, <1>6 DEF Kept

\* So does a handler that ends with it, if what it starts from, without the
\* queue, is within the bound.
LEMMA StartJobsKeeps ==
  ASSUME NEW W \in SUBSET Worker, NEW p \in [Worker -> SUBSET Job],
         NEW q \in SUBSET Job, NEW cs, NEW aw, NEW fresh,
         PossiblyStartJobs(W, p, q, cs, aw, fresh), workers' = W,
         \A w \in W : p[w] \cap q = {} /\ Cardinality(p[w]) <= 2 * Slots[w]
  PROVE  WorkConserving'
<1>1. PICK f \in Placements(W, p, q) :
        /\ pending' = [w \in Worker |-> p[w] \cup StartedAt(f, w)]
        /\ queued' = q \ DOMAIN f
  BY DEF PossiblyStartJobs
<1>2. \A w \in W : Kept(w, pending'[w], queued')
  BY <1>1, PlacementFills
<1>3. QED
  BY <1>2 DEF Kept, WorkConserving

\* Fewer jobs than a worker has are not too many.
LEMMA FewerFit ==
  ASSUME Typed, WorkConserving, NEW w \in workers, NEW P \in SUBSET pending[w]
  PROVE  Cardinality(P) <= 2 * Slots[w]
<1>1. w \in Worker /\ pending[w] \subseteq Job
  BY DEF Typed
<1>2. Slots[w] \in Nat /\ Cardinality(pending[w]) <= 2 * Slots[w]
  BY <1>1, SlotsAssumption DEF WorkConserving
<1>3. IsFiniteSet(pending[w]) /\ Cardinality(pending[w]) \in Nat
  BY <1>1, JobAssumption, FS_Subset, FS_CardinalityType
<1>4. IsFiniteSet(P) /\ Cardinality(P) \in Nat /\ Cardinality(P) <= Cardinality(pending[w])
  BY <1>3, FS_Subset, FS_CardinalityType
<1>5. QED
  BY <1>2, <1>3, <1>4

-----------------------------------------------------------------------------
\* A response leaves its worker with as many jobs, if any was queued.
LEMMA ResponseKeeps ==
  ASSUME IInv, WorkConserving, NEW v \in Worker, NEW j \in Job, JobResponse(v, j)
  PROVE  WorkConserving'
<1>1. /\ v \in workers /\ j \in pending[v] /\ workers' = workers
      /\ workers \subseteq Worker /\ pending \in [Worker -> SUBSET Job]
      /\ queued \subseteq Job
  BY DEF JobResponse, IInv, Typed
<1>2. IsFiniteSet(pending[v]) /\ Cardinality(pending[v]) \in Nat /\ Slots[v] \in Nat
  BY <1>1, JobAssumption, SlotsAssumption, FS_Subset, FS_CardinalityType
<1>3. /\ IsFiniteSet(pending[v] \ {j})
      /\ Cardinality(pending[v] \ {j}) = Cardinality(pending[v]) - 1
  BY <1>1, <1>2, FS_RemoveElement
<1>4. CASE \E k \in NextQueued :
             /\ queued' = Taken(k)
             /\ pending' = [pending EXCEPT ![v] = (@ \ {j}) \cup {k}]
  <2>1. PICK k \in queued :
          /\ queued' = queued \ {k}
          /\ pending' = [pending EXCEPT ![v] = (@ \ {j}) \cup {k}]
    BY <1>4 DEF NextQueued, Taken
  <2>2. k \notin pending[v]
    BY <2>1, <1>1 DEF IInv, JobInOnePlace, PendingJobs
  <2>3. Cardinality((pending[v] \ {j}) \cup {k}) = Cardinality(pending[v])
    <3>1. k \notin pending[v] \ {j}
      BY <2>2
    <3>2. Cardinality((pending[v] \ {j}) \cup {k}) = Cardinality(pending[v] \ {j}) + 1
      BY <3>1, <1>3, FS_AddElement
    <3>3. QED
      BY <3>2, <1>2, <1>3
  <2>4. \A w \in workers : Cardinality(pending'[w]) = Cardinality(pending[w])
    BY <2>1, <2>3, <1>1
  <2>5. QED
    BY <2>1, <2>4, <1>1 DEF WorkConserving
<1>5. CASE queued = {} /\ UNCHANGED queued /\ pending' = [pending EXCEPT ![v] = @ \ {j}]
  <2>1. \A w \in workers : pending'[w] \in SUBSET pending[w]
    BY <1>1, <1>5
  <2>2. \A w \in workers : Cardinality(pending'[w]) <= 2 * Slots[w]
    BY <2>1, FewerFit DEF IInv
  <2>3. QED
    BY <2>2, <1>1, <1>5 DEF WorkConserving
<1>6. QED
  BY <1>4, <1>5 DEF JobResponse

\* A handler that changes neither workers, nor their jobs, nor the queue.
LEMMA SameKeeps ==
  ASSUME WorkConserving, UNCHANGED <<workers, pending, queued>>
  PROVE  WorkConserving'
BY DEF WorkConserving

LEMMA StepKeeps ==
  IInv /\ WorkConserving /\ [Next]_vars => WorkConserving'
<1> SUFFICES ASSUME IInv, WorkConserving, [Next]_vars PROVE WorkConserving'
  OBVIOUS
<1> USE DEF schedVars, envVars, clientVars
<1>1. /\ workers \subseteq Worker /\ pending \in [Worker -> SUBSET Job]
      /\ queued \subseteq Job /\ clients \subseteq Client
      /\ announced \subseteq Announcement
  BY DEF IInv, Typed
<1>2. \A w \in Worker : pending[w] \cap queued = {} /\ pending[w] \cap Waiting = {}
  BY DEF IInv, JobInOnePlace, PendingJobs
<1>3. \A w \in workers : \A P \in SUBSET pending[w] : Cardinality(P) <= 2 * Slots[w]
  BY FewerFit DEF IInv
<1>4. ASSUME NEW c \in Client, ClientConnected(c) PROVE WorkConserving'
  BY <1>4, SameKeeps DEF ClientConnected
<1>5. ASSUME NEW c \in Client, ClientDisconnected(c) PROVE WorkConserving'
  <2> DEFINE p == [w \in Worker |-> pending[w] \ JobsOf(c)]
             q == queued \ JobsOf(c)
  <2>1. /\ PossiblyStartJobs(workers, p, q, [counts EXCEPT ![c] = NoCounts], atWorker, {})
        /\ workers' = workers
    BY <1>5 DEF ClientDisconnected
  <2>2. p \in [Worker -> SUBSET Job] /\ q \in SUBSET Job
    BY <1>1
  <2>3. \A w \in workers : p[w] \cap q = {} /\ Cardinality(p[w]) <= 2 * Slots[w]
    BY <1>1, <1>2, <1>3
  <2> HIDE DEF p, q
  <2>4. QED
    BY <2>1, <2>2, <2>3, <1>1, StartJobsKeeps
<1>6. ASSUME NEW j \in Job, JobRequestReady(j) PROVE WorkConserving'
  <2>1. /\ PossiblyStartJobs(workers, pending, queued \cup {j},
              [counts EXCEPT ![Owner[j]]["Pending"] = @ + 1], atWorker, {j})
        /\ workers' = workers
    BY <1>6 DEF JobRequestReady
  <2>2. \A w \in Worker : j \notin pending[w]
    BY <1>6 DEF JobRequestReady, IInv, Past, PendingJobs
  <2>3. \A w \in workers :
          pending[w] \cap (queued \cup {j}) = {} /\ Cardinality(pending[w]) <= 2 * Slots[w]
    BY <2>2, <1>1, <1>2, <1>3
  <2>4. QED
    BY <2>1, <2>3, <1>1, StartJobsKeeps
<1>7. ASSUME NEW j \in Job, JobRequestNotReady(j) PROVE WorkConserving'
  BY <1>7, SameKeeps DEF JobRequestNotReady
<1>8. ASSUME NEW kind, NEW J, GathererAnnounces(kind, J) PROVE WorkConserving'
  BY <1>8, SameKeeps DEF GathererAnnounces
<1>9. ASSUME NEW m \in announced, JobsReady(m) PROVE WorkConserving'
  <2> DEFINE q == queued \cup LiveJobs(m)
  <2>1. /\ PossiblyStartJobs(workers, pending, q,
              Moved(counts, LiveJobs(m), "WaitingForArtifacts", "Pending"),
              atWorker, LiveJobs(m))
        /\ workers' = workers
    BY <1>9 DEF JobsReady
  <2>2. LiveJobs(m) \subseteq Waiting /\ LiveJobs(m) \subseteq Job
    BY <1>1 DEF LiveJobs, Waiting, AnnouncedJobs, Announcement
  <2>3. q \in SUBSET Job
    BY <2>2, <1>1
  <2>4. \A w \in workers : pending[w] \cap q = {} /\ Cardinality(pending[w]) <= 2 * Slots[w]
    BY <2>2, <1>1, <1>2, <1>3
  <2> HIDE DEF q
  <2>5. QED
    BY <2>1, <2>3, <2>4, <1>1, StartJobsKeeps
<1>10. ASSUME NEW m \in announced, JobsFailed(m) PROVE WorkConserving'
  BY <1>10, SameKeeps DEF JobsFailed
<1>11. ASSUME NEW v \in Worker, WorkerConnected(v) PROVE WorkConserving'
  <2>1. /\ PossiblyStartJobs(workers \cup {v}, pending, queued, counts, atWorker, {})
        /\ workers' = workers \cup {v}
    BY <1>11 DEF WorkerConnected
  <2>2. v \notin workers => pending[v] = {}
    BY DEF IInv, NoDanglingJob
  <2>3. Slots[v] \in Nat
    BY SlotsAssumption
  <2>4. \A w \in workers \cup {v} :
          pending[w] \cap queued = {} /\ Cardinality(pending[w]) <= 2 * Slots[w]
    BY <2>2, <2>3, <1>1, <1>2, <1>3, FS_EmptySet
  <2>5. QED
    BY <2>1, <2>4, <1>1, StartJobsKeeps
<1>12. ASSUME NEW v \in Worker, WorkerDisconnected(v) PROVE WorkConserving'
  <2> DEFINE p == [pending EXCEPT ![v] = {}]
             q == queued \cup Requeued(v)
  <2>1. /\ PossiblyStartJobs(workers \ {v}, p, q,
              Moved(counts, Requeued(v), "Running", "Pending"),
              [atWorker EXCEPT ![v] = {}], Requeued(v))
        /\ workers' = workers \ {v}
    BY <1>12 DEF WorkerDisconnected
  <2>2. p \in [Worker -> SUBSET Job] /\ q \in SUBSET Job
    BY <1>1 DEF Requeued
  <2>3. \A w \in workers \ {v} : p[w] = pending[w] /\ pending[w] \cap pending[v] = {}
    BY <1>1 DEF IInv, JobInOnePlace
  <2>4. \A w \in workers \ {v} : p[w] \cap q = {} /\ Cardinality(p[w]) <= 2 * Slots[w]
    BY <2>3, <1>1, <1>2, <1>3 DEF Requeued
  <2> HIDE DEF p, q
  <2>5. QED
    BY <2>1, <2>2, <2>4, <1>1, StartJobsKeeps
<1>13. ASSUME NEW v \in Worker, NEW j \in Job, JobResponse(v, j) PROVE WorkConserving'
  BY <1>13, ResponseKeeps
<1>14. ASSUME NEW v \in Worker, NEW j \in Job,
              StaleJobResponse(v, j) \/ JobStatusUpdate(v, j)
       PROVE  WorkConserving'
  BY <1>14, SameKeeps DEF StaleJobResponse, JobStatusUpdate
<1>15. CASE UNCHANGED vars
  BY <1>15, SameKeeps DEF vars
<1>16. QED
  BY <1>4, <1>5, <1>6, <1>7, <1>8, <1>9, <1>10, <1>11, <1>12, <1>13, <1>14, <1>15
     DEF Next

\* No worker is given more than twice as many jobs as it has slots, and no job
\* waits while one has fewer, whoever comes and goes.
THEOREM WorkersAreKept == Spec => []WorkConserving
<1>1. Init => WorkConserving
  BY DEF Init, WorkConserving
<1>2. QED
  BY <1>1, StepKeeps, Invariance, PTL DEF Spec

-----------------------------------------------------------------------------
(***************************************************************************)
(* Proof that the counts Scheduler keeps for its monitors are those of the *)
(* jobs there are, for any clients, jobs, workers and slots (CountsMatch). *)
(*                                                                         *)
(* The counts are moved in eight places of the code; each handler moves as *)
(* many as there are jobs of the client among those it moves.              *)
(***************************************************************************)

\* The counts n are those of the client c's jobs, when at has the jobs by state.
Counted(n, at, c) == \A s \in JobState : n[s] = Cardinality(at[s] \cap JobsOf(c))

\* The jobs by state, from those that wait, are queued, run and are done.
ByState(wait, q, run, done) ==
  [s \in JobState |-> CASE s = "WaitingForArtifacts" -> wait
                        [] s = "Pending" -> q
                        [] s = "Running" -> run
                        [] s = "Complete" -> done]

LEMMA ByStateIs ==
  ASSUME NEW wait, NEW q, NEW run, NEW done
  PROVE  /\ ByState(wait, q, run, done)["WaitingForArtifacts"] = wait
         /\ ByState(wait, q, run, done)["Pending"] = q
         /\ ByState(wait, q, run, done)["Running"] = run
         /\ ByState(wait, q, run, done)["Complete"] = done
BY DEF ByState, JobState

Here == ByState(Waiting, queued, PendingJobs, requested \ jobs)

\* CountsMatch, said with them.
LEMMA CountsMatchCounted ==
  ASSUME requested \subseteq Job
  PROVE  CountsMatch <=> \A c \in clients : Counted(counts[c], Here, c)
<1>1. \A c : {j \in requested \cap JobsOf(c) : j \notin jobs}
             = (requested \ jobs) \cap JobsOf(c)
  OBVIOUS
<1>2. /\ Here["WaitingForArtifacts"] = Waiting
      /\ Here["Pending"] = queued
      /\ Here["Running"] = PendingJobs
      /\ Here["Complete"] = requested \ jobs
  BY DEF Here, ByState, JobState
<1>3. QED
  BY <1>1, <1>2 DEF CountsMatch, Counted, JobState

\* And in the next state, with the jobs by state of which the counts are.
LEMMA CountsMatchNext ==
  ASSUME requested' \subseteq Job,
         \A c \in clients' : Counted(counts'[c],
           ByState(Waiting', queued', PendingJobs', requested' \ jobs'), c)
  PROVE  CountsMatch'
<1> DEFINE next == ByState(Waiting', queued', PendingJobs', requested' \ jobs')
<1>1. \A c : {j \in requested' \cap JobsOf(c) : j \notin jobs'}
             = (requested' \ jobs') \cap JobsOf(c)
  OBVIOUS
<1>2. /\ next["WaitingForArtifacts"] = Waiting'
      /\ next["Pending"] = queued'
      /\ next["Running"] = PendingJobs'
      /\ next["Complete"] = requested' \ jobs'
  BY DEF ByState, JobState
<1> HIDE DEF next
<1>3. \A c \in clients' : Counted(counts'[c], next, c)
  BY DEF next
<1>4. ASSUME NEW c \in clients'
      PROVE  /\ counts'[c]["WaitingForArtifacts"] = Cardinality(Waiting' \cap JobsOf(c))
             /\ counts'[c]["Pending"] = Cardinality(queued' \cap JobsOf(c))
             /\ counts'[c]["Running"] = Cardinality(PendingJobs' \cap JobsOf(c))
             /\ counts'[c]["Complete"] = Cardinality((requested' \ jobs') \cap JobsOf(c))
  BY <1>2, <1>3 DEF Counted, JobState
<1>5. QED
  BY <1>1, <1>4 DEF CountsMatch, JobsOf

LEMMA JobsOfFinite ==
  ASSUME NEW c, NEW S
  PROVE  IsFiniteSet(S \cap JobsOf(c)) /\ Cardinality(S \cap JobsOf(c)) \in Nat
<1>1. JobsOf(c) \in SUBSET Job /\ S \cap JobsOf(c) \in SUBSET Job
  BY DEF JobsOf
<1>2. QED
  BY <1>1, JobAssumption, FS_Subset, FS_CardinalityType

\* Some of a finite set taken away, and others added.
LEMMA TakenAway ==
  ASSUME NEW X, NEW Y, IsFiniteSet(X), Y \subseteq X
  PROVE  Cardinality(X \ Y) = Cardinality(X) - Cardinality(Y)
<1>1. X \cap Y = Y
  OBVIOUS
<1>2. QED
  BY <1>1, FS_Difference

LEMMA Added ==
  ASSUME NEW X, NEW Y, IsFiniteSet(X), IsFiniteSet(Y), X \cap Y = {}
  PROVE  Cardinality(X \cup Y) = Cardinality(X) + Cardinality(Y)
<1>1. Cardinality(X \cup Y) = Cardinality(X) + Cardinality(Y) - Cardinality({})
  BY FS_Union
<1>2. Cardinality(X) \in Nat /\ Cardinality(Y) \in Nat
  BY FS_CardinalityType
<1>3. QED
  BY <1>1, <1>2, FS_EmptySet

\* Moved follows jobs that go from one state to another.
LEMMA MovedCounted ==
  ASSUME NEW cs \in [Client -> [JobState -> Int]], NEW J, NEW c \in Client,
         NEW from \in JobState, NEW to \in JobState, from # to,
         NEW at, NEW next,
         Counted(cs[c], at, c),
         J \cap JobsOf(c) \subseteq at[from], J \cap JobsOf(c) \cap at[to] = {},
         next[from] \cap JobsOf(c) = (at[from] \ J) \cap JobsOf(c),
         next[to] \cap JobsOf(c) = (at[to] \cup J) \cap JobsOf(c),
         \A s \in JobState \ {from, to} : next[s] \cap JobsOf(c) = at[s] \cap JobsOf(c)
  PROVE  Counted(Moved(cs, J, from, to)[c], next, c)
<1> DEFINE Y == J \cap JobsOf(c)
           n == Cardinality(Y)
           moved == Moved(cs, J, from, to)[c]
<1>1. IsFiniteSet(Y) /\ n \in Nat
  BY JobsOfFinite
<1>2. /\ cs[c] \in [JobState -> Int]
      /\ moved = [cs[c] EXCEPT ![from] = @ - n, ![to] = @ + n]
  BY DEF Moved
<1>3. /\ moved[from] = cs[c][from] - n
      /\ moved[to] = cs[c][to] + n
      /\ \A s \in JobState \ {from, to} : moved[s] = cs[c][s]
  BY <1>1, <1>2
<1>4. Cardinality(next[from] \cap JobsOf(c)) = Cardinality(at[from] \cap JobsOf(c)) - n
  <2>1. next[from] \cap JobsOf(c) = (at[from] \cap JobsOf(c)) \ Y
    OBVIOUS
  <2>2. Y \subseteq at[from] \cap JobsOf(c) /\ IsFiniteSet(at[from] \cap JobsOf(c))
    BY JobsOfFinite
  <2>3. QED
    BY <2>1, <2>2, TakenAway
<1>5. Cardinality(next[to] \cap JobsOf(c)) = Cardinality(at[to] \cap JobsOf(c)) + n
  <2>1. next[to] \cap JobsOf(c) = (at[to] \cap JobsOf(c)) \cup Y
    OBVIOUS
  <2>2. (at[to] \cap JobsOf(c)) \cap Y = {} /\ IsFiniteSet(at[to] \cap JobsOf(c))
    BY JobsOfFinite
  <2>3. QED
    BY <2>1, <2>2, <1>1, Added
<1>6. QED
  BY <1>3, <1>4, <1>5 DEF Counted

\* And a job that is counted for the first time.
LEMMA OneMoreCounted ==
  ASSUME NEW cs \in [Client -> [JobState -> Int]], NEW j \in Job, NEW c \in Client,
         NEW to \in JobState, NEW at, NEW next,
         Counted(cs[c], at, c),
         j \notin at[to], next[to] = at[to] \cup {j},
         \A s \in JobState \ {to} : next[s] = at[s]
  PROVE  Counted([cs EXCEPT ![Owner[j]][to] = @ + 1][c], next, c)
<1> DEFINE n == [cs EXCEPT ![Owner[j]][to] = @ + 1][c]
<1>1. cs[c] \in [JobState -> Int] /\ Owner[j] \in Client
  BY OwnerAssumption
<1>2. CASE c = Owner[j]
  <2>1. n = [cs[c] EXCEPT ![to] = @ + 1]
    BY <1>2
  <2>2. n[to] = cs[c][to] + 1 /\ \A s \in JobState \ {to} : n[s] = cs[c][s]
    BY <2>1, <1>1
  <2>3. next[to] \cap JobsOf(c) = (at[to] \cap JobsOf(c)) \cup {j}
    BY <1>2 DEF JobsOf
  <2>4. Cardinality(next[to] \cap JobsOf(c)) = Cardinality(at[to] \cap JobsOf(c)) + 1
    BY <2>3, JobsOfFinite, FS_AddElement
  <2>5. QED
    BY <2>2, <2>4 DEF Counted
<1>3. CASE c # Owner[j]
  <2>1. n = cs[c]
    BY <1>3
  <2>2. \A s \in JobState : next[s] \cap JobsOf(c) = at[s] \cap JobsOf(c)
    BY <1>3 DEF JobsOf
  <2>3. QED
    BY <2>1, <2>2 DEF Counted
<1>4. QED
  BY <1>2, <1>3

\* possibly_start_jobs counts the jobs it starts.
LEMMA StartCounted ==
  ASSUME NEW W \in SUBSET Worker, NEW p, NEW q \in SUBSET Job,
         NEW cs \in [Client -> [JobState -> Int]], NEW aw, NEW fresh,
         PossiblyStartJobs(W, p, q, cs, aw, fresh),
         NEW c \in Client, NEW wait, NEW run, NEW done,
         \A i : i \in run <=> \E w \in Worker : i \in p[w],
         q \cap run = {},
         Counted(cs[c], ByState(wait, q, run, done), c)
  PROVE  Counted(counts'[c], ByState(wait, queued', PendingJobs', done), c)
<1>1. PICK f \in Placements(W, p, q) :
        /\ pending' = [w \in Worker |-> p[w] \cup StartedAt(f, w)]
        /\ queued' = q \ DOMAIN f
        /\ counts' = Moved(cs, DOMAIN f, "Pending", "Running")
  BY DEF PossiblyStartJobs
<1>2. DOMAIN f \subseteq q
  BY PlacementFacts
<1>3. PendingJobs' = run \cup DOMAIN f
  <2>1. \A j \in DOMAIN f : \E w \in Worker : j \in StartedAt(f, w)
    BY PlacementFacts
  <2>2. \A w \in Worker : StartedAt(f, w) \subseteq DOMAIN f
    BY PlacementFacts
  <2>3. QED
    BY <1>1, <2>1, <2>2 DEF PendingJobs
<1> DEFINE at == ByState(wait, q, run, done)
           next == ByState(wait, queued', PendingJobs', done)
<1>4. /\ at["WaitingForArtifacts"] = wait /\ next["WaitingForArtifacts"] = wait
      /\ at["Pending"] = q /\ next["Pending"] = queued'
      /\ at["Running"] = run /\ next["Running"] = PendingJobs'
      /\ at["Complete"] = done /\ next["Complete"] = done
  BY DEF ByState, JobState
<1>5. "Pending" \in JobState /\ "Running" \in JobState
  BY DEF JobState
<1>6. /\ DOMAIN f \cap JobsOf(c) \subseteq at["Pending"]
      /\ DOMAIN f \cap JobsOf(c) \cap at["Running"] = {}
      /\ next["Pending"] \cap JobsOf(c) = (at["Pending"] \ DOMAIN f) \cap JobsOf(c)
      /\ next["Running"] \cap JobsOf(c) = (at["Running"] \cup DOMAIN f) \cap JobsOf(c)
  BY <1>1, <1>2, <1>3, <1>4
<1>7. \A s \in JobState \ {"Pending", "Running"} :
        next[s] \cap JobsOf(c) = at[s] \cap JobsOf(c)
  BY <1>4 DEF JobState
<1> HIDE DEF at, next
<1>8. Counted(cs[c], at, c)
  BY DEF at
<1>9. Counted(Moved(cs, DOMAIN f, "Pending", "Running")[c], next, c)
  BY <1>5, <1>6, <1>7, <1>8, MovedCounted
<1>10. QED
  BY <1>1, <1>9 DEF next

\* The same jobs of c by state, and the same counts.
LEMMA SameCounted ==
  ASSUME NEW n, NEW c, NEW wait, NEW q, NEW run, NEW done,
         NEW wait2, NEW q2, NEW run2, NEW done2,
         Counted(n, ByState(wait, q, run, done), c),
         wait2 \cap JobsOf(c) = wait \cap JobsOf(c),
         q2 \cap JobsOf(c) = q \cap JobsOf(c),
         run2 \cap JobsOf(c) = run \cap JobsOf(c),
         done2 \cap JobsOf(c) = done \cap JobsOf(c)
  PROVE  Counted(n, ByState(wait2, q2, run2, done2), c)
BY DEF Counted, ByState, JobState

-----------------------------------------------------------------------------

\* What the counts are of, before a step.
LEMMA CountedBefore ==
  ASSUME IInv, CountsMatch, NEW c \in clients
  PROVE  Counted(counts[c], ByState(Waiting, queued, PendingJobs, requested \ jobs), c)
BY CountsMatchCounted DEF IInv, Typed, Here

LEMMA ClientConnectedCounts ==
  ASSUME IInv, CountsMatch, NEW c \in Client, ClientConnected(c) PROVE CountsMatch'
<1> USE DEF ClientConnected, clientVars
<1>1. /\ Waiting' = Waiting /\ queued' = queued /\ PendingJobs' = PendingJobs
      /\ requested' = requested /\ jobs' = jobs /\ requested \subseteq Job
  BY DEF Waiting, AnnouncedJobs, PendingJobs, IInv, Typed
<1>2. ASSUME NEW d \in clients'
      PROVE  Counted(counts'[d], ByState(Waiting, queued, PendingJobs, requested \ jobs), d)
  <2>1. CASE d = c
    <3>1. counts'[d] = NoCounts
      BY <2>1 DEF IInv, Typed
    <3>2. requested \cap JobsOf(d) = {}
      BY <2>1 DEF IInv, Past, JobsOf
    <3>3. /\ Waiting \cap JobsOf(d) = {} /\ queued \cap JobsOf(d) = {}
          /\ PendingJobs \cap JobsOf(d) = {} /\ (requested \ jobs) \cap JobsOf(d) = {}
      BY <3>2 DEF IInv, Past
    <3>4. QED
      BY <3>1, <3>3, FS_EmptySet DEF Counted, ByState, JobState, NoCounts
  <2>2. CASE d # c
    <3>1. d \in clients /\ counts'[d] = counts[d]
      BY <2>2 DEF IInv, Typed
    <3>2. QED
      BY <3>1, CountedBefore
  <2>3. QED
    BY <2>1, <2>2
<1>3. QED
  BY <1>1, <1>2, CountsMatchNext

LEMMA ClientDisconnectedCounts ==
  ASSUME IInv, CountsMatch, NEW c \in Client, ClientDisconnected(c) PROVE CountsMatch'
<1> DEFINE p == [w \in Worker |-> pending[w] \ JobsOf(c)]
           q == queued \ JobsOf(c)
           cs == [counts EXCEPT ![c] = NoCounts]
           run == UNION {p[w] : w \in Worker}
<1>1. /\ PossiblyStartJobs(workers, p, q, cs, atWorker, {})
      /\ clients' = clients \ {c} /\ requested' = requested
      /\ jobs' = jobs \ JobsOf(c)
      /\ acquiring' = acquiring \ JobsOf(c) /\ announced' = announced
  BY DEF ClientDisconnected
<1>2. /\ requested \subseteq Job /\ clients \subseteq Client /\ workers \subseteq Worker
      /\ queued \subseteq Job /\ counts \in [Client -> [JobState -> Int]]
  BY DEF IInv, Typed
<1>3. q \in SUBSET Job /\ cs \in [Client -> [JobState -> Int]]
  BY <1>2 DEF NoCounts, JobState
<1>4. run = PendingJobs \ JobsOf(c) /\ q \cap run = {}
  BY DEF PendingJobs, IInv, JobInOnePlace
<1>5. ASSUME NEW d \in clients'
      PROVE  Counted(counts'[d],
               ByState(Waiting', queued', PendingJobs', requested' \ jobs'), d)
  <2>1. d \in clients /\ d \in Client /\ d # c /\ JobsOf(c) \cap JobsOf(d) = {}
    BY <1>1, <1>2 DEF JobsOf
  <2>2. Counted(cs[d], ByState(Waiting, queued, PendingJobs, requested \ jobs), d)
    BY <2>1, <1>2, CountedBefore
  <2>3. /\ q \cap JobsOf(d) = queued \cap JobsOf(d)
        /\ run \cap JobsOf(d) = PendingJobs \cap JobsOf(d)
        /\ Waiting' \cap JobsOf(d) = Waiting \cap JobsOf(d)
        /\ (requested' \ jobs') \cap JobsOf(d) = (requested \ jobs) \cap JobsOf(d)
    BY <2>1, <1>1, <1>4 DEF Waiting, AnnouncedJobs
  <2> HIDE DEF p, q, cs, run
  <2>4. Counted(cs[d], ByState(Waiting', q, run, requested' \ jobs'), d)
    BY <2>2, <2>3, SameCounted
  <2>5. \A i : i \in run <=> \E w \in Worker : i \in p[w]
    BY DEF run
  <2>6. QED
    BY <2>1, <2>4, <2>5, <1>1, <1>2, <1>3, <1>4, StartCounted
<1>6. QED
  BY <1>1, <1>2, <1>5, CountsMatchNext

LEMMA JobRequestReadyCounts ==
  ASSUME IInv, CountsMatch, NEW j \in Job, JobRequestReady(j) PROVE CountsMatch'
<1> DEFINE q == queued \cup {j}
           cs == [counts EXCEPT ![Owner[j]]["Pending"] = @ + 1]
           run == UNION {pending[w] : w \in Worker}
<1>1. /\ PossiblyStartJobs(workers, pending, q, cs, atWorker, {j})
      /\ clients' = clients /\ requested' = requested \cup {j} /\ jobs' = jobs \cup {j}
      /\ acquiring' = acquiring /\ announced' = announced
      /\ Owner[j] \in clients /\ j \notin requested
  BY DEF JobRequestReady
<1>2. /\ requested \subseteq Job /\ clients \subseteq Client /\ workers \subseteq Worker
      /\ queued \subseteq Job /\ counts \in [Client -> [JobState -> Int]]
  BY DEF IInv, Typed
<1>3. q \in SUBSET Job /\ cs \in [Client -> [JobState -> Int]]
  BY <1>1, <1>2 DEF JobState
<1>4. j \notin queued /\ q \cap run = {} /\ run = PendingJobs
  BY <1>1 DEF IInv, JobInOnePlace, Past, PendingJobs
<1>5. Waiting' = Waiting /\ requested' \ jobs' = requested \ jobs
  BY <1>1 DEF Waiting, AnnouncedJobs
<1> HIDE DEF run
<1>6. ASSUME NEW d \in clients'
      PROVE  Counted(counts'[d],
               ByState(Waiting', queued', PendingJobs', requested' \ jobs'), d)
  <2> DEFINE at == ByState(Waiting, queued, run, requested \ jobs)
             next == ByState(Waiting, q, run, requested \ jobs)
  <2>1. d \in Client /\ Counted(counts[d], at, d)
    BY <1>1, <1>2, <1>4, CountedBefore
  <2>2. /\ at["Pending"] = queued /\ next["Pending"] = q
        /\ \A s \in JobState \ {"Pending"} : next[s] = at[s]
    BY ByStateIs DEF JobState
  <2>3. "Pending" \in JobState
    BY DEF JobState
  <2> HIDE DEF at, next
  <2>4. Counted(cs[d], next, d)
    BY <2>1, <2>2, <2>3, <1>2, <1>4, OneMoreCounted
  <2> HIDE DEF cs, q
  <2>5. Counted(cs[d], ByState(Waiting', q, run, requested' \ jobs'), d)
    BY <2>4, <1>5 DEF next
  <2>6. \A i : i \in run <=> \E w \in Worker : i \in pending[w]
    BY DEF run
  <2>7. /\ PossiblyStartJobs(workers, pending, q, cs, atWorker, {j})
        /\ workers \in SUBSET Worker /\ q \cap run = {}
    BY <1>1, <1>2, <1>4
  <2>8. QED
    BY <2>1, <2>5, <2>6, <2>7, <1>3, StartCounted
<1>7. QED
  BY <1>1, <1>2, <1>6, CountsMatchNext

LEMMA JobRequestNotReadyCounts ==
  ASSUME IInv, CountsMatch, NEW j \in Job, JobRequestNotReady(j) PROVE CountsMatch'
<1>1. /\ counts' = [counts EXCEPT ![Owner[j]]["WaitingForArtifacts"] = @ + 1]
      /\ clients' = clients /\ requested' = requested \cup {j} /\ jobs' = jobs \cup {j}
      /\ acquiring' = acquiring \cup {j} /\ announced' = announced
      /\ queued' = queued /\ pending' = pending /\ j \notin requested
  BY DEF JobRequestNotReady
<1>2. /\ requested \subseteq Job /\ clients \subseteq Client
      /\ counts \in [Client -> [JobState -> Int]]
  BY DEF IInv, Typed
<1>3. /\ j \notin Waiting /\ Waiting' = Waiting \cup {j} /\ PendingJobs' = PendingJobs
      /\ requested' \ jobs' = requested \ jobs
  BY <1>1 DEF IInv, Past, Waiting, AnnouncedJobs, PendingJobs
<1>4. ASSUME NEW d \in clients'
      PROVE  Counted(counts'[d],
               ByState(Waiting', queued', PendingJobs', requested' \ jobs'), d)
  <2> DEFINE at == ByState(Waiting, queued, PendingJobs, requested \ jobs)
             next == ByState(Waiting', queued', PendingJobs', requested' \ jobs')
  <2>1. d \in Client /\ Counted(counts[d], at, d)
    BY <1>1, <1>2, CountedBefore
  <2>2. /\ at["WaitingForArtifacts"] = Waiting
        /\ next["WaitingForArtifacts"] = Waiting \cup {j}
        /\ next["Pending"] = at["Pending"]
        /\ next["Running"] = at["Running"]
        /\ next["Complete"] = at["Complete"]
    <3>1. next = ByState(Waiting \cup {j}, queued, PendingJobs, requested \ jobs)
      BY <1>1, <1>3
    <3> HIDE DEF next
    <3>2. QED
      BY <3>1, ByStateIs
  <2> HIDE DEF at, next
  <2>3. /\ "WaitingForArtifacts" \in JobState
        /\ \A s \in JobState \ {"WaitingForArtifacts"} : next[s] = at[s]
    BY <2>2 DEF JobState
  <2>4. Counted(counts'[d], next, d)
    BY <2>1, <2>2, <2>3, <1>1, <1>2, <1>3, OneMoreCounted
  <2>5. QED
    BY <2>4 DEF next
<1>5. QED
  BY <1>1, <1>2, <1>4, CountsMatchNext

\* The jobs stay where they are.
LEMMA SameJobsCounts ==
  ASSUME IInv, CountsMatch, clients' = clients, counts' = counts,
         requested' = requested, jobs' = jobs, queued' = queued,
         PendingJobs' = PendingJobs, Waiting' = Waiting
  PROVE  CountsMatch'
<1>1. requested \subseteq Job
  BY DEF IInv, Typed
<1>2. QED
  BY <1>1, CountedBefore, CountsMatchNext

LEMMA GathererAnnouncesCounts ==
  ASSUME IInv, CountsMatch, NEW kind, NEW J, GathererAnnounces(kind, J)
  PROVE  CountsMatch'
<1> DEFINE n == [kind |-> kind, jobs |-> J]
<1>1. /\ J \subseteq acquiring /\ acquiring' = acquiring \ J
      /\ announced' = announced \cup {n} /\ n.jobs = J
      /\ clients' = clients /\ counts' = counts /\ requested' = requested
      /\ jobs' = jobs /\ queued' = queued /\ pending' = pending
  BY DEF GathererAnnounces, schedVars
<1> HIDE DEF n
<1>2. AnnouncedJobs' = AnnouncedJobs \cup J
  BY <1>1 DEF AnnouncedJobs
<1>3. Waiting' = Waiting /\ PendingJobs' = PendingJobs
  BY <1>1, <1>2 DEF Waiting, PendingJobs
<1>4. QED
  BY <1>1, <1>3, SameJobsCounts

LEMMA JobsReadyCounts ==
  ASSUME IInv, CountsMatch, NEW m \in announced, JobsReady(m) PROVE CountsMatch'
<1> DEFINE live == LiveJobs(m)
           q == queued \cup live
           cs == Moved(counts, live, "WaitingForArtifacts", "Pending")
           run == UNION {pending[w] : w \in Worker}
<1>1. /\ PossiblyStartJobs(workers, pending, q, cs, atWorker, live)
      /\ clients' = clients /\ requested' = requested /\ jobs' = jobs
      /\ acquiring' = acquiring /\ announced' = announced \ {m}
  BY DEF JobsReady
<1>2. /\ requested \subseteq Job /\ clients \subseteq Client /\ workers \subseteq Worker
      /\ queued \subseteq Job /\ counts \in [Client -> [JobState -> Int]]
  BY DEF IInv, Typed
<1>3. "WaitingForArtifacts" \in JobState /\ "Pending" \in JobState
  BY DEF JobState
<1>4. /\ Waiting' = Waiting \ m.jobs /\ m.jobs \subseteq Waiting /\ m.jobs \subseteq Job
      /\ m.jobs \cap (queued \cup PendingJobs) = {} /\ live \subseteq m.jobs
  BY <1>1, TakeMessage
<1>5. q \in SUBSET Job /\ cs \in [Client -> [JobState -> Int]]
  BY <1>2, <1>3, <1>4, MovedType
<1>6. q \cap run = {} /\ run = PendingJobs
  BY <1>4 DEF IInv, JobInOnePlace, PendingJobs
<1>7. \A d \in clients : m.jobs \cap JobsOf(d) = live \cap JobsOf(d)
  BY DEF LiveJobs, JobsOf
<1> HIDE DEF run, live
<1>8. ASSUME NEW d \in clients'
      PROVE  Counted(counts'[d],
               ByState(Waiting', queued', PendingJobs', requested' \ jobs'), d)
  <2> DEFINE wait == Waiting'
             at == ByState(Waiting, queued, run, requested \ jobs)
             next == ByState(wait, q, run, requested \ jobs)
  <2>1. d \in Client /\ d \in clients /\ Counted(counts[d], at, d)
    BY <1>1, <1>2, <1>6, CountedBefore
  <2>2. /\ at["WaitingForArtifacts"] = Waiting /\ at["Pending"] = queued
        /\ at["Running"] = run /\ at["Complete"] = requested \ jobs
    BY ByStateIs
  <2> HIDE DEF wait
  <2>3. /\ next["WaitingForArtifacts"] = wait /\ next["Pending"] = q
        /\ next["Running"] = run /\ next["Complete"] = requested \ jobs
    BY ByStateIs
  <2> HIDE DEF at, next
  <2>4. wait \cap JobsOf(d) = (Waiting \ live) \cap JobsOf(d)
    BY <2>1, <1>4, <1>7 DEF wait
  <2>5. /\ live \cap JobsOf(d) \subseteq at["WaitingForArtifacts"]
        /\ live \cap JobsOf(d) \cap at["Pending"] = {}
        /\ next["WaitingForArtifacts"] \cap JobsOf(d)
             = (at["WaitingForArtifacts"] \ live) \cap JobsOf(d)
        /\ next["Pending"] \cap JobsOf(d) = (at["Pending"] \cup live) \cap JobsOf(d)
    BY <2>2, <2>3, <2>4, <1>4
  <2>6. \A s \in JobState \ {"WaitingForArtifacts", "Pending"} :
          next[s] \cap JobsOf(d) = at[s] \cap JobsOf(d)
    BY <2>2, <2>3 DEF JobState
  <2>7. Counted(cs[d], next, d)
    BY <2>1, <2>5, <2>6, <1>2, <1>3, MovedCounted
  <2> HIDE DEF cs, q
  <2>8. Counted(cs[d], ByState(Waiting', q, run, requested' \ jobs'), d)
    BY <2>7, <1>1 DEF next, wait
  <2>9. \A i : i \in run <=> \E w \in Worker : i \in pending[w]
    BY DEF run
  <2>10. /\ PossiblyStartJobs(workers, pending, q, cs, atWorker, live)
         /\ workers \in SUBSET Worker /\ q \cap run = {}
    BY <1>1, <1>2, <1>6
  <2>11. QED
    BY <2>1, <2>8, <2>9, <2>10, <1>5, StartCounted
<1>9. QED
  BY <1>1, <1>2, <1>8, CountsMatchNext

LEMMA JobsFailedCounts ==
  ASSUME IInv, CountsMatch, NEW m \in announced, JobsFailed(m) PROVE CountsMatch'
<1> DEFINE live == LiveJobs(m)
<1>1. /\ counts' = Moved(counts, live, "WaitingForArtifacts", "Complete")
      /\ clients' = clients /\ requested' = requested /\ jobs' = jobs \ live
      /\ acquiring' = acquiring /\ announced' = announced \ {m}
      /\ queued' = queued /\ pending' = pending
  BY DEF JobsFailed, Respond
<1>2. /\ requested \subseteq Job /\ clients \subseteq Client
      /\ counts \in [Client -> [JobState -> Int]]
  BY DEF IInv, Typed
<1>3. "WaitingForArtifacts" \in JobState /\ "Complete" \in JobState
  BY DEF JobState
<1>4. /\ Waiting' = Waiting \ m.jobs /\ m.jobs \subseteq Waiting
      /\ live \subseteq m.jobs /\ live \subseteq jobs /\ jobs \subseteq requested
  BY <1>1, TakeMessage DEF IInv, Past
<1>5. \A d \in clients : m.jobs \cap JobsOf(d) = live \cap JobsOf(d)
  BY DEF LiveJobs, JobsOf
<1>6. PendingJobs' = PendingJobs
  BY <1>1 DEF PendingJobs
<1> HIDE DEF live
<1>7. ASSUME NEW d \in clients'
      PROVE  Counted(counts'[d],
               ByState(Waiting', queued', PendingJobs', requested' \ jobs'), d)
  <2> DEFINE wait == Waiting'
             done == requested \ jobs
             over == requested' \ jobs'
             at == ByState(Waiting, queued, PendingJobs, done)
             next == ByState(wait, queued, PendingJobs, over)
  <2>1. d \in Client /\ d \in clients /\ Counted(counts[d], at, d)
    BY <1>1, <1>2, CountedBefore
  <2>2. wait \cap JobsOf(d) = (Waiting \ live) \cap JobsOf(d)
    BY <2>1, <1>4, <1>5
  <2>3. over = done \cup live /\ live \cap done = {}
    BY <1>1, <1>4
  <2> HIDE DEF wait, done, over
  <2>4. /\ at["WaitingForArtifacts"] = Waiting /\ at["Pending"] = queued
        /\ at["Running"] = PendingJobs /\ at["Complete"] = done
    BY ByStateIs
  <2>5. /\ next["WaitingForArtifacts"] = wait /\ next["Pending"] = queued
        /\ next["Running"] = PendingJobs /\ next["Complete"] = over
    BY ByStateIs
  <2> HIDE DEF at, next
  <2>6. /\ live \cap JobsOf(d) \subseteq at["WaitingForArtifacts"]
        /\ live \cap JobsOf(d) \cap at["Complete"] = {}
        /\ next["WaitingForArtifacts"] \cap JobsOf(d)
             = (at["WaitingForArtifacts"] \ live) \cap JobsOf(d)
        /\ next["Complete"] \cap JobsOf(d) = (at["Complete"] \cup live) \cap JobsOf(d)
    BY <2>2, <2>3, <2>4, <2>5, <1>4
  <2>7. \A s \in JobState \ {"WaitingForArtifacts", "Complete"} :
          next[s] \cap JobsOf(d) = at[s] \cap JobsOf(d)
    BY <2>4, <2>5 DEF JobState
  <2>8. Counted(counts'[d], next, d)
    BY <2>1, <2>6, <2>7, <1>1, <1>2, <1>3, MovedCounted
  <2>9. QED
    BY <2>8, <1>1, <1>6 DEF next, wait, over
<1>8. QED
  BY <1>1, <1>2, <1>7, CountsMatchNext

LEMMA WorkerConnectedCounts ==
  ASSUME IInv, CountsMatch, NEW v \in Worker, WorkerConnected(v) PROVE CountsMatch'
<1> DEFINE W == workers \cup {v}
           run == UNION {pending[w] : w \in Worker}
<1>1. /\ PossiblyStartJobs(W, pending, queued, counts, atWorker, {})
      /\ clients' = clients /\ requested' = requested /\ jobs' = jobs
      /\ acquiring' = acquiring /\ announced' = announced
  BY DEF WorkerConnected
<1>2. /\ requested \subseteq Job /\ clients \subseteq Client /\ W \in SUBSET Worker
      /\ queued \in SUBSET Job /\ counts \in [Client -> [JobState -> Int]]
  BY DEF IInv, Typed
<1>3. queued \cap run = {} /\ run = PendingJobs
  BY DEF IInv, JobInOnePlace, PendingJobs
<1>4. Waiting' = Waiting /\ requested' \ jobs' = requested \ jobs
  BY <1>1 DEF Waiting, AnnouncedJobs
<1> HIDE DEF run, W
<1>5. ASSUME NEW d \in clients'
      PROVE  Counted(counts'[d],
               ByState(Waiting', queued', PendingJobs', requested' \ jobs'), d)
  <2>1. /\ d \in Client
        /\ Counted(counts[d], ByState(Waiting', queued, run, requested' \ jobs'), d)
    BY <1>1, <1>2, <1>3, <1>4, CountedBefore
  <2>2. \A i : i \in run <=> \E w \in Worker : i \in pending[w]
    BY DEF run
  <2>3. QED
    BY <2>1, <2>2, <1>1, <1>2, <1>3, StartCounted
<1>6. QED
  BY <1>1, <1>2, <1>5, CountsMatchNext

LEMMA WorkerDisconnectedCounts ==
  ASSUME IInv, CountsMatch, NEW v \in Worker, WorkerDisconnected(v) PROVE CountsMatch'
<1> DEFINE lost == Requeued(v)
           W == workers \ {v}
           p == [pending EXCEPT ![v] = {}]
           aw == [atWorker EXCEPT ![v] = {}]
           q == queued \cup lost
           cs == Moved(counts, lost, "Running", "Pending")
           run == UNION {p[w] : w \in Worker}
<1>1. /\ PossiblyStartJobs(W, p, q, cs, aw, lost)
      /\ clients' = clients /\ requested' = requested /\ jobs' = jobs
      /\ acquiring' = acquiring /\ announced' = announced
  BY DEF WorkerDisconnected
<1>2. /\ requested \subseteq Job /\ clients \subseteq Client /\ W \in SUBSET Worker
      /\ queued \subseteq Job /\ counts \in [Client -> [JobState -> Int]]
      /\ pending \in [Worker -> SUBSET Job]
  BY DEF IInv, Typed
<1>3. "Running" \in JobState /\ "Pending" \in JobState
  BY DEF JobState
<1>4. lost = pending[v] /\ lost \subseteq PendingJobs /\ lost \in SUBSET Job
  BY <1>2 DEF Requeued, PendingJobs
<1>5. q \in SUBSET Job /\ cs \in [Client -> [JobState -> Int]]
  BY <1>2, <1>3, <1>4, MovedType
<1>6. run = PendingJobs \ lost
  <2>1. \A w \in Worker : p[w] = IF w = v THEN {} ELSE pending[w]
    BY <1>2
  <2>2. \A w \in Worker : w # v => pending[w] \cap lost = {}
    BY <1>4 DEF IInv, JobInOnePlace
  <2> HIDE DEF p, lost
  <2>3. QED
    BY <2>1, <2>2, <1>4 DEF PendingJobs
<1>7. q \cap run = {} /\ lost \cap queued = {}
  BY <1>4, <1>6 DEF IInv, JobInOnePlace
<1>8. Waiting' = Waiting /\ requested' \ jobs' = requested \ jobs
  BY <1>1 DEF Waiting, AnnouncedJobs
<1>9. \A i : i \in run <=> \E w \in Worker : i \in p[w]
  OBVIOUS
<1> HIDE DEF run, lost, W, p, aw
<1>10. ASSUME NEW d \in clients'
       PROVE  Counted(counts'[d],
                ByState(Waiting', queued', PendingJobs', requested' \ jobs'), d)
  <2> DEFINE at == ByState(Waiting, queued, PendingJobs, requested \ jobs)
             next == ByState(Waiting, q, run, requested \ jobs)
  <2>1. d \in Client /\ Counted(counts[d], at, d)
    BY <1>1, <1>2, CountedBefore
  <2>2. /\ at["WaitingForArtifacts"] = Waiting /\ at["Pending"] = queued
        /\ at["Running"] = PendingJobs /\ at["Complete"] = requested \ jobs
    BY ByStateIs
  <2>3. /\ next["WaitingForArtifacts"] = Waiting /\ next["Pending"] = q
        /\ next["Running"] = run /\ next["Complete"] = requested \ jobs
    BY ByStateIs
  <2> HIDE DEF at, next
  <2>4. /\ lost \cap JobsOf(d) \subseteq at["Running"]
        /\ lost \cap JobsOf(d) \cap at["Pending"] = {}
        /\ next["Running"] \cap JobsOf(d) = (at["Running"] \ lost) \cap JobsOf(d)
        /\ next["Pending"] \cap JobsOf(d) = (at["Pending"] \cup lost) \cap JobsOf(d)
    BY <2>2, <2>3, <1>4, <1>6, <1>7
  <2>5. \A s \in JobState \ {"Running", "Pending"} :
          next[s] \cap JobsOf(d) = at[s] \cap JobsOf(d)
    BY <2>2, <2>3 DEF JobState
  <2>6. Counted(cs[d], next, d)
    BY <2>1, <2>4, <2>5, <1>2, <1>3, MovedCounted
  <2> HIDE DEF cs, q
  <2>7. Counted(cs[d], ByState(Waiting', q, run, requested' \ jobs'), d)
    BY <2>6, <1>8 DEF next
  <2>8. QED
    BY <2>1, <2>7, <1>1, <1>2, <1>5, <1>7, <1>9, StartCounted
<1>11. QED
  BY <1>1, <1>2, <1>10, CountsMatchNext

LEMMA JobResponseCounts ==
  ASSUME IInv, CountsMatch, NEW v \in Worker, NEW j \in Job, JobResponse(v, j)
  PROVE  CountsMatch'
<1> DEFINE J == {j}
           cs == Moved(counts, J, "Running", "Complete")
           run == PendingJobs \ J
           done == (requested \ jobs) \cup J
<1>1. /\ clients' = clients /\ requested' = requested /\ jobs' = jobs \ J
      /\ acquiring' = acquiring /\ announced' = announced
      /\ v \in workers /\ j \in pending[v]
  BY DEF JobResponse, Respond
<1>2. /\ requested \subseteq Job /\ clients \subseteq Client /\ queued \subseteq Job
      /\ counts \in [Client -> [JobState -> Int]]
      /\ pending \in [Worker -> SUBSET Job]
  BY DEF IInv, Typed
<1>3. "Running" \in JobState /\ "Pending" \in JobState /\ "Complete" \in JobState
  BY DEF JobState
<1>4. j \in PendingJobs /\ j \in jobs /\ j \in requested
  BY <1>1 DEF PendingJobs, IInv, NoDanglingJob, Past
<1>5. cs \in [Client -> [JobState -> Int]]
  BY <1>2, <1>3, MovedType
<1>6. Waiting' = Waiting /\ requested' \ jobs' = done
  BY <1>1, <1>4 DEF Waiting, AnnouncedJobs
<1> HIDE DEF cs, run, done, J
<1>7. ASSUME NEW d \in clients
      PROVE  d \in Client /\ Counted(cs[d], ByState(Waiting, queued, run, done), d)
  <2> DEFINE before == requested \ jobs
             at == ByState(Waiting, queued, PendingJobs, before)
             next == ByState(Waiting, queued, run, done)
  <2>1. d \in Client /\ Counted(counts[d], at, d)
    BY <1>2, CountedBefore
  <2>2. J \cap before = {} /\ done = before \cup J
    BY <1>4 DEF done, J
  <2> HIDE DEF before
  <2>3. /\ at["WaitingForArtifacts"] = Waiting /\ at["Pending"] = queued
        /\ at["Running"] = PendingJobs /\ at["Complete"] = before
    BY ByStateIs
  <2>4. /\ next["WaitingForArtifacts"] = Waiting /\ next["Pending"] = queued
        /\ next["Running"] = run /\ next["Complete"] = done
    BY ByStateIs
  <2> HIDE DEF at, next
  <2>5. J \subseteq PendingJobs /\ run = PendingJobs \ J
    BY <1>4 DEF J, run
  <2>6. /\ J \cap JobsOf(d) \subseteq at["Running"]
        /\ J \cap JobsOf(d) \cap at["Complete"] = {}
        /\ next["Running"] \cap JobsOf(d) = (at["Running"] \ J) \cap JobsOf(d)
        /\ next["Complete"] \cap JobsOf(d) = (at["Complete"] \cup J) \cap JobsOf(d)
    BY <2>2, <2>3, <2>4, <2>5
  <2>7. \A s \in JobState \ {"Running", "Complete"} :
          next[s] \cap JobsOf(d) = at[s] \cap JobsOf(d)
    BY <2>3, <2>4 DEF JobState
  <2>8. Counted(cs[d], next, d)
    BY <2>1, <2>6, <2>7, <1>2, <1>3, MovedCounted DEF cs
  <2>9. QED
    BY <2>1, <2>8 DEF next
<1>8. CASE \E k \in NextQueued :
             /\ queued' = Taken(k)
             /\ pending' = [pending EXCEPT ![v] = (@ \ {j}) \cup {k}]
             /\ counts' = Moved(cs, {k}, "Pending", "Running")
  <2>1. PICK k \in NextQueued :
          /\ queued' = Taken(k)
          /\ pending' = [pending EXCEPT ![v] = (@ \ {j}) \cup {k}]
          /\ counts' = Moved(cs, {k}, "Pending", "Running")
    BY <1>8
  <2> DEFINE K == {k}
  <2>2. k \in queued /\ queued' = queued \ K /\ k \notin run
    BY <2>1 DEF NextQueued, Taken, run, IInv, JobInOnePlace
  <2>3. PendingJobs' = run \cup K
    <3>1. /\ pending'[v] = (pending[v] \ J) \cup K
          /\ \A w \in Worker : w # v => pending'[w] = pending[w] /\ j \notin pending[w]
      BY <2>1, <1>1, <1>2 DEF J, IInv, JobInOnePlace
    <3> HIDE DEF K
    <3>2. \A w \in Worker : pending'[w] = (pending[w] \ J) \cup IF w = v THEN K ELSE {}
      BY <3>1 DEF J
    <3>3. QED
      BY <3>2 DEF PendingJobs, run
  <2>4. counts' = Moved(cs, K, "Pending", "Running")
    BY <2>1
  <2>5. K \subseteq queued /\ K \cap run = {}
    BY <2>2
  <2> HIDE DEF K
  <2>6. ASSUME NEW d \in clients'
        PROVE  Counted(counts'[d],
                 ByState(Waiting', queued', PendingJobs', requested' \ jobs'), d)
    <3> DEFINE q == queued'
               now == PendingJobs'
               at == ByState(Waiting, queued, run, done)
               next == ByState(Waiting, q, now, done)
    <3>1. d \in Client /\ Counted(cs[d], at, d)
      BY <1>1, <1>7
    <3>2. q = queued \ K /\ now = run \cup K
      BY <2>2, <2>3
    <3> HIDE DEF q, now
    <3>3. /\ at["WaitingForArtifacts"] = Waiting /\ at["Pending"] = queued
          /\ at["Running"] = run /\ at["Complete"] = done
      BY ByStateIs
    <3>4. /\ next["WaitingForArtifacts"] = Waiting /\ next["Pending"] = q
          /\ next["Running"] = now /\ next["Complete"] = done
      BY ByStateIs
    <3> HIDE DEF at, next
    <3>5. /\ K \cap JobsOf(d) \subseteq at["Pending"]
          /\ K \cap JobsOf(d) \cap at["Running"] = {}
          /\ next["Pending"] \cap JobsOf(d) = (at["Pending"] \ K) \cap JobsOf(d)
          /\ next["Running"] \cap JobsOf(d) = (at["Running"] \cup K) \cap JobsOf(d)
      BY <2>5, <3>2, <3>3, <3>4
    <3>6. \A s \in JobState \ {"Pending", "Running"} :
            next[s] \cap JobsOf(d) = at[s] \cap JobsOf(d)
      BY <3>3, <3>4 DEF JobState
    <3>7. Counted(counts'[d], next, d)
      BY <2>4, <3>1, <3>5, <3>6, <1>3, <1>5, MovedCounted
    <3>8. QED
      BY <3>7, <1>6 DEF next, q, now
  <2>7. QED
    BY <2>6, <1>1, <1>2, CountsMatchNext
<1>9. CASE /\ queued' = queued
           /\ pending' = [pending EXCEPT ![v] = @ \ {j}]
           /\ counts' = cs
  <2>1. PendingJobs' = run
    <3>1. \A w \in Worker : pending'[w] = pending[w] \ J
      BY <1>9, <1>1, <1>2 DEF J, IInv, JobInOnePlace
    <3>2. QED
      BY <3>1 DEF PendingJobs, run
  <2>2. QED
    BY <2>1, <1>1, <1>2, <1>6, <1>7, <1>9, CountsMatchNext
<1>10. QED
  BY <1>8, <1>9 DEF JobResponse, cs, J

\* Every action keeps the counts exact.
LEMMA StepCounts == IInv /\ CountsMatch /\ [Next]_vars => CountsMatch'
<1> SUFFICES ASSUME IInv, CountsMatch, [Next]_vars PROVE CountsMatch'
  OBVIOUS
<1>1. CASE \E c \in Client : ClientConnected(c) \/ ClientDisconnected(c)
  BY <1>1, ClientConnectedCounts, ClientDisconnectedCounts
<1>2. CASE \E j \in Job : JobRequestReady(j) \/ JobRequestNotReady(j)
  BY <1>2, JobRequestReadyCounts, JobRequestNotReadyCounts
<1>3. CASE \E kind \in {"ready", "failed"}, J \in SUBSET acquiring :
             GathererAnnounces(kind, J)
  BY <1>3, GathererAnnouncesCounts
<1>4. CASE \E m \in announced : JobsReady(m) \/ JobsFailed(m)
  BY <1>4, JobsReadyCounts, JobsFailedCounts
<1>5. CASE \E w \in Worker : WorkerConnected(w) \/ WorkerDisconnected(w)
  BY <1>5, WorkerConnectedCounts, WorkerDisconnectedCounts
<1>6. CASE \E w \in Worker, j \in Job : JobResponse(w, j)
  BY <1>6, JobResponseCounts
<1>7. CASE \/ \E w \in Worker, j \in Job : StaleJobResponse(w, j) \/ JobStatusUpdate(w, j)
           \/ UNCHANGED vars
  <2>1. UNCHANGED schedVars /\ UNCHANGED <<requested, acquiring, announced>>
    BY <1>7 DEF StaleJobResponse, JobStatusUpdate, vars, envVars
  <2>2. /\ clients' = clients /\ counts' = counts /\ requested' = requested
        /\ jobs' = jobs /\ queued' = queued /\ PendingJobs' = PendingJobs
        /\ Waiting' = Waiting
    BY <2>1 DEF schedVars, PendingJobs, Waiting, AnnouncedJobs
  <2>3. QED
    BY <2>2, SameJobsCounts
<1>8. QED
  BY <1>1, <1>2, <1>3, <1>4, <1>5, <1>6, <1>7 DEF Next

\* The counts a client's monitor is shown are those of its jobs in each state,
\* however its jobs are started, lost with a worker, answered or failed.
THEOREM CountsAreExact == Spec => []CountsMatch
<1>1. Init => CountsMatch
  BY DEF Init, CountsMatch
<1>2. QED
  BY <1>1, StepCounts, Invariance, PTL DEF Spec

(***************************************************************************)
(* The counts are never negative: those of a connected client are numbers  *)
(* of jobs, and those of any other client stay at zero.                    *)
(***************************************************************************)
NotCounted == \A c \in Client \ clients : counts[c] = NoCounts

\* Jobs of other clients than c move.
LEMMA MovedElsewhere ==
  ASSUME NEW cs \in [Client -> [JobState -> Int]], NEW J, NEW c \in Client,
         J \cap JobsOf(c) = {}, NEW from \in JobState, NEW to \in JobState
  PROVE  Moved(cs, J, from, to)[c] = cs[c]
<1>1. Cardinality(J \cap JobsOf(c)) = 0
  BY FS_EmptySet
<1>2. ASSUME NEW n, n = 0 PROVE [cs[c] EXCEPT ![from] = @ - n, ![to] = @ + n] = cs[c]
  BY <1>2
<1>3. QED
  BY <1>1, <1>2 DEF Moved

\* So they do when queued jobs of connected clients are started.
LEMMA StartedElsewhere ==
  ASSUME NEW W, NEW p, NEW q, NEW cs \in [Client -> [JobState -> Int]], NEW aw,
         NEW fresh, PossiblyStartJobs(W, p, q, cs, aw, fresh),
         NEW c \in Client, q \cap JobsOf(c) = {}
  PROVE  counts'[c] = cs[c]
<1>1. PICK f \in Placements(W, p, q) : counts' = Moved(cs, DOMAIN f, "Pending", "Running")
  BY DEF PossiblyStartJobs
<1>2. DOMAIN f \cap JobsOf(c) = {}
  BY PlacementFacts
<1>3. QED
  BY <1>1, <1>2, MovedElsewhere DEF JobState

\* No action counts a job of a client that is not connected.
LEMMA StepNotCounted == IInv /\ NotCounted /\ [Next]_vars => NotCounted'
<1> SUFFICES ASSUME IInv, NotCounted, [Next]_vars, NEW d \in Client, d \notin clients'
             PROVE  counts'[d] = NoCounts
  BY DEF NotCounted
<1>1. /\ counts \in [Client -> [JobState -> Int]]
      /\ d \notin clients => counts[d] = NoCounts
      /\ d \notin clients => jobs \cap JobsOf(d) = {}
      /\ queued \cup PendingJobs \subseteq jobs
      /\ \A c, e \in Client : c # e => JobsOf(c) \cap JobsOf(e) = {}
  BY DEF IInv, Typed, NotCounted, NoDanglingJob, JobsOf
<1>2. ASSUME NEW c \in Client, ClientConnected(c) PROVE counts'[d] = NoCounts
  BY <1>1, <1>2 DEF ClientConnected
<1>3. ASSUME NEW c \in Client, ClientDisconnected(c) PROVE counts'[d] = NoCounts
  <2> DEFINE p == [w \in Worker |-> pending[w] \ JobsOf(c)]
             q == queued \ JobsOf(c)
             cs == [counts EXCEPT ![c] = NoCounts]
  <2>1. PossiblyStartJobs(workers, p, q, cs, atWorker, {}) /\ clients' = clients \ {c}
    BY <1>3 DEF ClientDisconnected
  <2>2. cs \in [Client -> [JobState -> Int]] /\ cs[d] = NoCounts
    BY <1>1, <2>1 DEF NoCounts
  <2>3. q \cap JobsOf(d) = {}
    BY <1>1, <2>1
  <2> HIDE DEF p, q, cs
  <2>4. QED
    BY <2>1, <2>2, <2>3, StartedElsewhere
<1>4. ASSUME NEW j \in Job, JobRequestReady(j) PROVE counts'[d] = NoCounts
  <2> DEFINE q == queued \cup {j}
             cs == [counts EXCEPT ![Owner[j]]["Pending"] = @ + 1]
  <2>1. /\ PossiblyStartJobs(workers, pending, q, cs, atWorker, {j})
        /\ clients' = clients /\ Owner[j] \in clients
    BY <1>4 DEF JobRequestReady
  <2>2. cs \in [Client -> [JobState -> Int]] /\ cs[d] = counts[d]
    <3>1. ASSUME NEW n \in [JobState -> Int] PROVE [n EXCEPT !["Pending"] = @ + 1] \in [JobState -> Int]
      BY DEF JobState
    <3>2. Owner[j] \in Client /\ Owner[j] # d
      BY <2>1, OwnerAssumption
    <3>3. QED
      BY <1>1, <3>1, <3>2
  <2>3. q \cap JobsOf(d) = {}
    BY <1>1, <2>1 DEF JobsOf
  <2> HIDE DEF q, cs
  <2>4. QED
    BY <1>1, <2>1, <2>2, <2>3, StartedElsewhere
<1>5. ASSUME NEW j \in Job, JobRequestNotReady(j) PROVE counts'[d] = NoCounts
  BY <1>1, <1>5 DEF JobRequestNotReady
<1>6. ASSUME NEW kind, NEW J, GathererAnnounces(kind, J) PROVE counts'[d] = NoCounts
  BY <1>1, <1>6 DEF GathererAnnounces, schedVars
<1>7. ASSUME NEW m \in announced, JobsReady(m) PROVE counts'[d] = NoCounts
  <2> DEFINE live == LiveJobs(m)
             q == queued \cup live
             cs == Moved(counts, live, "WaitingForArtifacts", "Pending")
  <2>1. PossiblyStartJobs(workers, pending, q, cs, atWorker, live) /\ clients' = clients
    BY <1>7 DEF JobsReady
  <2>2. live \cap JobsOf(d) = {} /\ live \in SUBSET Job
    BY <2>1 DEF LiveJobs, JobsOf, IInv, Typed, Announcement
  <2>3. q \cap JobsOf(d) = {}
    BY <1>1, <2>1, <2>2
  <2> HIDE DEF live, q
  <2>4. cs \in [Client -> [JobState -> Int]]
    BY <1>1, <2>2, MovedType DEF JobState
  <2>5. cs[d] = counts[d]
    BY <1>1, <2>2, MovedElsewhere DEF JobState
  <2> HIDE DEF cs
  <2>6. QED
    BY <1>1, <2>1, <2>3, <2>4, <2>5, StartedElsewhere
<1>8. ASSUME NEW m \in announced, JobsFailed(m) PROVE counts'[d] = NoCounts
  <2>1. /\ counts' = Moved(counts, LiveJobs(m), "WaitingForArtifacts", "Complete")
        /\ clients' = clients
    BY <1>8 DEF JobsFailed
  <2>2. LiveJobs(m) \cap JobsOf(d) = {}
    BY <2>1 DEF LiveJobs, JobsOf
  <2>3. QED
    BY <1>1, <2>1, <2>2, MovedElsewhere DEF JobState
<1>9. ASSUME NEW w \in Worker, WorkerConnected(w) PROVE counts'[d] = NoCounts
  <2>1. /\ PossiblyStartJobs(workers \cup {w}, pending, queued, counts, atWorker, {})
        /\ clients' = clients
    BY <1>9 DEF WorkerConnected
  <2>2. QED
    BY <1>1, <2>1, StartedElsewhere
<1>10. ASSUME NEW w \in Worker, WorkerDisconnected(w) PROVE counts'[d] = NoCounts
  <2> DEFINE lost == Requeued(w)
             W == workers \ {w}
             p == [pending EXCEPT ![w] = {}]
             q == queued \cup lost
             cs == Moved(counts, lost, "Running", "Pending")
             aw == [atWorker EXCEPT ![w] = {}]
  <2>1. PossiblyStartJobs(W, p, q, cs, aw, lost) /\ clients' = clients
    BY <1>10 DEF WorkerDisconnected
  <2>2. lost \subseteq PendingJobs /\ lost \in SUBSET Job
    BY DEF Requeued, PendingJobs, IInv, Typed
  <2>3. lost \cap JobsOf(d) = {} /\ q \cap JobsOf(d) = {}
    BY <1>1, <2>1, <2>2
  <2> HIDE DEF lost, W, p, q, aw
  <2>4. cs \in [Client -> [JobState -> Int]]
    BY <1>1, <2>2, MovedType DEF JobState
  <2>5. cs[d] = counts[d]
    BY <1>1, <2>3, MovedElsewhere DEF JobState
  <2> HIDE DEF cs
  <2>6. QED
    BY <1>1, <2>1, <2>3, <2>4, <2>5, StartedElsewhere
<1>11. ASSUME NEW w \in Worker, NEW j \in Job, JobResponse(w, j)
       PROVE  counts'[d] = NoCounts
  <2>1. PICK done : /\ done = Moved(counts, {j}, "Running", "Complete")
                    /\ j \in pending[w] /\ clients' = clients
                    /\ \/ \E k \in NextQueued : counts' = Moved(done, {k}, "Pending", "Running")
                       \/ counts' = done
    BY <1>11 DEF JobResponse
  <2>2. {j} \cap JobsOf(d) = {}
    BY <1>1, <2>1 DEF PendingJobs
  <2>3. done \in [Client -> [JobState -> Int]] /\ done[d] = NoCounts
    <3> DEFINE J == {j}
    <3>1. J \in SUBSET Job /\ J \cap JobsOf(d) = {} /\ d \notin clients
      BY <2>1, <2>2
    <3> HIDE DEF J
    <3>2. Moved(counts, J, "Running", "Complete") \in [Client -> [JobState -> Int]]
      BY <1>1, <3>1, MovedType DEF JobState
    <3>3. Moved(counts, J, "Running", "Complete")[d] = counts[d]
      BY <1>1, <3>1, MovedElsewhere DEF JobState
    <3>4. QED
      BY <1>1, <2>1, <3>1, <3>2, <3>3 DEF J
  <2>4. CASE counts' = done
    BY <2>3, <2>4
  <2>5. ASSUME NEW k \in NextQueued, counts' = Moved(done, {k}, "Pending", "Running")
        PROVE  counts'[d] = NoCounts
    <3>1. {k} \cap JobsOf(d) = {}
      BY <1>1, <2>1 DEF NextQueued
    <3>2. QED
      BY <2>3, <2>5, <3>1, MovedElsewhere DEF JobState
  <2>6. QED
    BY <2>1, <2>4, <2>5
<1>12. CASE \/ \E w \in Worker, j \in Job : StaleJobResponse(w, j) \/ JobStatusUpdate(w, j)
            \/ UNCHANGED vars
  BY <1>1, <1>12 DEF StaleJobResponse, JobStatusUpdate, vars, schedVars
<1>13. QED
  BY <1>2, <1>3, <1>4, <1>5, <1>6, <1>7, <1>8, <1>9, <1>10, <1>11, <1>12 DEF Next

\* Every variable keeps its type: above all, no unsigned count of a client's
\* jobs is ever taken below zero.
THEOREM TypeCorrect == Spec => []TypeOK
<1>1. Init => NotCounted
  BY DEF Init, NotCounted
<1>2. ASSUME IInv, CountsMatch, NotCounted PROVE TypeOK
  <2>1. ASSUME NEW c \in Client, NEW s \in JobState PROVE counts[c][s] \in Nat
    <3>1. CASE c \in clients
      <4>1. Counted(counts[c], ByState(Waiting, queued, PendingJobs, requested \ jobs), c)
        BY <1>2, <3>1, CountedBefore
      <4>2. /\ counts[c][s] = Cardinality(ByState(Waiting, queued, PendingJobs, requested \ jobs)[s]
                                          \cap JobsOf(c))
            /\ IsFiniteSet(JobsOf(c))
        BY <4>1, JobAssumption, FS_Subset DEF Counted, JobsOf
      <4>3. QED
        BY <4>2, FS_Subset, FS_CardinalityType
    <3>2. CASE c \notin clients
      BY <1>2, <2>1, <3>2 DEF NotCounted, NoCounts
    <3>3. QED
      BY <3>1, <3>2
  <2>2. counts \in [Client -> [JobState -> Nat]]
    BY <1>2, <2>1 DEF IInv, Typed
  <2>3. QED
    BY <1>2, <2>2 DEF IInv, Typed, TypeOK
<1>3. QED
  BY <1>1, <1>2, StepNotCounted, CountsAreExact, Invariance, PTL DEF Spec
=============================================================================
