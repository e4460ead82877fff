----------------------------- MODULE WorkerHeap -----------------------------
(***************************************************************************)
(* How the scheduler finds the least loaded worker: the heap of            *)
(*   crates/maelstrom-util/src/heap.rs                                     *)
(* as scheduler.rs uses it.  Scheduler takes the minimum; here is the      *)
(* array, whose order the scheduler disturbs whenever it changes the       *)
(* number of a worker's pending jobs, and the index that each worker keeps *)
(* of its own place, with which it tells the heap.                         *)
(*                                                                         *)
(* Of the scheduler's state only what the heap sees is left: how many jobs *)
(* are queued, and how many are pending at each worker.  One action is one *)
(* handler, with all of its calls of the heap.  Indices start at 1.        *)
(***************************************************************************)
EXTENDS StartOrder, Sequences, SequencesExt, FiniteSetsExt

CONSTANTS
  MaxJobs,  \* bound: jobs queued and pending at a time
  FewUnits  \* bound: units free where every placement of jobs is compared

ASSUME HeapAssumption == MaxJobs \in Nat /\ FewUnits \in Nat

VARIABLES
  vended,   \* how many workers have connected: ids are vended in order
  workers,  \* the keys of Scheduler::workers
  load,     \* the length of Worker::pending
  queue,    \* the length of Scheduler::queued_jobs
  heap,     \* Scheduler::worker_heap
  index     \* Worker::heap_index

vars == <<vended, workers, load, queue, heap, index>>

(***************************************************************************)
(* The heap's methods, on a record h of heap, index and load.              *)
(***************************************************************************)
Now == [heap |-> heap, index |-> index, load |-> load]

\* WorkerMap::is_element_less_than
Less(h, w, x) == UnitBefore(<<w, h.load[w]>>, <<x, h.load[x]>>)

\* update_index: the worker at place i is told so.
Placed(h, i) == [h EXCEPT !.index[h.heap[i]] = i]

Swapped(h, i, k) == [h EXCEPT !.heap[i] = h.heap[k], !.heap[k] = h.heap[i]]

\* sift_up_internal: the heap, and where the element at i has got to.
RECURSIVE SiftedUp(_, _)
SiftedUp(h, i) ==
  LET parent == i \div 2 IN
  IF i = 1 \/ ~Less(h, h.heap[i], h.heap[parent]) THEN [h |-> h, at |-> i]
  ELSE SiftedUp(Placed(Swapped(h, parent, i), i), parent)

\* The lesser of the children of i, the right one if they are equal.
LesserChild(h, i) ==
  IF 2 * i < Len(h.heap) /\ ~Less(h, h.heap[2 * i], h.heap[2 * i + 1])
  THEN 2 * i + 1 ELSE 2 * i

\* sift_down_internal
RECURSIVE SiftedDown(_, _, _)
SiftedDown(h, i, tell) ==
  LET child == LesserChild(h, i)
      swapped == Swapped(h, child, i)
  IN
  IF 2 * i > Len(h.heap) \/ ~Less(h, h.heap[child], h.heap[i])
  THEN [h |-> h, at |-> i]
  ELSE SiftedDown(IF tell THEN Placed(swapped, i) ELSE swapped, child, tell)

Push(h, w) ==
  LET up == SiftedUp([h EXCEPT !.heap = Append(@, w)], Len(h.heap) + 1)
  IN  Placed(up.h, up.at)

SiftUp(h, i) == LET up == SiftedUp(h, i) IN Placed(up.h, up.at)

SiftDown(h, i) == LET down == SiftedDown(h, i, TRUE) IN Placed(down.h, down.at)

SwapRemove(s, i) == Front([s EXCEPT ![i] = Last(s)])

RemoveAtIndex_OnlyDown(h, i) ==
  LET less == [h EXCEPT !.heap = SwapRemove(@, i)]
      down == SiftedDown(less, i, TRUE)
  IN  IF i > Len(less.heap) THEN less ELSE Placed(down.h, down.at)

\* remove: the last element takes the place, and goes up or down from there.
RemoveAtIndex(h, i) ==
  LET less == [h EXCEPT !.heap = SwapRemove(@, i)]
      up == SiftedUp(less, i)
      moved == IF up.at = i THEN SiftedDown(up.h, i, TRUE) ELSE up
  IN  IF i > Len(less.heap) THEN less ELSE Placed(moved.h, moved.at)

Rebuild(h) ==
  LET half == [i \in 1 .. Len(h.heap) \div 2 |-> i]
      built == FoldRight(LAMBDA i, g : SiftedDown(g, i, FALSE).h, half, h)
  IN  FoldLeft(Placed, built, [i \in DOMAIN h.heap |-> i])

-----------------------------------------------------------------------------
\* possibly_start_jobs with n jobs in the queue: the heap and the jobs left.
RECURSIVE Started(_, _)
Started(h, n) ==
  IF n = 0 \/ h.heap = <<>> THEN [h |-> h, left |-> n]
  ELSE LET w == Head(h.heap) IN
       IF h.load[w] = 2 * Slots[w] THEN [h |-> h, left |-> n]
       ELSE Started(SiftDown([h EXCEPT !.load[w] = @ + 1], h.index[w]), n - 1)

\* The handler ends with possibly_start_jobs, from h and n queued jobs.
StartJobs(h, n) ==
  LET s == Started(h, n) IN
  heap' = s.h.heap /\ index' = s.h.index /\ load' = s.h.load /\ queue' = s.left

Jobs == queue + MapThenSumSet(LAMBDA w : load[w], workers)

Init ==
  /\ vended = 0 /\ workers = {} /\ queue = 0 /\ heap = <<>>
  /\ load = [w \in Worker |-> 0] /\ index = [w \in Worker |-> 1]

\* receive_worker_connected
WorkerConnected ==
  LET w == vended + 1 IN
  /\ w \in Worker
  /\ vended' = w /\ workers' = workers \cup {w}
  /\ StartJobs(Push(Now, w), queue)

\* receive_worker_disconnected
WorkerDisconnected(w) ==
  /\ w \in workers
  /\ workers' = workers \ {w}
  /\ StartJobs([RemoveAtIndex(Now, index[w]) EXCEPT !.load[w] = 0, !.index[w] = 1],
               queue + load[w])
  /\ UNCHANGED vended

\* receive_job_request_from_client, or receive_jobs_ready_from_artifact_gatherer
\* for n jobs
JobsReady(n) ==
  /\ Jobs + n <= MaxJobs
  /\ StartJobs(Now, queue + n)
  /\ UNCHANGED <<vended, workers>>

JobResponse_NoSift(w) ==
  /\ w \in workers /\ load[w] > 0
  /\ IF queue > 0 THEN queue' = queue - 1 /\ UNCHANGED <<heap, index, load>>
     ELSE load' = [load EXCEPT ![w] = @ - 1] /\ UNCHANGED <<heap, index, queue>>
  /\ UNCHANGED <<vended, workers>>

\* receive_job_response_from_worker for a pending job: a queued job takes its
\* place, or the worker's load is less.
JobResponse(w) ==
  LET h == SiftUp([Now EXCEPT !.load[w] = @ - 1], index[w]) IN
  /\ w \in workers /\ load[w] > 0
  /\ IF queue > 0 THEN queue' = queue - 1 /\ UNCHANGED <<heap, index, load>>
     ELSE heap' = h.heap /\ index' = h.index /\ load' = h.load /\ UNCHANGED queue
  /\ UNCHANGED <<vended, workers>>

\* receive_client_disconnected for a client with lost[w] jobs at worker w and n
\* in the queue
ClientDisconnected(lost, n) ==
  /\ StartJobs(Rebuild([Now EXCEPT !.load = [w \in Worker |->
                  IF w \in DOMAIN lost THEN @[w] - lost[w] ELSE @[w]]]),
               queue - n)
  /\ UNCHANGED <<vended, workers>>

Next ==
  \/ WorkerConnected
  \/ \E w \in Worker : WorkerDisconnected(w) \/ JobResponse(w)
  \/ \E n \in 1 .. MaxJobs : JobsReady(n)
  \/ \E lost \in [{w \in workers : load[w] > 0} -> 0 .. MaxJobs], n \in 0 .. queue :
       /\ \A w \in DOMAIN lost : lost[w] <= load[w]
       /\ ClientDisconnected(lost, n)

Spec == Init /\ [][Next]_vars

-----------------------------------------------------------------------------
\* The heap has each worker once, no worker is less loaded than its parent, and
\* every worker knows its place, whatever the handlers did to the loads: an
\* index that is stale would sift another worker the next time.
HeapOrdered ==
  /\ ToSet(heap) = workers /\ Len(heap) = Cardinality(workers)
  /\ \A i \in 2 .. Len(heap) : Less(Now, heap[i \div 2], heap[i])
  /\ \A i \in DOMAIN heap : index[heap[i]] = i

\* The first n units of a set, in order.
FirstUnits(free, n) ==
  {u \in free : Cardinality({v \in free : UnitBefore(v, u)}) < n}

\* The jobs pending at each worker, whichever they are.
PendingNow == [w \in Worker |-> (1 .. load[w]) \X {w}]

\* Jobs that became ready now would go where Scheduler's FreeUnits send them:
\* whatever the handlers did before, the loop of possibly_start_jobs over the
\* heap gives each job to the worker that is least loaded then, and none to a
\* worker with twice as many as its slots.
StartsAtTheLeastLoaded ==
  LET free == FreeUnits(workers, PendingNow) IN
  \A n \in 1 .. Cardinality(Job) :
    LET first == FirstUnits(free, n) IN
    Started(Now, n).h.load =
      [w \in Worker |-> load[w] + Cardinality({u \in first : u[1] = w})]

\* possibly_start_jobs with the jobs q in the queue, which pops equals in any
\* order: where each job may end up.
RECURSIVE StartLoop(_, _, _)
StartLoop(h, q, f) ==
  LET w == Head(h.heap)
      next == {j \in q : \A k \in q : ~Before(k, j)}
      sifted == SiftDown([h EXCEPT !.load[w] = @ + 1], h.index[w])
  IN
  IF q = {} \/ h.heap = <<>> \/ h.load[w] = 2 * Slots[w] THEN {f}
  ELSE UNION {StartLoop(sifted, q \ {j}, f @@ (j :> <<w, h.load[w]>>)) : j \in next}

\* The outcomes that Scheduler takes in one step are those of the loop, for
\* every queue, from any heap with few units free.
StartsLikeTheLoop ==
  Cardinality(FreeUnits(workers, PendingNow)) <= FewUnits =>
    \A q \in SUBSET Job :
      Placements(workers, PendingNow, q) = StartLoop(Now, q, <<>>)
=============================================================================
