----------------------------- MODULE StartOrder -----------------------------
(***************************************************************************)
(* Which queued jobs the scheduler starts, and where: the two orders of    *)
(*   crates/maelstrom-broker/src/scheduler_task/scheduler.rs               *)
(* and the outcome of possibly_start_jobs.  Scheduler takes its steps with *)
(* Placements; WorkerHeap has the loop over the heap and is compared with  *)
(* them.                                                                   *)
(*                                                                         *)
(* A definition named D_Slip, just before D, is D with a plausible slip;   *)
(* no behaviour uses it, PROJECT.json lists the property it would break.   *)
(***************************************************************************)
EXTENDS Integers, FiniteSets

CONSTANTS
  Worker,             \* worker ids, numbers as in the code: they break ties
  Slots,              \* the number of slots a worker announces
  Job,                \* job ids: a client id and that client's job id
  Priority,           \* JobSpec::priority
  EstimatedDuration,  \* JobSpec::estimated_duration
  None                \* no estimated duration

ASSUME WorkerAssumption == Worker \subseteq Nat /\ IsFiniteSet(Worker)
ASSUME SlotsAssumption == Slots \in [Worker -> Nat \ {0}]
ASSUME JobAssumption == IsFiniteSet(Job)
ASSUME PriorityAssumption == Priority \in [Job -> Int]
ASSUME DurationAssumption ==
  /\ None \notin Nat
  /\ EstimatedDuration \in [Job -> Nat \cup {None}]

(***************************************************************************)
(* The two orders.                                                         *)
(***************************************************************************)
\* QueuedJob's order: priority, then duration, an unknown one the longest.
LongerThan(d, e) ==
  /\ e # None
  /\ d = None \/ d > e

Before(j, k) ==
  \/ Priority[j] > Priority[k]
  \/ /\ Priority[j] = Priority[k]
     /\ LongerThan(EstimatedDuration[j], EstimatedDuration[k])

\* A unit <<w, n>> is the place of the job that w gets while it has n others.
\* WorkerMap::is_element_less_than, on the two workers at those loads.
UnitBefore(u, v) ==
  LET lhs == u[2] * Slots[v[1]]
      rhs == v[2] * Slots[u[1]]
  IN  lhs < rhs \/ (lhs = rhs /\ u[1] < v[1])

(***************************************************************************)
(* possibly_start_jobs.  The loop pops a greatest queued job and gives it  *)
(* to the least loaded worker, until there is no job, no worker, or that   *)
(* worker has twice as many jobs as slots.  As the loads only grow, this   *)
(* hands the free units out in UnitBefore order and the queued jobs in     *)
(* Before order (either way round for equals) until either runs out.       *)
(***************************************************************************)
FreeUnits_OnlySlots(W, p) ==
  UNION {{<<w, n>> : n \in Cardinality(p[w]) .. Slots[w] - 1} : w \in W}

FreeUnits(W, p) ==
  UNION {{<<w, n>> : n \in Cardinality(p[w]) .. 2 * Slots[w] - 1} : w \in W}

\* The ways to start jobs of q at the workers W with pending jobs p.
Placements(W, p, q) ==
  LET free == FreeUnits(W, p)
      Fits(f) ==
        LET used == {f[j] : j \in DOMAIN f} IN
        /\ \A j, k \in DOMAIN f : j # k => f[j] # f[k]
        /\ \A j, k \in DOMAIN f : Before(j, k) => UnitBefore(f[j], f[k])
        /\ \A j \in DOMAIN f, k \in q \ DOMAIN f : ~Before(k, j)
        /\ \A u \in used, v \in free \ used : UnitBefore(u, v)
        /\ DOMAIN f = q \/ used = free
      Started == {S \in SUBSET q : Cardinality(S) <= Cardinality(free)}
  IN  {f \in UNION {[S -> free] : S \in Started} : Fits(f)}

StartedAt(f, w) == {j \in DOMAIN f : f[j][1] = w}
=============================================================================
