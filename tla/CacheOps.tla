------------------------------ MODULE CacheOps ------------------------------
(***************************************************************************)
(* The artifact cache shared by the broker and the workers, as operators   *)
(* on a value: crates/maelstrom-util/src/cache.rs.  Components that own a  *)
(* cache thread this value through their handlers.                         *)
(*                                                                         *)
(* A cache is a record of                                                  *)
(*   entry     what Cache::entries has for each digest,                    *)
(*   heap      Cache::heap: the digests without references, in the order   *)
(*             of their priorities, which only grow,                       *)
(*   bytes     Cache::bytes_used,                                          *)
(*   panicked  whether an expect, unwrap or assert has failed,             *)
(* and, as an artifact's removal may fail, to say what the cache then has  *)
(* and does not know of,                                                   *)
(*   lost      the part of bytes that is of artifacts without an entry,    *)
(*   left      the artifacts without an entry that may still be there,     *)
(*   stopped   whether the last possibly_remove_some ended in an error.    *)
(* Directories, symbolic links and files differ in how they are stored,    *)
(* not in how they are counted, and are not told apart.                    *)
(***************************************************************************)
EXTENDS Integers, Sequences, FiniteSets, SequencesExt

CONSTANTS
  Digest,  \* the artifacts
  Size,    \* the bytes an artifact takes
  Target,  \* Cache::bytes_used_target
  Getter   \* GetStrategy::getter_from_job_id: who fetches on a job's behalf

\* Of the file system: the artifacts that it would not remove now.
VARIABLE stuck

ASSUME SizeAssumption == Size \in [Digest -> Nat] /\ Target \in Nat

Absent == [st |-> "absent"]
Getting(jobs, getters) == [st |-> "getting", jobs |-> jobs, getters |-> getters]
InUse(n) == [st |-> "inUse", refs |-> n]
InHeap == [st |-> "inHeap"]

EmptyCache ==
  [entry |-> [d \in Digest |-> Absent], heap |-> <<>>, bytes |-> 0,
   panicked |-> FALSE, lost |-> 0, left |-> {}, stopped |-> FALSE]

\* The digests whose files the cache knows to be in its directory.
Stored(c) == {d \in Digest : c.entry[d].st \in {"inUse", "inHeap"}}

Refs(c, d) == IF c.entry[d].st = "inUse" THEN c.entry[d].refs ELSE 0

Panicked(c) == [c EXCEPT !.panicked = TRUE]

Evicted_InUse(c) ==
  IF c.bytes <= Target \/ Stored(c) = {} THEN c
  ELSE LET d == CHOOSE x \in Stored(c) : TRUE IN
       [c EXCEPT !.entry[d] = Absent, !.bytes = @ - Size[d],
                 !.heap = RemoveFirst(@, d)]

\* One turn of the loop.  When d cannot be removed, its entry has been dropped
\* but its bytes still count, and the loop ends.
RemoveOne(c, d) ==
  IF c.bytes <= Target \/ c.stopped THEN c
  ELSE IF c.entry[d].st # "inHeap" THEN Panicked(c)
  ELSE LET popped == [c EXCEPT !.entry[d] = Absent, !.heap = Tail(@)] IN
       IF d \in stuck
       THEN [popped EXCEPT !.lost = @ + Size[d], !.left = @ \cup {d}, !.stopped = TRUE]
       ELSE [popped EXCEPT !.bytes = @ - Size[d]]

\* possibly_remove_some: while over the target, remove the unreferenced
\* artifact that has been so for longest.  An error is ignored.
Evicted(c) == FoldLeft(RemoveOne, [c EXCEPT !.stopped = FALSE], c.heap)

GetArtifact_OneGetter(c, d, j) ==
  LET e == c.entry[d]
      Reply(entry, heap, result) ==
        [cache |-> [c EXCEPT !.entry[d] = entry, !.heap = heap], result |-> result]
  IN
  CASE e.st = "absent" -> Reply(Getting(<<j>>, {Getter[j]}), c.heap, "get")
    [] e.st = "getting" -> Reply(Getting(Append(e.jobs, j), e.getters), c.heap, "wait")
    [] e.st = "inUse" -> Reply(InUse(e.refs + 1), c.heap, "success")
    [] e.st = "inHeap" ->
         Reply(InUse(1), RemoveFirst(c.heap, d), "success")

\* get_artifact: the cache and whether the job has a reference ("success"),
\* must wait for an artifact its getter already fetches, or its getter is to
\* be asked for it.
GetArtifact(c, d, j) ==
  LET e == c.entry[d]
      Reply(entry, heap, result) ==
        [cache |-> [c EXCEPT !.entry[d] = entry, !.heap = heap], result |-> result]
  IN
  CASE e.st = "absent" -> Reply(Getting(<<j>>, {Getter[j]}), c.heap, "get")
    [] e.st = "getting" ->
         Reply(Getting(Append(e.jobs, j), e.getters \cup {Getter[j]}), c.heap,
               IF Getter[j] \in e.getters THEN "wait" ELSE "get")
    [] e.st = "inUse" -> Reply(InUse(e.refs + 1), c.heap, "success")
    [] e.st = "inHeap" ->
         Reply(InUse(1), RemoveFirst(c.heap, d), "success")

\* got_artifact_failure: the entry is removed whatever it is, and the jobs
\* that were waiting are returned.
GotArtifactFailure(c, d) ==
  [cache |-> [c EXCEPT !.entry[d] = Absent],
   jobs  |-> IF c.entry[d].st = "getting" THEN c.entry[d].jobs ELSE <<>>,
   ok    |-> FALSE]

GotArtifactSuccess_OneRef(c, d, fsOk) ==
  IF c.entry[d].st # "getting" THEN [cache |-> c, jobs |-> <<>>, ok |-> TRUE]
  ELSE IF ~fsOk THEN GotArtifactFailure(c, d)
  ELSE [cache |-> Evicted([c EXCEPT !.entry[d] = InUse(1), !.bytes = @ + Size[d]]),
        jobs  |-> c.entry[d].jobs, ok |-> TRUE]

\* got_artifact_success; fsOk is whether the artifact could be moved into the
\* cache's directory.  An artifact nobody waits for is disposed of.
GotArtifactSuccess(c, d, fsOk) ==
  LET jobs == c.entry[d].jobs IN
  IF c.entry[d].st # "getting" THEN [cache |-> c, jobs |-> <<>>, ok |-> TRUE]
  ELSE IF ~fsOk THEN GotArtifactFailure(c, d)
  ELSE [cache |-> IF jobs = <<>> THEN Panicked(c)
                  ELSE Evicted([c EXCEPT !.entry[d] = InUse(Len(jobs)),
                                         !.bytes = @ + Size[d], !.left = @ \ {d}]),
        jobs  |-> jobs, ok |-> TRUE]

\* try_increment_ref_count, when there is a reference already
Incremented(c, d) == [c EXCEPT !.entry[d].refs = @ + 1]

Decremented_NoEviction(c, d) ==
  LET e == c.entry[d] IN
  IF e.st # "inUse" THEN Panicked(c)
  ELSE IF e.refs > 1 THEN [c EXCEPT !.entry[d] = InUse(e.refs - 1)]
  ELSE [c EXCEPT !.entry[d] = InHeap, !.heap = Append(@, d)]

Decremented_NeverFree(c, d) ==
  LET e == c.entry[d] IN
  IF e.st # "inUse" THEN Panicked(c) ELSE [c EXCEPT !.entry[d] = InUse(e.refs - 1)]

\* decrement_ref_count
Decremented(c, d) ==
  LET e == c.entry[d] IN
  IF e.st # "inUse" THEN Panicked(c)
  ELSE IF e.refs > 1 THEN [c EXCEPT !.entry[d] = InUse(e.refs - 1)]
  ELSE Evicted([c EXCEPT !.entry[d] = InHeap, !.heap = Append(@, d)])

\* The jobs in the sequence js that have another getter than g.
NotOf(g, js) ==
  FoldLeft(LAMBDA kept, j : IF Getter[j] = g THEN kept ELSE Append(kept, j), <<>>, js)

GetterDisconnected_KeepJobs(c, g) ==
  [c EXCEPT !.entry = [d \in Digest |->
     LET e == c.entry[d] IN
     IF e.st # "getting" THEN e ELSE Getting(e.jobs, e.getters \ {g})]]

GetterDisconnected_KeepEntry(c, g) ==
  [c EXCEPT !.entry = [d \in Digest |->
     LET e == c.entry[d] IN
     IF e.st # "getting" THEN e ELSE Getting(NotOf(g, e.jobs), e.getters \ {g})]]

\* getter_disconnected: the getter's jobs stop waiting; an artifact nobody
\* waits for any more is forgotten.
GetterDisconnected(c, g) ==
  [c EXCEPT !.entry = [d \in Digest |->
     LET e == c.entry[d] IN
     IF e.st # "getting" THEN e
     ELSE IF NotOf(g, e.jobs) = <<>> THEN Absent
     ELSE Getting(NotOf(g, e.jobs), e.getters \ {g})]]
=============================================================================
