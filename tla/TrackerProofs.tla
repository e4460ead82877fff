--------------------------- MODULE TrackerProofs ----------------------------
(***************************************************************************)
(* Proof that the jobs of a worker's dispatcher wait for what they are     *)
(* told of: the cache, the reads of manifests and the trackers agree about *)
(* every job, for any jobs, layers, manifests, failures and orders.        *)
(*                                                                         *)
(* What one tracker (LayerTracker) must be is TrackerRight.  While a       *)
(* handler is inside of a tracker, the tracker is not yet what it is       *)
(* between messages: keys have been received that it does not know of (O), *)
(* a manifest's entries are being gone through (E, with those to come, T), *)
(* or the manifests that listed an artifact are still to be told that it   *)
(* is there (D).  These are parameters of TrackerRight, all empty when the *)
(* handler is done; an operator takes the tracker from one of these states *)
(* to the next.  An operator that goes through a sequence is a fold, and   *)
(* its lemma an instance of FoldTheorems.                                  *)
(*                                                                         *)
(* TrackersRight says that every job is one of three: not there (in which  *)
(* case nothing is awaited for it if it is still to come, and what is left *)
(* of it does not matter if it has gone); complete, with exactly its keys; *)
(* or awaiting its layers, with a tracker that is right and not complete.  *)
(* It is inductive without Control: a handler that ends a read or a fetch  *)
(* tells a sequence of jobs, in an order that matters to the cache, and    *)
(* what is true of them while some are still to be told is AllRight, with  *)
(* those jobs in Y.                                                        *)
(***************************************************************************)
EXTENDS DispatcherProofs

-----------------------------------------------------------------------------
\* What one tracker must be.

\* k is a key that a job with the tracker x waits for.
Wants(j, x, k) ==
  CASE k[1] = "blob" -> \/ k[2] \in DOMAIN x.bottom /\ x.bottom[k[2]].st = "artifact"
                        \/ x.deps[k[2]] # <<>>
    [] k[1] = "bottom" -> k[2] \in DOMAIN x.bottom /\ x.bottom[k[2]].st = "fsLayer"
    [] k[1] = "upper" -> /\ \A d \in DOMAIN x.bottom : x.bottom[d].st = "ready"
                         /\ x.stacked < Len(Layers[j])
                         /\ k = Upper(Prefix(j, x.stacked + 1))

Dependent(x, m) == {d \in Digest : m \in ToSet(x.deps[d])}

IsRecord(x) == x = [f \in DOMAIN x |-> x[f]]

TrackerTyped(j, x) ==
  /\ IsRecord(x)
  /\ DOMAIN x = {"st", "keys", "stacked", "bottom", "deps"}
  /\ x.st = "awaiting" /\ x.stacked \in 1 .. Len(Layers[j])
  /\ x.bottom \in [ToSet(Layers[j]) -> PendingBottomLayer]
  /\ x.deps \in [Digest -> Seq(Manifest)]

\* L is what the cache will tell the job of, O what it is about to be told of.
Listens(j, x, L, O) ==
  \A k \in Key : /\ k \in O => Wants(j, x, k)
                 /\ k \in L <=> Wants(j, x, k) /\ k \notin O

\* R is the manifests that are read for the job, E the one whose entries are
\* gone through.
Reads(x, R, E) ==
  /\ E \subseteq DOMAIN x.bottom
  /\ \A m \in E : x.bottom[m].st = "digests"
  /\ R \subseteq Digest
  /\ \A m \in Digest : m \in R <=> m \in DOMAIN x.bottom /\ x.bottom[m].st = "digests" /\ m \notin E

\* T is the entries that are still to be gone through.
Depends(x, E, T) ==
  /\ \A d \in Digest :
       /\ IsInjective(x.deps[d])
       /\ x.deps[d] # <<>> /\ d \in DOMAIN x.bottom => x.bottom[d].st = "artifact"
       /\ \A m \in ToSet(x.deps[d]) :
            /\ m \in DOMAIN x.bottom /\ d \in Entries[m]
            /\ x.bottom[m].st = "artifacts" \/ m \in E
       /\ d \in T => \A m \in E : m \notin ToSet(x.deps[d])

\* D is the manifests that are about to count one artifact less.
Counts(x, D) ==
  /\ \A m \in D : m \in DOMAIN x.bottom /\ x.bottom[m].st = "artifacts"
  /\ \A m \in DOMAIN x.bottom :
       /\ x.bottom[m].st \in {"digests", "artifacts"} => m \in Manifest
       /\ x.bottom[m].st = "artifacts" =>
            x.bottom[m].left = Cardinality(Dependent(x, m)) + IF m \in D THEN 1 ELSE 0

\* The job has what its tracker no longer waits for, and nothing else.
Has(j, x, E, T) ==
  /\ x.keys \subseteq Needed(j)
  /\ \A d \in DOMAIN x.bottom :
       /\ x.bottom[d].st # "artifact" => Blob(d) \in x.keys
       /\ x.bottom[d].st = "ready" => Bottom(d) \in x.keys
       /\ d \in Manifest /\ (x.bottom[d].st \in {"artifacts", "fsLayer", "ready"} \/ d \in E) =>
            \A e \in Entries[d] :
              Blob(e) \in x.keys \/ d \in ToSet(x.deps[e]) \/ (d \in E /\ e \in T)
  /\ \A n \in 2 .. x.stacked : Upper(Prefix(j, n)) \in x.keys
  /\ x.stacked > 1 => \A d \in DOMAIN x.bottom : x.bottom[d].st = "ready"

TrackerRight(j, x, L, R, O, D, E, T) ==
  /\ TrackerTyped(j, x) /\ Listens(j, x, L, O) /\ Reads(x, R, E)
  /\ Depends(x, E, T) /\ Counts(x, D) /\ Has(j, x, E, T)

LEMMA UpdatesAreRecords ==
  /\ \A x, b : IsRecord([x EXCEPT !.bottom = b])
  /\ \A x, b : IsRecord([x EXCEPT !.keys = b])
  /\ \A x, b : IsRecord([x EXCEPT !.deps = b])
BY DEF IsRecord

\* The states of a layer are told apart by their names.
LEMMA BottomForms ==
  /\ {WaitingForArtifact, WaitingForDigests, WaitingForFsLayer, Ready} \subseteq PendingBottomLayer
  /\ \A n \in Nat \ {0} : WaitingForArtifacts(n) \in PendingBottomLayer
  /\ \A n : WaitingForArtifacts(n).st = "artifacts" /\ WaitingForArtifacts(n).left = n
  /\ WaitingForArtifact.st = "artifact" /\ WaitingForDigests.st = "digests"
  /\ WaitingForFsLayer.st = "fsLayer" /\ Ready.st = "ready"
  /\ \A b \in PendingBottomLayer :
       /\ b.st \in {"artifact", "digests", "artifacts", "fsLayer", "ready"}
       /\ b = WaitingForArtifact <=> b.st = "artifact"
       /\ b = WaitingForDigests <=> b.st = "digests"
       /\ b = WaitingForFsLayer <=> b.st = "fsLayer"
       /\ b = Ready <=> b.st = "ready"
       /\ b.st = "artifacts" => b.left \in Nat \ {0}
<1>1. \A n : WaitingForArtifacts(n).st = "artifacts" /\ WaitingForArtifacts(n).left = n
  BY DEF WaitingForArtifacts
<1>2. /\ WaitingForArtifact.st = "artifact" /\ WaitingForDigests.st = "digests"
      /\ WaitingForFsLayer.st = "fsLayer" /\ Ready.st = "ready"
  BY DEF WaitingForArtifact, WaitingForDigests, WaitingForFsLayer, Ready
<1>3. ASSUME NEW b \in PendingBottomLayer
      PROVE  /\ b.st \in {"artifact", "digests", "artifacts", "fsLayer", "ready"}
             /\ b = WaitingForArtifact <=> b.st = "artifact"
             /\ b = WaitingForDigests <=> b.st = "digests"
             /\ b = WaitingForFsLayer <=> b.st = "fsLayer"
             /\ b = Ready <=> b.st = "ready"
             /\ b.st = "artifacts" => b.left \in Nat \ {0}
  BY <1>2 DEF PendingBottomLayer
<1>4. \A n \in Nat \ {0} : WaitingForArtifacts(n) \in PendingBottomLayer
  BY DEF PendingBottomLayer, WaitingForArtifacts
<1>5. {WaitingForArtifact, WaitingForDigests, WaitingForFsLayer, Ready} \subseteq PendingBottomLayer
  BY DEF PendingBottomLayer
<1>6. QED
  BY <1>1, <1>2, <1>3, <1>4, <1>5

\* Keys are told apart by their kinds and what they are of.
LEMMA KeysDiffer ==
  /\ \A d : Blob(d)[1] = "blob" /\ Blob(d)[2] = d
  /\ \A d : Bottom(d)[1] = "bottom" /\ Bottom(d)[2] = d
  /\ \A p : Upper(p)[1] = "upper"
  /\ \A d, e : (Blob(d) = Blob(e) <=> d = e) /\ (Bottom(d) = Bottom(e) <=> d = e)
  /\ \A d, e : Blob(d) # Bottom(e) /\ Blob(d) # Upper(e) /\ Bottom(d) # Upper(e)
BY DEF Blob, Bottom, Upper

LEMMA UppersDiffer ==
  ASSUME NEW j \in Job, NEW m \in 1 .. Len(Layers[j]), NEW n \in 1 .. Len(Layers[j]),
         Upper(Prefix(j, m)) = Upper(Prefix(j, n))
  PROVE  m = n
<1>1. Prefix(j, m) = Prefix(j, n)
  BY DEF Upper
<1>2. \A i \in 1 .. Len(Layers[j]) : Len(Prefix(j, i)) = i
  BY LayersTyped, SubSeqProperties DEF Prefix
<1>3. QED
  BY <1>1, <1>2

-----------------------------------------------------------------------------
\* What a tracker does around it.

ListedIn(s, i) ==
  {k \in Key : s.cache.entry[k].st = "getting" /\ i \in ToSet(s.cache.entry[k].jobs)}

OnceIn(s, i) ==
  \A k \in Key : s.cache.entry[k].st = "getting" =>
    \A a, b \in DOMAIN s.cache.entry[k].jobs :
      s.cache.entry[k].jobs[a] = i /\ s.cache.entry[k].jobs[b] = i => a = b

ReadFor(d, i) ==
  {m \in Manifest : i \in d.pending[m] \/ <<m, i, TRUE>> \in d.sent \/ <<m, i, FALSE>> \in d.sent}

\* A job is told of the end of a read once.
ReadsOnce(d) ==
  /\ DOMAIN d = {"pending", "cached", "sent"}
  /\ d.pending \in [Manifest -> SUBSET Job] /\ d.sent \subseteq Manifest \X Job \X BOOLEAN
  /\ d.cached \in Seq(Manifest) /\ IsInjective(d.cached)
  /\ \A m \in Manifest : \A i \in Job :
       /\ <<m, i, TRUE>> \in d.sent => <<m, i, FALSE>> \notin d.sent
       /\ i \in d.pending[m] => <<m, i, TRUE>> \notin d.sent /\ <<m, i, FALSE>> \notin d.sent

\* Whatever is got is being got by a task.
TasksRight(s) ==
  /\ s.tasks \subseteq Key
  /\ \A k \in Key : s.cache.entry[k].st = "getting" => k \in s.tasks

\* For the job i it makes no difference whether the state is s or t.
SameFor(s, t, i) ==
  /\ ListedIn(t, i) = ListedIn(s, i) /\ ReadFor(t.digests, i) = ReadFor(s.digests, i)
  /\ OnceIn(s, i) => OnceIn(t, i)

\* t is s after what the tracker of j has done so far.
Works(s, j, t) ==
  /\ OnlyTracks(s, j, t)
  /\ \A i \in Job \ {j} : SameFor(s, t, i)
  /\ OnceIn(t, j) /\ TasksRight(t) /\ ReadsOnce(t.digests)

LEMMA AppendedSet ==
  ASSUME NEW S, NEW q \in Seq(S), NEW x
  PROVE  /\ ToSet(Append(q, x)) = ToSet(q) \cup {x}
         /\ \A y : y \in ToSet(q) <=> \E i \in 1 .. Len(q) : q[i] = y
<1>1. \A y : y \in ToSet(q) <=> \E i \in 1 .. Len(q) : q[i] = y
  BY DEF ToSet
<1>2. \A y : y \in ToSet(Append(q, x)) <=> \E i \in 1 .. Len(q) + 1 : Append(q, x)[i] = y
  BY DEF ToSet
<1>3. Append(q, x)[Len(q) + 1] = x /\ \A i \in 1 .. Len(q) : Append(q, x)[i] = q[i]
  OBVIOUS
<1>4. \A i \in 1 .. Len(q) + 1 : i \in 1 .. Len(q) \/ i = Len(q) + 1
  OBVIOUS
<1>5. Len(q) + 1 \in 1 .. Len(q) + 1 /\ \A i \in 1 .. Len(q) : i \in 1 .. Len(q) + 1
  OBVIOUS
<1>6. ASSUME NEW y
      PROVE  y \in ToSet(Append(q, x)) <=> y \in ToSet(q) \cup {x}
  <2>1. (\E i \in 1 .. Len(q) + 1 : Append(q, x)[i] = y) => (\E i \in 1 .. Len(q) : q[i] = y) \/ y = x
    BY <1>3, <1>4
  <2>2. (\E i \in 1 .. Len(q) : q[i] = y) => \E i \in 1 .. Len(q) + 1 : Append(q, x)[i] = y
    BY <1>3, <1>5
  <2>3. y = x => \E i \in 1 .. Len(q) + 1 : Append(q, x)[i] = y
    BY <1>3, <1>5
  <2>4. QED
    BY <1>1, <1>2, <2>1, <2>2, <2>3
<1>7. QED
  BY <1>1, <1>6

LEMMA WorksFetch ==
  ASSUME NEW s, NEW j \in Job, NEW t, Works(s, j, t), NEW k \in Key, k \notin ListedIn(t, j)
  PROVE  LET u == Fetch(t, j, k) IN
         /\ Works(s, j, u) /\ u.job = t.job /\ u.digests = t.digests
         /\ ListedIn(u, j) = IF Got(t, j, k) THEN ListedIn(t, j) ELSE ListedIn(t, j) \cup {k}
<1> DEFINE got == Cache!GetArtifact(t.cache, k, j)
           u == Fetch(t, j, k)
           e == t.cache.entry
           f == got.cache.entry
<1>1. /\ OnlyTracks(s, j, u) /\ CacheTyped(t.cache) /\ DOMAIN t = StateFields
      /\ OnceIn(t, j) /\ TasksRight(t) /\ ReadsOnce(t.digests)
  <2>1. OnlyTracks(s, j, t) /\ OnceIn(t, j) /\ TasksRight(t) /\ ReadsOnce(t.digests)
    BY DEF Works
  <2>2. OnlyTracks(s, j, u)
    BY <2>1, TracksFetch
  <2>3. CacheTyped(t.cache) /\ DOMAIN t = StateFields
    BY <2>1 DEF OnlyTracks
  <2>4. QED
    BY <2>1, <2>2, <2>3
<1>2. /\ CacheTyped(got.cache)
      /\ got.result \in {"get", "wait", "success"}
      /\ \A x \in Key \ {k} : f[x] = e[x]
      /\ got.result = "success" => f[k].st = "inUse" /\ e[k].st \in {"inUse", "inHeap"}
      /\ got.result = "get" => e[k].st = "absent" /\ f[k] = Cache!Getting(<<j>>, {"worker"})
      /\ got.result = "wait" => /\ e[k].st = "getting"
                                /\ f[k] = Cache!Getting(Append(e[k].jobs, j), {"worker"})
  BY <1>1, GetArtifactTyped
<1>3. /\ u.job = t.job /\ u.digests = t.digests /\ u.cache = got.cache
      /\ u.tasks = IF got.result = "get" THEN t.tasks \cup {k} ELSE t.tasks
  BY <1>1 DEF Fetch, StateFields
<1>4. Got(t, j, k) <=> got.result = "success"
  BY DEF Got
<1> HIDE DEF got, u
<1>5. e[k].st = "getting" => e[k].jobs \in Seq(Job)
  BY <1>1 DEF CacheTyped, CacheEntry, Cache!Absent, Cache!InHeap
<1>6. got.result # "success" =>
        /\ f[k].st = "getting" /\ f[k].jobs \in Seq(Job)
        /\ ToSet(f[k].jobs) = (IF e[k].st = "getting" THEN ToSet(e[k].jobs) ELSE {}) \cup {j}
  <2>1. CASE got.result = "get"
    <3>1. f[k].st = "getting" /\ f[k].jobs = <<j>> /\ e[k].st # "getting"
      BY <1>2, <2>1 DEF Cache!Getting
    <3>2. ToSet(<<j>>) = {j}
      BY DEF ToSet
    <3>3. QED
      BY <3>1, <3>2
  <2>2. CASE got.result = "wait"
    <3>1. f[k].st = "getting" /\ f[k].jobs = Append(e[k].jobs, j) /\ e[k].st = "getting"
      BY <1>2, <2>2 DEF Cache!Getting
    <3>2. QED
      BY <1>5, <3>1, AppendedSet
  <2>3. QED
    BY <1>2, <2>1, <2>2
<1>7. ASSUME NEW i \in Job
      PROVE  ListedIn(u, i) = IF i = j /\ got.result # "success"
                              THEN ListedIn(t, i) \cup {k} ELSE ListedIn(t, i)
  <2>1. \A x \in Key \ {k} : x \in ListedIn(u, i) <=> x \in ListedIn(t, i)
    BY <1>2, <1>3 DEF ListedIn
  <2>2. k \in ListedIn(u, i) <=> k \in ListedIn(t, i) \/ (i = j /\ got.result # "success")
    BY <1>2, <1>3, <1>6 DEF ListedIn
  <2>3. ListedIn(u, i) \subseteq Key /\ ListedIn(t, i) \subseteq Key
    BY DEF ListedIn
  <2>4. QED
    BY <2>1, <2>2, <2>3
<1>8. ASSUME NEW i \in Job, OnceIn(t, i), i = j => k \notin ListedIn(t, j)
      PROVE  OnceIn(u, i)
  <2>1. ASSUME NEW x \in Key, f[x].st = "getting",
               NEW a \in DOMAIN f[x].jobs, NEW b \in DOMAIN f[x].jobs,
               f[x].jobs[a] = i, f[x].jobs[b] = i
        PROVE  a = b
    <3>1. CASE x # k
      BY <1>2, <1>8, <2>1, <3>1 DEF OnceIn
    <3>2. CASE x = k /\ got.result = "get"
      BY <1>2, <2>1, <3>2 DEF Cache!Getting
    <3>3. CASE x = k /\ got.result = "wait"
      <4> DEFINE q == e[k].jobs
      <4>1. q \in Seq(Job) /\ f[x].jobs = Append(q, j) /\ e[k].st = "getting"
        BY <1>2, <1>5, <3>3 DEF Cache!Getting
      <4>2. \A c, d \in 1 .. Len(q) : q[c] = i /\ q[d] = i => c = d
        BY <1>8, <4>1 DEF OnceIn
      <4>3. i = j => \A c \in 1 .. Len(q) : q[c] # j
        <5>1. i = j => j \notin ToSet(q)
          BY <1>8, <4>1 DEF ListedIn
        <5> HIDE DEF q
        <5>2. j \in ToSet(q) <=> \E c \in 1 .. Len(q) : q[c] = j
          BY <4>1, AppendedSet
        <5>3. QED
          BY <5>1, <5>2
      <4> HIDE DEF q
      <4>4. /\ a \in 1 .. Len(q) + 1 /\ b \in 1 .. Len(q) + 1
            /\ Append(q, j)[a] = i /\ Append(q, j)[b] = i
        BY <2>1, <4>1
      <4>5. CASE i = j
        <5>1. a = Len(q) + 1 /\ b = Len(q) + 1
          BY <4>1, <4>3, <4>4, <4>5
        <5>2. QED
          BY <5>1
      <4>6. CASE i # j
        <5>1. a \in 1 .. Len(q) /\ b \in 1 .. Len(q) /\ q[a] = i /\ q[b] = i
          BY <4>1, <4>4, <4>6
        <5>2. QED
          BY <4>2, <5>1
      <4>7. QED
        BY <4>5, <4>6
    <3>4. QED
      BY <1>2, <2>1, <3>1, <3>2, <3>3
  <2>2. QED
    BY <1>3, <2>1 DEF OnceIn
<1>9. \A i \in Job \ {j} : SameFor(s, u, i)
  BY <1>3, <1>7, <1>8 DEF Works, SameFor
<1>10. OnceIn(u, j)
  BY <1>1, <1>8
<1>11. TasksRight(u)
  BY <1>1, <1>2, <1>3 DEF TasksRight
<1>12. Works(s, j, u)
  BY <1>1, <1>3, <1>9, <1>10, <1>11 DEF Works
<1>13. QED
  BY <1>3, <1>4, <1>7, <1>12 DEF u

\* u is t after the tracker of j has asked for k.
Asked(s, j, t, k, u) ==
  /\ Works(s, j, u) /\ u.job = t.job /\ u.digests = t.digests
  /\ ListedIn(u, j) = IF Got(t, j, k) THEN ListedIn(t, j) ELSE ListedIn(t, j) \cup {k}

LEMMA FetchAsks ==
  ASSUME NEW s, NEW j \in Job, NEW t, Works(s, j, t), NEW k \in Key, k \notin ListedIn(t, j)
  PROVE  Asked(s, j, t, k, Fetch(t, j, k))
BY WorksFetch DEF Asked

\* The tracker's record changes.
LEMMA WorksJob ==
  ASSUME NEW s, NEW j \in Job, NEW t, Works(s, j, t), NEW x, Awaits(x)
  PROVE  LET u == [t EXCEPT !.job[j] = x] IN
         /\ Works(s, j, u) /\ u.job[j] = x /\ u.digests = t.digests
         /\ ListedIn(u, j) = ListedIn(t, j) /\ u.cache = t.cache
<1> DEFINE u == [t EXCEPT !.job[j] = x]
<1>1. OnlyTracks(s, j, u)
  BY TracksJob DEF Works
<1>2. /\ u.job[j] = x /\ u.digests = t.digests /\ u.cache = t.cache /\ u.tasks = t.tasks
  BY DEF Works, OnlyTracks, StateFields
<1> HIDE DEF u
<1>3. Works(s, j, u)
  BY <1>1, <1>2 DEF Works, SameFor, ListedIn, OnceIn, TasksRight
<1>4. QED
  BY <1>2, <1>3 DEF ListedIn, u

\* The tracker's fields are assigned: u is t, but the tracker is y.
Rewritten(s, j, t, u, y) ==
  /\ Works(s, j, u) /\ u.job[j] = y
  /\ u.digests = t.digests /\ ListedIn(u, j) = ListedIn(t, j)

SetBottom(t, j, d, b) == [t EXCEPT !.job[j].bottom[d] = b]
SetDeps(t, j, d, q) == [t EXCEPT !.job[j].deps[d] = q]
WithKey(x, k) == [x EXCEPT !.keys = @ \cup {k}]
WithBottom(x, d, b) == [x EXCEPT !.bottom[d] = b]
WithDeps(x, d, q) == [x EXCEPT !.deps[d] = q]

LEMMA WorksRewritten ==
  ASSUME NEW s, NEW j \in Job, NEW t, Works(s, j, t), NEW u, NEW y, Awaits(y),
         u = [t EXCEPT !.job[j] = y]
  PROVE  Rewritten(s, j, t, u, y)
BY WorksJob DEF Rewritten

LEMMA WorksKey ==
  ASSUME NEW s, NEW j \in Job, NEW t, Works(s, j, t), NEW k
  PROVE  Rewritten(s, j, t, Keep(t, j, k), WithKey(t.job[j], k))
<1> DEFINE y == WithKey(t.job[j], k)
           u == Keep(t, j, k)
<1>1. DOMAIN t = StateFields /\ DOMAIN t.job = Job /\ Awaits(t.job[j])
  BY DEF Works, OnlyTracks
<1>2. Awaits(y)
  BY <1>1 DEF Awaits, WithKey
<1>3. u = [t EXCEPT !.job[j] = y]
  BY <1>1 DEF Keep, WithKey, StateFields
<1> HIDE DEF u, y
<1>4. Rewritten(s, j, t, u, y)
  BY <1>2, <1>3, WorksRewritten
<1>5. QED
  BY <1>4 DEF u, y

LEMMA WorksBottom ==
  ASSUME NEW s, NEW j \in Job, NEW t, Works(s, j, t), NEW d, NEW b
  PROVE  Rewritten(s, j, t, SetBottom(t, j, d, b), WithBottom(t.job[j], d, b))
<1> DEFINE y == WithBottom(t.job[j], d, b)
           u == SetBottom(t, j, d, b)
<1>1. DOMAIN t = StateFields /\ DOMAIN t.job = Job /\ Awaits(t.job[j])
  BY DEF Works, OnlyTracks
<1>2. Awaits(y)
  BY <1>1 DEF Awaits, WithBottom
<1>3. u = [t EXCEPT !.job[j] = y]
  BY <1>1 DEF SetBottom, WithBottom, StateFields
<1> HIDE DEF u, y
<1>4. Rewritten(s, j, t, u, y)
  BY <1>2, <1>3, WorksRewritten
<1>5. QED
  BY <1>4 DEF u, y

LEMMA WorksDeps ==
  ASSUME NEW s, NEW j \in Job, NEW t, Works(s, j, t), NEW d, NEW q \in Seq(Manifest)
  PROVE  Rewritten(s, j, t, SetDeps(t, j, d, q), WithDeps(t.job[j], d, q))
<1> DEFINE y == WithDeps(t.job[j], d, q)
           u == SetDeps(t, j, d, q)
<1>1. DOMAIN t = StateFields /\ DOMAIN t.job = Job /\ Awaits(t.job[j])
  BY DEF Works, OnlyTracks
<1>2. Awaits(y)
  BY <1>1 DEF Awaits, WithDeps
<1>3. u = [t EXCEPT !.job[j] = y]
  BY <1>1 DEF SetDeps, WithDeps, StateFields
<1> HIDE DEF u, y
<1>4. Rewritten(s, j, t, u, y)
  BY <1>2, <1>3, WorksRewritten
<1>5. QED
  BY <1>4 DEF u, y

\* Sequences in which nothing comes twice.
LEMMA AppendedOnce ==
  ASSUME NEW S, NEW q \in Seq(S), IsInjective(q), NEW x \in S,
         \A a \in 1 .. Len(q) : q[a] # x
  PROVE  Append(q, x) \in Seq(S) /\ IsInjective(Append(q, x)) /\ Append(q, x) # <<>>
<1> DEFINE p == Append(q, x)
<1>1. /\ p \in Seq(S) /\ Len(p) = Len(q) + 1 /\ p[Len(q) + 1] = x
      /\ \A a \in 1 .. Len(q) : p[a] = q[a]
  OBVIOUS
<1> HIDE DEF p
<1>2. DOMAIN p = 1 .. Len(q) + 1 /\ DOMAIN q = 1 .. Len(q) /\ Len(q) \in Nat
  BY <1>1
<1>3. \A a \in DOMAIN p : a \in 1 .. Len(q) \/ a = Len(q) + 1
  BY <1>2
<1>4. IsInjective(p)
  BY <1>1, <1>2, <1>3 DEF IsInjective
<1>5. p # <<>>
  BY <1>1, <1>2
<1>6. QED
  BY <1>1, <1>4, <1>5 DEF p

LEMMA TailOnce ==
  ASSUME NEW S, NEW q \in Seq(S), IsInjective(q), q # <<>>
  PROVE  Tail(q) \in Seq(S) /\ IsInjective(Tail(q))
<1> DEFINE p == Tail(q)
<1>1. /\ p \in Seq(S) /\ Len(p) = Len(q) - 1
      /\ \A a \in 1 .. Len(p) : p[a] = q[a + 1]
  OBVIOUS
<1> HIDE DEF p
<1>2. DOMAIN p = 1 .. Len(p) /\ DOMAIN q = 1 .. Len(q) /\ Len(q) \in Nat
  BY <1>1
<1>3. ASSUME NEW a \in DOMAIN p, NEW b \in DOMAIN p, p[a] = p[b]
      PROVE  a = b
  <2>1. a \in 1 .. Len(p) /\ b \in 1 .. Len(p)
    BY <1>2
  <2>2. a + 1 \in DOMAIN q /\ b + 1 \in DOMAIN q
    BY <1>1, <1>2, <2>1
  <2>3. q[a + 1] = q[b + 1]
    BY <1>1, <1>3, <2>1
  <2>4. a + 1 = b + 1
    BY <2>2, <2>3 DEF IsInjective
  <2>5. QED
    BY <2>1, <2>4
<1>4. QED
  BY <1>1, <1>3 DEF IsInjective, p

\* The index in a sequence of what comes a-th without the n-th.
Skip(n, a) == IF a <= n - 1 THEN a ELSE a + 1

LEMMA SkipsOne ==
  ASSUME NEW l \in Nat, NEW n \in 1 .. l, NEW a \in 1 .. l - 1
  PROVE  /\ Skip(n, a) \in 1 .. l /\ Skip(n, a) # n
         /\ \A b \in 1 .. l - 1 : Skip(n, a) = Skip(n, b) => a = b
         /\ a <= n - 1 => a \in 1 .. n - 1
         /\ ~(a <= n - 1) => a - (n - 1) \in 1 .. l - n /\ a - (n - 1) + n = a + 1
BY DEF Skip

\* r is q without its n-th.
Skips(q, n, r) ==
  /\ r \in Seq(Manifest) /\ Len(r) = Len(q) - 1
  /\ \A a \in 1 .. Len(q) - 1 : r[a] = q[Skip(n, a)]

LEMMA SkippedOnce ==
  ASSUME NEW q \in Seq(Manifest), IsInjective(q), NEW n \in 1 .. Len(q), NEW r, Skips(q, n, r)
  PROVE  IsInjective(r) /\ \A a \in 1 .. Len(r) : r[a] # q[n]
<1> DEFINE l == Len(q)
<1>1. /\ l \in Nat /\ n \in 1 .. l /\ Len(r) = l - 1
      /\ \A a \in 1 .. l - 1 : r[a] = q[Skip(n, a)]
      /\ DOMAIN r = 1 .. l - 1 /\ DOMAIN q = 1 .. l
  BY DEF Skips
<1> HIDE DEF l
<1>2. ASSUME NEW a \in 1 .. l - 1
      PROVE  Skip(n, a) \in 1 .. l /\ Skip(n, a) # n
  <2>1. l \in Nat /\ n \in 1 .. l
    BY <1>1
  <2>2. QED
    BY <2>1 DEF Skip
<1>3. \A a, b \in 1 .. l - 1 : Skip(n, a) = Skip(n, b) => a = b
  BY <1>1, SkipsOne
<1>4. \A a \in 1 .. Len(r) : r[a] # q[n]
  BY <1>1, <1>2 DEF IsInjective
<1>5. ASSUME NEW a \in 1 .. l - 1, NEW b \in 1 .. l - 1, r[a] = r[b]
      PROVE  a = b
  <2>1. q[Skip(n, a)] = q[Skip(n, b)]
    BY <1>1, <1>5
  <2>2. Skip(n, a) = Skip(n, b)
    BY <1>1, <1>2, <2>1 DEF IsInjective
  <2>3. QED
    BY <1>3, <2>2
<1>6. QED
  BY <1>1, <1>4, <1>5 DEF IsInjective

\* q is what is in p1, something, and what is in p2.
Parts(q, n, p1, p2) ==
  /\ p1 \in Seq(Manifest) /\ Len(p1) = n - 1 /\ \A a \in 1 .. n - 1 : p1[a] = q[a]
  /\ p2 \in Seq(Manifest) /\ Len(p2) = Len(q) - n
  /\ \A a \in 1 .. Len(q) - n : p2[a] = q[a + n]

LEMMA JoinedSkip ==
  ASSUME NEW q \in Seq(Manifest), NEW n \in 1 .. Len(q), NEW p1, NEW p2, Parts(q, n, p1, p2)
  PROVE  Skips(q, n, p1 \o p2)
<1> DEFINE r == p1 \o p2
           l == Len(q)
<1>1. /\ r \in Seq(Manifest) /\ Len(r) = Len(p1) + Len(p2)
      /\ \A a \in 1 .. Len(p1) + Len(p2) :
           r[a] = IF a <= Len(p1) THEN p1[a] ELSE p2[a - Len(p1)]
  <2>1. p1 \in Seq(Manifest) /\ p2 \in Seq(Manifest)
    BY DEF Parts
  <2>2. QED
    BY <2>1, ConcatProperties
<1>2. /\ Len(p1) = n - 1 /\ \A a \in 1 .. n - 1 : p1[a] = q[a]
      /\ Len(p2) = l - n /\ \A a \in 1 .. l - n : p2[a] = q[a + n]
      /\ l \in Nat /\ n \in 1 .. l
  BY DEF Parts
<1> HIDE DEF r, l
<1>3. Len(p1) + Len(p2) = l - 1
  BY <1>2
<1>4. ASSUME NEW a \in 1 .. l - 1
      PROVE  r[a] = q[Skip(n, a)]
  <2>1. r[a] = IF a <= n - 1 THEN p1[a] ELSE p2[a - (n - 1)]
    BY <1>1, <1>2, <1>3
  <2>2. CASE a <= n - 1
    <3>1. a \in 1 .. n - 1
      BY <1>2, <2>2, SkipsOne
    <3>2. QED
      BY <1>2, <2>1, <2>2, <3>1 DEF Skip
  <2>3. CASE ~(a <= n - 1)
    <3>1. a - (n - 1) \in 1 .. l - n /\ a - (n - 1) + n = a + 1
      BY <1>2, <2>3, SkipsOne
    <3>2. p2[a - (n - 1)] = q[a + 1]
      BY <1>2, <3>1
    <3>3. QED
      BY <2>1, <2>3, <3>2 DEF Skip
  <2>4. QED
    BY <2>2, <2>3
<1>5. QED
  BY <1>1, <1>3, <1>4 DEF Skips, r, l

LEMMA WithoutOnce ==
  ASSUME NEW q \in Seq(Manifest), IsInjective(q), NEW n \in 1 .. Len(q)
  PROVE  LET r == SubSeq(q, 1, n - 1) \o SubSeq(q, n + 1, Len(q)) IN
         r \in Seq(Manifest) /\ IsInjective(r) /\ \A a \in 1 .. Len(r) : r[a] # q[n]
<1> DEFINE p1 == SubSeq(q, 1, n - 1)
           p2 == SubSeq(q, n + 1, Len(q))
<1>1. /\ p1 \in Seq(Manifest) /\ Len(p1) = n - 1 /\ \A a \in 1 .. n - 1 : p1[a] = q[a]
  <2>1. \A a \in 1 .. n - 1 : a \in 1 .. Len(q)
    OBVIOUS
  <2>2. QED
    BY <2>1, SubSeqProperties
<1>2. /\ p2 \in Seq(Manifest) /\ Len(p2) = Len(q) - n
      /\ \A a \in 1 .. Len(q) - n : p2[a] = q[a + n]
  <2>1. \A a \in n + 1 .. Len(q) : a \in 1 .. Len(q)
    OBVIOUS
  <2>2. QED
    BY <2>1, SubSeqProperties
<1> DEFINE r == p1 \o p2
<1> HIDE DEF p1, p2
<1>3. Parts(q, n, p1, p2)
  BY <1>1, <1>2 DEF Parts
<1>4. Skips(q, n, r)
  BY <1>3, JoinedSkip
<1> HIDE DEF r
<1>5. IsInjective(r) /\ \A a \in 1 .. Len(r) : r[a] # q[n]
  BY <1>4, SkippedOnce
<1>6. r \in Seq(Manifest)
  BY <1>4 DEF Skips
<1>7. QED
  BY <1>5, <1>6 DEF r, p1, p2

\* What is known of manifests is known once.
LEMMA UsedOnce ==
  ASSUME NEW q \in Seq(Manifest), IsInjective(q), NEW m \in Manifest
  PROVE  Digests!Used(q, m) \in Seq(Manifest) /\ IsInjective(Digests!Used(q, m))
<1> DEFINE rest == Digests!RemoveFirst(q, m)
           all == Append(rest, m)
           I == {i \in 1 .. Len(q) : q[i] = m}
<1>1. /\ rest \in Seq(Manifest) /\ IsInjective(rest)
      /\ \A a \in 1 .. Len(rest) : rest[a] # m
  <2>1. CASE I = {}
    <3>1. rest = q
      BY <2>1 DEF Digests!RemoveFirst
    <3>2. \A a \in 1 .. Len(q) : q[a] # m
      BY <2>1
    <3>3. QED
      BY <3>1, <3>2
  <2>2. CASE I # {}
    <3>1. PICK i \in I : \A k \in I : ~(k < i)
      <4>1. I \in SUBSET Nat
        OBVIOUS
      <4>2. QED
        BY <2>2, <4>1, LeastOf
    <3>2. Digests!Min(I) \in I
      <4>1. i \in I /\ \A k \in I : i <= k
        BY <3>1
      <4>2. QED
        BY <4>1 DEF Digests!Min
    <3>3. Digests!RemoveFirst(q, m)
            = SubSeq(q, 1, Digests!Min(I) - 1) \o SubSeq(q, Digests!Min(I) + 1, Len(q))
      BY <2>2 DEF Digests!RemoveFirst, Digests!SelectInSeq, Digests!RemoveAt
    <3> DEFINE n == Digests!Min(I)
    <3>4. n \in 1 .. Len(q) /\ q[n] = m
      BY <3>2
    <3>5. rest = SubSeq(q, 1, n - 1) \o SubSeq(q, n + 1, Len(q))
      BY <3>3
    <3> HIDE DEF n, I
    <3>6. rest \in Seq(Manifest) /\ IsInjective(rest) /\ \A a \in 1 .. Len(rest) : rest[a] # q[n]
      <4> HIDE DEF rest
      <4>1. QED
        BY <3>4, <3>5, WithoutOnce
    <3> HIDE DEF rest
    <3>7. QED
      BY <3>4, <3>6
  <2>3. QED
    BY <2>1, <2>2
<1> HIDE DEF rest
<1>2. all \in Seq(Manifest) /\ IsInjective(all) /\ all # <<>>
  BY <1>1, AppendedOnce
<1> HIDE DEF all
<1>3. Tail(all) \in Seq(Manifest) /\ IsInjective(Tail(all))
  BY <1>2, TailOnce
<1> DEFINE used == Digests!Used(q, m)
<1>4. used = all \/ used = Tail(all)
  BY DEF Digests!Used, all, rest
<1> HIDE DEF used
<1>5. CASE used = all
  BY <1>2, <1>5 DEF used
<1>6. CASE used = Tail(all)
  BY <1>3, <1>6 DEF used
<1>7. QED
  BY <1>4, <1>5, <1>6

\* The job is told at once of the end of a read, or it joins the read.
Answered(d, m, j, q) == [d EXCEPT !.cached = q, !.sent = @ \cup {<<m, j, TRUE>>}]

LEMMA ToldOnce ==
  ASSUME NEW d, ReadsOnce(d), NEW j \in Job, NEW m \in Manifest, m \notin ReadFor(d, j),
         NEW q \in Seq(Manifest), IsInjective(q)
  PROVE  LET g == Answered(d, m, j, q) IN
         /\ ReadsOnce(g)
         /\ \A i \in Job :
              ReadFor(g, i) = IF i = j THEN ReadFor(d, i) \cup {m} ELSE ReadFor(d, i)
<1> DEFINE g == Answered(d, m, j, q)
<1>1. /\ DOMAIN d = {"pending", "cached", "sent"}
      /\ d.pending \in [Manifest -> SUBSET Job] /\ d.sent \subseteq Manifest \X Job \X BOOLEAN
      /\ d.cached \in Seq(Manifest) /\ IsInjective(d.cached)
      /\ \A n \in Manifest : \A i \in Job :
           /\ <<n, i, TRUE>> \in d.sent => <<n, i, FALSE>> \notin d.sent
           /\ i \in d.pending[n] => <<n, i, TRUE>> \notin d.sent /\ <<n, i, FALSE>> \notin d.sent
  BY DEF ReadsOnce
<1>2. /\ DOMAIN g = {"pending", "cached", "sent"} /\ g.cached = q
      /\ g.pending = d.pending /\ g.sent = d.sent \cup {<<m, j, TRUE>>}
  BY <1>1 DEF Answered
<1>3. j \notin d.pending[m] /\ <<m, j, TRUE>> \notin d.sent /\ <<m, j, FALSE>> \notin d.sent
  BY DEF ReadFor
<1> HIDE DEF g
<1>4. g.pending \in [Manifest -> SUBSET Job] /\ g.sent \subseteq Manifest \X Job \X BOOLEAN
  <2>1. <<m, j, TRUE>> \in Manifest \X Job \X BOOLEAN
    OBVIOUS
  <2>2. g.pending \in [Manifest -> SUBSET Job]
    BY <1>1, <1>2
  <2> DEFINE X == Manifest \X Job \X BOOLEAN
  <2> HIDE DEF X
  <2>3. g.sent \subseteq X
    BY <1>1, <1>2, <2>1 DEF X
  <2>4. QED
    BY <2>2, <2>3 DEF X
<1>5. ASSUME NEW n \in Manifest, NEW i \in Job
      PROVE  /\ <<n, i, TRUE>> \in g.sent => <<n, i, FALSE>> \notin g.sent
             /\ i \in g.pending[n] => <<n, i, TRUE>> \notin g.sent /\ <<n, i, FALSE>> \notin g.sent
             /\ i \in g.pending[n] \/ <<n, i, TRUE>> \in g.sent \/ <<n, i, FALSE>> \in g.sent
                <=> \/ i \in d.pending[n] \/ <<n, i, TRUE>> \in d.sent \/ <<n, i, FALSE>> \in d.sent
                    \/ n = m /\ i = j
  BY <1>1, <1>2, <1>3
<1>6. ReadsOnce(g)
  BY <1>1, <1>2, <1>4, <1>5 DEF ReadsOnce
<1>7. ASSUME NEW i \in Job
      PROVE  ReadFor(g, i) = IF i = j THEN ReadFor(d, i) \cup {m} ELSE ReadFor(d, i)
  BY <1>5 DEF ReadFor
<1>8. QED
  BY <1>6, <1>7 DEF g

LEMMA JoinsOnce ==
  ASSUME NEW d, ReadsOnce(d), NEW j \in Job, NEW m \in Manifest, m \notin ReadFor(d, j)
  PROVE  LET g == [d EXCEPT !.pending[m] = @ \cup {j}] IN
         /\ ReadsOnce(g)
         /\ \A i \in Job :
              ReadFor(g, i) = IF i = j THEN ReadFor(d, i) \cup {m} ELSE ReadFor(d, i)
<1> DEFINE g == [d EXCEPT !.pending[m] = @ \cup {j}]
<1>1. /\ DOMAIN d = {"pending", "cached", "sent"}
      /\ d.pending \in [Manifest -> SUBSET Job] /\ d.sent \subseteq Manifest \X Job \X BOOLEAN
      /\ d.cached \in Seq(Manifest) /\ IsInjective(d.cached)
      /\ \A n \in Manifest : \A i \in Job :
           /\ <<n, i, TRUE>> \in d.sent => <<n, i, FALSE>> \notin d.sent
           /\ i \in d.pending[n] => <<n, i, TRUE>> \notin d.sent /\ <<n, i, FALSE>> \notin d.sent
  BY DEF ReadsOnce
<1>2. /\ DOMAIN g = {"pending", "cached", "sent"} /\ g.cached = d.cached
      /\ g.pending = [d.pending EXCEPT ![m] = @ \cup {j}] /\ g.sent = d.sent
  BY <1>1
<1>3. j \notin d.pending[m] /\ <<m, j, TRUE>> \notin d.sent /\ <<m, j, FALSE>> \notin d.sent
  BY DEF ReadFor
<1> HIDE DEF g
<1>4. g.pending \in [Manifest -> SUBSET Job] /\ g.sent \subseteq Manifest \X Job \X BOOLEAN
  BY <1>1, <1>2
<1>5. ASSUME NEW n \in Manifest, NEW i \in Job
      PROVE  /\ <<n, i, TRUE>> \in g.sent => <<n, i, FALSE>> \notin g.sent
             /\ i \in g.pending[n] => <<n, i, TRUE>> \notin g.sent /\ <<n, i, FALSE>> \notin g.sent
             /\ i \in g.pending[n] \/ <<n, i, TRUE>> \in g.sent \/ <<n, i, FALSE>> \in g.sent
                <=> \/ i \in d.pending[n] \/ <<n, i, TRUE>> \in d.sent \/ <<n, i, FALSE>> \in d.sent
                    \/ n = m /\ i = j
  <2>1. g.pending[n] = IF n = m THEN d.pending[n] \cup {j} ELSE d.pending[n]
    BY <1>1, <1>2
  <2>2. i \in g.pending[n] <=> i \in d.pending[n] \/ (n = m /\ i = j)
    BY <2>1
  <2>3. QED
    BY <1>1, <1>2, <1>3, <2>2
<1>6. ReadsOnce(g)
  BY <1>1, <1>2, <1>4, <1>5 DEF ReadsOnce
<1>7. ASSUME NEW i \in Job
      PROVE  ReadFor(g, i) = IF i = j THEN ReadFor(d, i) \cup {m} ELSE ReadFor(d, i)
  BY <1>5 DEF ReadFor
<1>8. QED
  BY <1>6, <1>7 DEF g

\* The read of a manifest for the job is asked for.
LEMMA WorksGet ==
  ASSUME NEW s, NEW j \in Job, NEW t, Works(s, j, t),
         NEW m \in Manifest, m \notin ReadFor(t.digests, j)
  PROVE  LET u == [t EXCEPT !.digests = Digests!Get(@, m, j)] IN
         /\ Works(s, j, u) /\ u.job = t.job /\ u.cache = t.cache
         /\ ListedIn(u, j) = ListedIn(t, j)
         /\ ReadFor(u.digests, j) = ReadFor(t.digests, j) \cup {m}
<1> DEFINE d == t.digests
           g == Digests!Get(d, m, j)
           u == [t EXCEPT !.digests = Digests!Get(@, m, j)]
           q == Digests!Used(d.cached, m)
<1>1. ReadsOnce(d) /\ DOMAIN t = StateFields
  BY DEF Works, OnlyTracks
<1>2. \/ g = [d EXCEPT !.cached = q, !.sent = @ \cup {<<m, j, TRUE>>}]
      \/ g = [d EXCEPT !.pending[m] = @ \cup {j}]
  BY DEF Digests!Get
<1>3. /\ u.job = t.job /\ u.cache = t.cache /\ u.digests = g /\ u.tasks = t.tasks
      /\ u = [t EXCEPT !.digests = g]
  BY <1>1 DEF StateFields
<1>4. m \notin ReadFor(d, j)
  OBVIOUS
<1>5. q \in Seq(Manifest) /\ IsInjective(q)
  BY <1>1, UsedOnce DEF ReadsOnce
<1> HIDE DEF g, d, u, q
<1>6. /\ ReadsOnce(g)
      /\ \A i \in Job :
           ReadFor(g, i) = IF i = j THEN ReadFor(d, i) \cup {m} ELSE ReadFor(d, i)
  <2>1. CASE g = [d EXCEPT !.cached = q, !.sent = @ \cup {<<m, j, TRUE>>}]
    <3>1. g = Answered(d, m, j, q)
      BY <2>1 DEF Answered
    <3>2. QED
      BY <1>1, <1>4, <1>5, <3>1, ToldOnce
  <2>2. CASE g = [d EXCEPT !.pending[m] = @ \cup {j}]
    BY <1>1, <1>4, <2>2, JoinsOnce
  <2>3. QED
    BY <1>2, <2>1, <2>2
<1>7. OnlyTracks(s, j, u)
  <2>1. DigestsTyped(d)
    BY <1>1 DEF ReadsOnce, DigestsTyped
  <2>2. DigestsTyped(g) /\ ReadsStart(d, g, {j})
    BY <2>1, GetStarts DEF g
  <2>3. QED
    BY <1>3, <2>2, TracksDigests DEF Works, d
<1>8. \A i \in Job : ListedIn(u, i) = ListedIn(t, i) /\ (OnceIn(t, i) => OnceIn(u, i))
  BY <1>3 DEF ListedIn, OnceIn
<1>9. ASSUME NEW i \in Job \ {j}
      PROVE  SameFor(s, u, i)
  <2>1. SameFor(s, t, i)
    BY DEF Works
  <2>2. ReadFor(u.digests, i) = ReadFor(t.digests, i)
    BY <1>3, <1>6 DEF d
  <2>3. QED
    BY <1>8, <2>1, <2>2 DEF SameFor
<1>10. Works(s, j, u)
  BY <1>3, <1>6, <1>7, <1>8, <1>9 DEF Works, TasksRight
<1>11. QED
  BY <1>3, <1>6, <1>8, <1>10 DEF d, u

-----------------------------------------------------------------------------
\* A layer's state changes.

\* y is x but for the state of the layer d.
Changed(x, y, d) ==
  /\ y.keys = x.keys /\ y.stacked = x.stacked /\ y.deps = x.deps
  /\ d \in DOMAIN x.bottom /\ DOMAIN y.bottom = DOMAIN x.bottom
  /\ \A e \in DOMAIN x.bottom \ {d} : y.bottom[e] = x.bottom[e]

LEMMA ChangedBottom ==
  ASSUME NEW j \in Job, NEW x, TrackerTyped(j, x), NEW d \in DOMAIN x.bottom,
         NEW b \in PendingBottomLayer
  PROVE  LET y == [x EXCEPT !.bottom[d] = b] IN
         TrackerTyped(j, y) /\ Changed(x, y, d) /\ y.bottom[d] = b
<1> DEFINE y == [x EXCEPT !.bottom[d] = b]
<1>1. /\ DOMAIN y = DOMAIN x /\ y.st = x.st /\ y.keys = x.keys /\ y.stacked = x.stacked
      /\ y.deps = x.deps /\ y.bottom = [x.bottom EXCEPT ![d] = b]
  BY DEF TrackerTyped
<1>7. IsRecord(y)
  BY UpdatesAreRecords
<1> HIDE DEF y
<1>2. x.bottom \in [ToSet(Layers[j]) -> PendingBottomLayer]
  BY DEF TrackerTyped
<1>3. y.bottom \in [ToSet(Layers[j]) -> PendingBottomLayer] /\ y.bottom[d] = b
  BY <1>1, <1>2
<1>4. TrackerTyped(j, y)
  BY <1>1, <1>3, <1>7 DEF TrackerTyped
<1>5. Changed(x, y, d)
  BY <1>1, <1>2 DEF Changed
<1>6. QED
  BY <1>3, <1>4, <1>5 DEF y

\* Until the layer is ready, no other key is waited for, or no longer.
LEMMA ChangedWants ==
  ASSUME NEW j \in Job, NEW x, NEW y, NEW d, Changed(x, y, d),
         x.bottom[d].st # "ready", y.bottom[d].st # "ready",
         NEW k \in Key, k # Blob(d), k # Bottom(d)
  PROVE  Wants(j, y, k) <=> Wants(j, x, k)
<1>1. CASE k[1] = "blob" /\ k = Blob(k[2])
  <2>1. k[2] # d
    BY <1>1
  <2>2. QED
    BY <1>1, <2>1 DEF Wants, Changed
<1>2. CASE k[1] = "bottom" /\ k = Bottom(k[2])
  <2>1. k[2] # d
    BY <1>2
  <2>2. QED
    BY <1>2, <2>1 DEF Wants, Changed
<1>3. CASE k[1] = "upper"
  BY <1>3 DEF Wants, Changed
<1>4. QED
  BY <1>1, <1>2, <1>3, KeyForms

LEMMA WantsForms ==
  ASSUME NEW j, NEW x, NEW d
  PROVE  /\ Wants(j, x, Blob(d)) <=> \/ d \in DOMAIN x.bottom /\ x.bottom[d].st = "artifact"
                                     \/ x.deps[d] # <<>>
         /\ Wants(j, x, Bottom(d)) <=> d \in DOMAIN x.bottom /\ x.bottom[d].st = "fsLayer"
         /\ Wants(j, x, Upper(d)) <=> /\ \A e \in DOMAIN x.bottom : x.bottom[e].st = "ready"
                                      /\ x.stacked < Len(Layers[j])
                                      /\ Upper(d) = Upper(Prefix(j, x.stacked + 1))
<1>1. ASSUME NEW k
      PROVE  /\ k[1] = "blob" =>
                   (Wants(j, x, k) <=> \/ k[2] \in DOMAIN x.bottom /\ x.bottom[k[2]].st = "artifact"
                                       \/ x.deps[k[2]] # <<>>)
             /\ k[1] = "bottom" =>
                   (Wants(j, x, k) <=> k[2] \in DOMAIN x.bottom /\ x.bottom[k[2]].st = "fsLayer")
             /\ k[1] = "upper" =>
                   (Wants(j, x, k) <=> /\ \A e \in DOMAIN x.bottom : x.bottom[e].st = "ready"
                                       /\ x.stacked < Len(Layers[j])
                                       /\ k = Upper(Prefix(j, x.stacked + 1)))
  BY DEF Wants
<1>2. Wants(j, x, Blob(d)) <=> \/ d \in DOMAIN x.bottom /\ x.bottom[d].st = "artifact"
                               \/ x.deps[d] # <<>>
  BY <1>1, KeysDiffer
<1>3. Wants(j, x, Bottom(d)) <=> d \in DOMAIN x.bottom /\ x.bottom[d].st = "fsLayer"
  BY <1>1, KeysDiffer
<1>4. Wants(j, x, Upper(d)) <=> /\ \A e \in DOMAIN x.bottom : x.bottom[e].st = "ready"
                                /\ x.stacked < Len(Layers[j])
                                /\ Upper(d) = Upper(Prefix(j, x.stacked + 1))
  BY <1>1, KeysDiffer
<1>5. QED
  BY <1>2, <1>3, <1>4

LEMMA ChangedListens ==
  ASSUME NEW j \in Job, NEW x, NEW y, NEW d \in Digest, Changed(x, y, d),
         x.bottom[d].st # "ready", y.bottom[d].st # "ready",
         NEW L, NEW O, NEW P, Listens(j, x, L, O),
         \A k \in Key : k # Blob(d) /\ k # Bottom(d) => (k \in P <=> k \in O),
         \A k \in {Blob(d), Bottom(d)} :
           /\ k \in P => Wants(j, y, k)
           /\ k \in L <=> Wants(j, y, k) /\ k \notin P
  PROVE  Listens(j, y, L, P)
<1>1. ASSUME NEW k \in Key
      PROVE  /\ k \in P => Wants(j, y, k)
             /\ k \in L <=> Wants(j, y, k) /\ k \notin P
  <2>1. CASE k # Blob(d) /\ k # Bottom(d)
    <3>1. Wants(j, y, k) <=> Wants(j, x, k)
      BY <2>1, ChangedWants
    <3>2. QED
      BY <2>1, <3>1 DEF Listens
  <2>2. CASE k \in {Blob(d), Bottom(d)}
    BY <2>2
  <2>3. QED
    BY <2>1, <2>2
<1>2. QED
  BY <1>1 DEF Listens

\* The artifact of a layer is there: its bottom layer is built of it.
LEMMA LayerIsBuilt ==
  ASSUME NEW j \in Job, NEW x, NEW y, NEW d \in Digest, Changed(x, y, d), TrackerTyped(j, y),
         NEW L, NEW R, NEW O, NEW D, TrackerRight(j, x, L, R, O, D, {}, {}),
         x.bottom[d].st = "artifact", y.bottom[d].st = "fsLayer", x.deps[d] = <<>>,
         d \notin Manifest, Blob(d) \in x.keys, Blob(d) \in O
  PROVE  TrackerRight(j, y, L, R, (O \ {Blob(d)}) \cup {Bottom(d)}, D, {}, {})
<1>1. /\ TrackerTyped(j, x) /\ Listens(j, x, L, O) /\ Reads(x, R, {}) /\ Depends(x, {}, {})
      /\ Counts(x, D) /\ Has(j, x, {}, {})
  BY DEF TrackerRight
<1>2. /\ y.keys = x.keys /\ y.stacked = x.stacked /\ y.deps = x.deps
      /\ d \in DOMAIN x.bottom /\ DOMAIN y.bottom = DOMAIN x.bottom
      /\ \A e \in DOMAIN x.bottom \ {d} : y.bottom[e] = x.bottom[e]
  BY DEF Changed
<1>3. Listens(j, y, L, (O \ {Blob(d)}) \cup {Bottom(d)})
  <2> DEFINE P == (O \ {Blob(d)}) \cup {Bottom(d)}
  <2>1. /\ Wants(j, y, Blob(d)) <=> y.bottom[d].st = "artifact" \/ y.deps[d] # <<>>
        /\ Wants(j, y, Bottom(d)) <=> y.bottom[d].st = "fsLayer"
        /\ Wants(j, x, Blob(d)) <=> x.bottom[d].st = "artifact" \/ x.deps[d] # <<>>
        /\ Wants(j, x, Bottom(d)) <=> x.bottom[d].st = "fsLayer"
    BY <1>2, WantsForms
  <2>2. Blob(d) \in Key /\ Bottom(d) \in Key /\ Blob(d) # Bottom(d)
    BY KeyForms, KeysDiffer
  <2>3. \A k \in {Blob(d), Bottom(d)} :
          /\ k \in O => Wants(j, x, k)
          /\ k \in L <=> Wants(j, x, k) /\ k \notin O
    BY <1>1, <2>2 DEF Listens
  <2>4. \A k \in Key : k # Blob(d) /\ k # Bottom(d) => (k \in P <=> k \in O)
    OBVIOUS
  <2>5. \A k \in {Blob(d), Bottom(d)} :
          /\ k \in P => Wants(j, y, k)
          /\ k \in L <=> Wants(j, y, k) /\ k \notin P
    BY <1>2, <2>1, <2>2, <2>3
  <2> HIDE DEF P
  <2>6. x.bottom[d].st # "ready" /\ y.bottom[d].st # "ready"
    OBVIOUS
  <2>7. Listens(j, y, L, P)
    BY <1>1, <2>4, <2>5, <2>6, ChangedListens
  <2>8. QED
    BY <2>7 DEF P
<1>4. Reads(y, R, {})
  BY <1>1, <1>2 DEF Reads
<1>5. Depends(y, {}, {})
  BY <1>1, <1>2 DEF Depends
<1>6. Counts(y, D)
  <2>1. \A m : Dependent(y, m) = Dependent(x, m)
    BY <1>2 DEF Dependent
  <2>2. QED
    BY <1>1, <1>2, <2>1 DEF Counts
<1>7. Has(j, y, {}, {})
  BY <1>1, <1>2 DEF Has
<1>8. QED
  BY <1>3, <1>4, <1>5, <1>6, <1>7 DEF TrackerRight

\* Or it is a manifest, and is read.
LEMMA ManifestIsRead ==
  ASSUME NEW j \in Job, NEW x, NEW y, NEW d \in Digest, Changed(x, y, d), TrackerTyped(j, y),
         NEW L, NEW R, NEW O, NEW D, TrackerRight(j, x, L, R, O, D, {}, {}),
         x.bottom[d].st = "artifact", y.bottom[d].st = "digests", x.deps[d] = <<>>,
         d \in Manifest, Blob(d) \in x.keys, Blob(d) \in O
  PROVE  TrackerRight(j, y, L, R \cup {d}, O \ {Blob(d)}, D, {}, {})
<1>1. /\ TrackerTyped(j, x) /\ Listens(j, x, L, O) /\ Reads(x, R, {}) /\ Depends(x, {}, {})
      /\ Counts(x, D) /\ Has(j, x, {}, {})
  BY DEF TrackerRight
<1>2. /\ y.keys = x.keys /\ y.stacked = x.stacked /\ y.deps = x.deps
      /\ d \in DOMAIN x.bottom /\ DOMAIN y.bottom = DOMAIN x.bottom
      /\ \A e \in DOMAIN x.bottom \ {d} : y.bottom[e] = x.bottom[e]
  BY DEF Changed
<1>3. Listens(j, y, L, O \ {Blob(d)})
  <2> DEFINE P == O \ {Blob(d)}
  <2>1. /\ Wants(j, y, Blob(d)) <=> y.bottom[d].st = "artifact" \/ y.deps[d] # <<>>
        /\ Wants(j, y, Bottom(d)) <=> y.bottom[d].st = "fsLayer"
        /\ Wants(j, x, Blob(d)) <=> x.bottom[d].st = "artifact" \/ x.deps[d] # <<>>
        /\ Wants(j, x, Bottom(d)) <=> x.bottom[d].st = "fsLayer"
    BY <1>2, WantsForms
  <2>2. Blob(d) \in Key /\ Bottom(d) \in Key /\ Blob(d) # Bottom(d)
    BY KeyForms, KeysDiffer
  <2>3. \A k \in {Blob(d), Bottom(d)} :
          /\ k \in O => Wants(j, x, k)
          /\ k \in L <=> Wants(j, x, k) /\ k \notin O
    BY <1>1, <2>2 DEF Listens
  <2>4. \A k \in Key : k # Blob(d) /\ k # Bottom(d) => (k \in P <=> k \in O)
    OBVIOUS
  <2>5. \A k \in {Blob(d), Bottom(d)} :
          /\ k \in P => Wants(j, y, k)
          /\ k \in L <=> Wants(j, y, k) /\ k \notin P
    BY <1>2, <2>1, <2>2, <2>3
  <2> HIDE DEF P
  <2>6. x.bottom[d].st # "ready" /\ y.bottom[d].st # "ready"
    OBVIOUS
  <2>7. Listens(j, y, L, P)
    BY <1>1, <2>4, <2>5, <2>6, ChangedListens
  <2>8. QED
    BY <2>7 DEF P
<1>4. Reads(y, R \cup {d}, {})
  BY <1>1, <1>2 DEF Reads
<1>5. Depends(y, {}, {})
  BY <1>1, <1>2 DEF Depends
<1>6. Counts(y, D)
  <2>1. \A m : Dependent(y, m) = Dependent(x, m)
    BY <1>2 DEF Dependent
  <2>2. QED
    BY <1>1, <1>2, <2>1 DEF Counts
<1>7. Has(j, y, {}, {})
  BY <1>1, <1>2 DEF Has
<1>8. QED
  BY <1>3, <1>4, <1>5, <1>6, <1>7 DEF TrackerRight

\* A manifest that has been read needs nothing more.
LEMMA NothingIsLacking ==
  ASSUME NEW j \in Job, NEW x, NEW y, NEW d \in Digest, Changed(x, y, d), TrackerTyped(j, y),
         NEW L, NEW R, NEW O, NEW D, TrackerRight(j, x, L, R, O, D, {d}, {}),
         d \notin R, y.bottom[d].st = "fsLayer", Dependent(x, d) = {}
  PROVE  TrackerRight(j, y, L, R, O \cup {Bottom(d)}, D, {}, {})
<1>1. /\ TrackerTyped(j, x) /\ Listens(j, x, L, O) /\ Reads(x, R, {d}) /\ Depends(x, {d}, {})
      /\ Counts(x, D) /\ Has(j, x, {d}, {})
  BY DEF TrackerRight
<1>2. /\ y.keys = x.keys /\ y.stacked = x.stacked /\ y.deps = x.deps
      /\ d \in DOMAIN x.bottom /\ DOMAIN y.bottom = DOMAIN x.bottom
      /\ \A e \in DOMAIN x.bottom \ {d} : y.bottom[e] = x.bottom[e]
  BY DEF Changed
<1>9. /\ x.bottom[d].st = "digests"
       /\ \A e \in Digest : d \notin ToSet(x.deps[e])
  BY <1>1 DEF Reads, Dependent
<1>3. Listens(j, y, L, O \cup {Bottom(d)})
  <2> DEFINE P == O \cup {Bottom(d)}
  <2>1. /\ Wants(j, y, Blob(d)) <=> y.bottom[d].st = "artifact" \/ y.deps[d] # <<>>
        /\ Wants(j, y, Bottom(d)) <=> y.bottom[d].st = "fsLayer"
        /\ Wants(j, x, Blob(d)) <=> x.bottom[d].st = "artifact" \/ x.deps[d] # <<>>
        /\ Wants(j, x, Bottom(d)) <=> x.bottom[d].st = "fsLayer"
    BY <1>2, WantsForms
  <2>2. Blob(d) \in Key /\ Bottom(d) \in Key /\ Blob(d) # Bottom(d)
    BY KeyForms, KeysDiffer
  <2>3. \A k \in {Blob(d), Bottom(d)} :
          /\ k \in O => Wants(j, x, k)
          /\ k \in L <=> Wants(j, x, k) /\ k \notin O
    BY <1>1, <2>2 DEF Listens
  <2>4. \A k \in Key : k # Blob(d) /\ k # Bottom(d) => (k \in P <=> k \in O)
    OBVIOUS
  <2>5. \A k \in {Blob(d), Bottom(d)} :
          /\ k \in P => Wants(j, y, k)
          /\ k \in L <=> Wants(j, y, k) /\ k \notin P
    BY <1>2, <1>9, <2>1, <2>2, <2>3
  <2> HIDE DEF P
  <2>6. x.bottom[d].st # "ready" /\ y.bottom[d].st # "ready"
    BY <1>9
  <2>7. Listens(j, y, L, P)
    BY <1>1, <2>4, <2>5, <2>6, ChangedListens
  <2>8. QED
    BY <2>7 DEF P
<1>4. Reads(y, R, {})
  BY <1>1, <1>2, <1>9 DEF Reads
<1>5. Depends(y, {}, {})
  BY <1>1, <1>2, <1>9 DEF Depends
<1>6. Counts(y, D)
  <2>1. \A m : Dependent(y, m) = Dependent(x, m)
    BY <1>2 DEF Dependent
  <2>2. QED
    BY <1>1, <1>2, <1>9, <2>1 DEF Counts
<1>7. Has(j, y, {}, {})
  BY <1>1, <1>2, <1>9 DEF Has
<1>8. QED
  BY <1>3, <1>4, <1>5, <1>6, <1>7 DEF TrackerRight

\* Or it waits for some artifacts.
LEMMA SomeAreLacking ==
  ASSUME NEW j \in Job, NEW x, NEW y, NEW d \in Digest, Changed(x, y, d), TrackerTyped(j, y),
         NEW L, NEW R, NEW O, NEW D, TrackerRight(j, x, L, R, O, D, {d}, {}), y.bottom[d].st = "artifacts",
         y.bottom[d].left = Cardinality(Dependent(x, d)), d \in Manifest
  PROVE  TrackerRight(j, y, L, R, O, D, {}, {})
<1>1. /\ TrackerTyped(j, x) /\ Listens(j, x, L, O) /\ Reads(x, R, {d}) /\ Depends(x, {d}, {})
      /\ Counts(x, D) /\ Has(j, x, {d}, {})
  BY DEF TrackerRight
<1>2. /\ y.keys = x.keys /\ y.stacked = x.stacked /\ y.deps = x.deps
      /\ d \in DOMAIN x.bottom /\ DOMAIN y.bottom = DOMAIN x.bottom
      /\ \A e \in DOMAIN x.bottom \ {d} : y.bottom[e] = x.bottom[e]
  BY DEF Changed
<1>9. x.bottom[d].st = "digests"
  BY <1>1 DEF Reads
<1>10. Cardinality(Dependent(x, d)) \in Nat
  <2>1. Dependent(x, d) \subseteq Entries[d]
    BY <1>1 DEF Depends, Dependent
  <2>2. QED
    BY <2>1, FS_Subset, FS_CardinalityType, LayersAssumption
<1>3. Listens(j, y, L, O)
  <2> DEFINE P == O
  <2>1. /\ Wants(j, y, Blob(d)) <=> y.bottom[d].st = "artifact" \/ y.deps[d] # <<>>
        /\ Wants(j, y, Bottom(d)) <=> y.bottom[d].st = "fsLayer"
        /\ Wants(j, x, Blob(d)) <=> x.bottom[d].st = "artifact" \/ x.deps[d] # <<>>
        /\ Wants(j, x, Bottom(d)) <=> x.bottom[d].st = "fsLayer"
    BY <1>2, WantsForms
  <2>2. Blob(d) \in Key /\ Bottom(d) \in Key /\ Blob(d) # Bottom(d)
    BY KeyForms, KeysDiffer
  <2>3. \A k \in {Blob(d), Bottom(d)} :
          /\ k \in O => Wants(j, x, k)
          /\ k \in L <=> Wants(j, x, k) /\ k \notin O
    BY <1>1, <2>2 DEF Listens
  <2>4. \A k \in Key : k # Blob(d) /\ k # Bottom(d) => (k \in P <=> k \in O)
    OBVIOUS
  <2>5. \A k \in {Blob(d), Bottom(d)} :
          /\ k \in P => Wants(j, y, k)
          /\ k \in L <=> Wants(j, y, k) /\ k \notin P
    BY <1>2, <1>9, <2>1, <2>2, <2>3
  <2> HIDE DEF P
  <2>6. x.bottom[d].st # "ready" /\ y.bottom[d].st # "ready"
    BY <1>9
  <2>7. Listens(j, y, L, P)
    BY <1>1, <2>4, <2>5, <2>6, ChangedListens
  <2>8. QED
    BY <2>7 DEF P
<1>4. Reads(y, R, {})
  BY <1>1, <1>2, <1>9 DEF Reads
<1>5. Depends(y, {}, {})
  BY <1>1, <1>2, <1>9 DEF Depends
<1>6. Counts(y, D)
  <2>1. \A m : Dependent(y, m) = Dependent(x, m)
    BY <1>2 DEF Dependent
  <2>2. QED
    BY <1>1, <1>2, <1>9, <1>10, <2>1 DEF Counts
<1>7. Has(j, y, {}, {})
  BY <1>1, <1>2, <1>9 DEF Has
<1>8. QED
  BY <1>3, <1>4, <1>5, <1>6, <1>7 DEF TrackerRight

\* A manifest has the last artifact it waited for.
LEMMA LastIsThere ==
  ASSUME NEW j \in Job, NEW x, NEW y, NEW d \in Digest, Changed(x, y, d), TrackerTyped(j, y),
         NEW L, NEW R, NEW O, NEW D, TrackerRight(j, x, L, R, O, D, {}, {}),
         d \in D, x.bottom[d].left = 1, y.bottom[d].st = "fsLayer"
  PROVE  TrackerRight(j, y, L, R, O \cup {Bottom(d)}, D \ {d}, {}, {})
<1>1. /\ TrackerTyped(j, x) /\ Listens(j, x, L, O) /\ Reads(x, R, {}) /\ Depends(x, {}, {})
      /\ Counts(x, D) /\ Has(j, x, {}, {})
  BY DEF TrackerRight
<1>2. /\ y.keys = x.keys /\ y.stacked = x.stacked /\ y.deps = x.deps
      /\ d \in DOMAIN x.bottom /\ DOMAIN y.bottom = DOMAIN x.bottom
      /\ \A e \in DOMAIN x.bottom \ {d} : y.bottom[e] = x.bottom[e]
  BY DEF Changed
<1>10. IsFiniteSet(Dependent(x, d)) /\ Cardinality(Dependent(x, d)) \in Nat
  <2>1. d \in Manifest /\ Dependent(x, d) \subseteq Entries[d]
    BY <1>1 DEF Counts, Depends, Dependent
  <2>2. QED
    BY <2>1, FS_Subset, FS_CardinalityType, LayersAssumption
<1>9. /\ x.bottom[d].st = "artifacts"
      /\ \A e \in Digest : d \notin ToSet(x.deps[e])
  <2>1. x.bottom[d].st = "artifacts" /\ x.bottom[d].left = Cardinality(Dependent(x, d)) + 1
    BY <1>1, <1>2 DEF Counts
  <2>2. Cardinality(Dependent(x, d)) = 0
    BY <1>10, <2>1
  <2>3. Dependent(x, d) = {}
    BY <1>10, <2>2, FS_EmptySet
  <2>4. QED
    BY <2>1, <2>3 DEF Dependent
<1>3. Listens(j, y, L, O \cup {Bottom(d)})
  <2> DEFINE P == O \cup {Bottom(d)}
  <2>1. /\ Wants(j, y, Blob(d)) <=> y.bottom[d].st = "artifact" \/ y.deps[d] # <<>>
        /\ Wants(j, y, Bottom(d)) <=> y.bottom[d].st = "fsLayer"
        /\ Wants(j, x, Blob(d)) <=> x.bottom[d].st = "artifact" \/ x.deps[d] # <<>>
        /\ Wants(j, x, Bottom(d)) <=> x.bottom[d].st = "fsLayer"
    BY <1>2, WantsForms
  <2>2. Blob(d) \in Key /\ Bottom(d) \in Key /\ Blob(d) # Bottom(d)
    BY KeyForms, KeysDiffer
  <2>3. \A k \in {Blob(d), Bottom(d)} :
          /\ k \in O => Wants(j, x, k)
          /\ k \in L <=> Wants(j, x, k) /\ k \notin O
    BY <1>1, <2>2 DEF Listens
  <2>4. \A k \in Key : k # Blob(d) /\ k # Bottom(d) => (k \in P <=> k \in O)
    OBVIOUS
  <2>5. \A k \in {Blob(d), Bottom(d)} :
          /\ k \in P => Wants(j, y, k)
          /\ k \in L <=> Wants(j, y, k) /\ k \notin P
    BY <1>2, <1>9, <2>1, <2>2, <2>3
  <2> HIDE DEF P
  <2>6. x.bottom[d].st # "ready" /\ y.bottom[d].st # "ready"
    BY <1>9
  <2>7. Listens(j, y, L, P)
    BY <1>1, <2>4, <2>5, <2>6, ChangedListens
  <2>8. QED
    BY <2>7 DEF P
<1>4. Reads(y, R, {})
  BY <1>1, <1>2, <1>9 DEF Reads
<1>5. Depends(y, {}, {})
  BY <1>1, <1>2, <1>9 DEF Depends
<1>6. Counts(y, D \ {d})
  <2>1. \A m : Dependent(y, m) = Dependent(x, m)
    BY <1>2 DEF Dependent
  <2>2. QED
    BY <1>1, <1>2, <1>9, <2>1 DEF Counts
<1>7. Has(j, y, {}, {})
  BY <1>1, <1>2, <1>9 DEF Has
<1>8. QED
  BY <1>3, <1>4, <1>5, <1>6, <1>7 DEF TrackerRight

\* Or one that was not the last.
LEMMA OneIsThere ==
  ASSUME NEW j \in Job, NEW x, NEW y, NEW d \in Digest, Changed(x, y, d), TrackerTyped(j, y),
         NEW L, NEW R, NEW O, NEW D, TrackerRight(j, x, L, R, O, D, {}, {}), d \in D,
         y.bottom[d].st = "artifacts", y.bottom[d].left = x.bottom[d].left - 1
  PROVE  TrackerRight(j, y, L, R, O, D \ {d}, {}, {})
<1>1. /\ TrackerTyped(j, x) /\ Listens(j, x, L, O) /\ Reads(x, R, {}) /\ Depends(x, {}, {})
      /\ Counts(x, D) /\ Has(j, x, {}, {})
  BY DEF TrackerRight
<1>2. /\ y.keys = x.keys /\ y.stacked = x.stacked /\ y.deps = x.deps
      /\ d \in DOMAIN x.bottom /\ DOMAIN y.bottom = DOMAIN x.bottom
      /\ \A e \in DOMAIN x.bottom \ {d} : y.bottom[e] = x.bottom[e]
  BY DEF Changed
<1>9. /\ x.bottom[d].st = "artifacts"
      /\ x.bottom[d].left = Cardinality(Dependent(x, d)) + 1
  BY <1>1 DEF Counts
<1>10. Cardinality(Dependent(x, d)) \in Nat
  <2>1. d \in Manifest /\ Dependent(x, d) \subseteq Entries[d]
    BY <1>1 DEF Counts, Depends, Dependent
  <2>2. QED
    BY <2>1, FS_Subset, FS_CardinalityType, LayersAssumption
<1>3. Listens(j, y, L, O)
  <2> DEFINE P == O
  <2>1. /\ Wants(j, y, Blob(d)) <=> y.bottom[d].st = "artifact" \/ y.deps[d] # <<>>
        /\ Wants(j, y, Bottom(d)) <=> y.bottom[d].st = "fsLayer"
        /\ Wants(j, x, Blob(d)) <=> x.bottom[d].st = "artifact" \/ x.deps[d] # <<>>
        /\ Wants(j, x, Bottom(d)) <=> x.bottom[d].st = "fsLayer"
    BY <1>2, WantsForms
  <2>2. Blob(d) \in Key /\ Bottom(d) \in Key /\ Blob(d) # Bottom(d)
    BY KeyForms, KeysDiffer
  <2>3. \A k \in {Blob(d), Bottom(d)} :
          /\ k \in O => Wants(j, x, k)
          /\ k \in L <=> Wants(j, x, k) /\ k \notin O
    BY <1>1, <2>2 DEF Listens
  <2>4. \A k \in Key : k # Blob(d) /\ k # Bottom(d) => (k \in P <=> k \in O)
    OBVIOUS
  <2>5. \A k \in {Blob(d), Bottom(d)} :
          /\ k \in P => Wants(j, y, k)
          /\ k \in L <=> Wants(j, y, k) /\ k \notin P
    BY <1>2, <1>9, <2>1, <2>2, <2>3
  <2> HIDE DEF P
  <2>6. x.bottom[d].st # "ready" /\ y.bottom[d].st # "ready"
    BY <1>9
  <2>7. Listens(j, y, L, P)
    BY <1>1, <2>4, <2>5, <2>6, ChangedListens
  <2>8. QED
    BY <2>7 DEF P
<1>4. Reads(y, R, {})
  BY <1>1, <1>2, <1>9 DEF Reads
<1>5. Depends(y, {}, {})
  BY <1>1, <1>2, <1>9 DEF Depends
<1>6. Counts(y, D \ {d})
  <2>1. \A m : Dependent(y, m) = Dependent(x, m)
    BY <1>2 DEF Dependent
  <2>2. QED
    <3> DEFINE card == Cardinality(Dependent(x, d))
    <3>1. d \in D /\ x.bottom[d].left = card + 1 /\ card \in Nat
      BY <1>9, <1>10
    <3>2. y.bottom[d].left = card
      BY <3>1
    <3> HIDE DEF card
    <3>3. Cardinality(Dependent(y, d)) = card /\ card + 0 = card
      BY <2>1, <3>1 DEF card
    <3>4. QED
      BY <1>1, <1>2, <1>9, <2>1, <3>2, <3>3 DEF Counts
<1>7. Has(j, y, {}, {})
  BY <1>1, <1>2, <1>9 DEF Has
<1>8. QED
  BY <1>3, <1>4, <1>5, <1>6, <1>7 DEF TrackerRight

-----------------------------------------------------------------------------
\* The job gets a key.

LEMMA OwedSame ==
  ASSUME NEW j \in Job, NEW x, NEW L, NEW R, NEW O, NEW D, NEW E, NEW T,
         TrackerRight(j, x, L, R, O, D, E, T), NEW P, \A k \in Key : k \in P <=> k \in O
  PROVE  TrackerRight(j, x, L, R, P, D, E, T)
BY DEF TrackerRight, Listens

LEMMA KeyIsKept ==
  ASSUME NEW j \in Job, NEW x, NEW L, NEW R, NEW O, NEW D, NEW E, NEW T,
         TrackerRight(j, x, L, R, O, D, E, T), NEW k \in Needed(j)
  PROVE  LET y == [x EXCEPT !.keys = @ \cup {k}] IN
         TrackerRight(j, y, L, R, O, D, E, T) /\ k \in y.keys
<1> DEFINE y == [x EXCEPT !.keys = @ \cup {k}]
<1>1. /\ TrackerTyped(j, x) /\ Listens(j, x, L, O) /\ Reads(x, R, E) /\ Depends(x, E, T)
      /\ Counts(x, D) /\ Has(j, x, E, T)
  BY DEF TrackerRight
<1>2. /\ DOMAIN y = DOMAIN x /\ y.st = x.st /\ y.keys = x.keys \cup {k}
      /\ y.stacked = x.stacked /\ y.deps = x.deps /\ y.bottom = x.bottom
  BY <1>1 DEF TrackerTyped
<1>9. IsRecord(y)
  BY UpdatesAreRecords
<1> HIDE DEF y
<1>3. TrackerTyped(j, y)
  BY <1>1, <1>2, <1>9 DEF TrackerTyped
<1>4. Listens(j, y, L, O)
  BY <1>1, <1>2 DEF Listens, Wants
<1>5. Reads(y, R, E) /\ Depends(y, E, T)
  BY <1>1, <1>2 DEF Reads, Depends
<1>6. Counts(y, D)
  <2>1. \A m : Dependent(y, m) = Dependent(x, m)
    BY <1>2 DEF Dependent
  <2>2. QED
    BY <1>1, <1>2, <2>1 DEF Counts
<1>7. Has(j, y, E, T)
  BY <1>1, <1>2 DEF Has
<1>8. QED
  BY <1>2, <1>3, <1>4, <1>5, <1>6, <1>7 DEF TrackerRight, y

LEMMA NeededKeys ==
  ASSUME NEW j \in Job
  PROVE  /\ \A d \in ToSet(Layers[j]) : Blob(d) \in Needed(j) /\ Bottom(d) \in Needed(j)
         /\ \A d \in ToSet(Layers[j]) \cap Manifest : \A e \in Entries[d] : Blob(e) \in Needed(j)
         /\ \A n \in 2 .. Len(Layers[j]) : Upper(Prefix(j, n)) \in Needed(j)
         /\ Needed(j) \subseteq Key
<1> DEFINE layers == ToSet(Layers[j])
           blobs == layers \cup UNION {Entries[m] : m \in layers \cap Manifest}
<1>1. Needed(j) = {Blob(d) : d \in blobs} \cup {Bottom(d) : d \in layers} \cup
                  {Upper(Prefix(j, n)) : n \in 2 .. Len(Layers[j])}
  BY DEF Needed
<1>2. layers \subseteq blobs /\ \A d \in layers \cap Manifest : Entries[d] \subseteq blobs
  OBVIOUS
<1>3. layers \subseteq Digest /\ blobs \subseteq Digest
  BY LayersTyped, LayersAssumption
<1> HIDE DEF layers, blobs
<1>4. Needed(j) \subseteq Key
  BY <1>1, <1>3, KeyForms
<1>5. QED
  BY <1>1, <1>2, <1>4 DEF layers

\* The layer that is to be stacked next, if all are there.
NextUpper(j, x) ==
  IF (\A d \in DOMAIN x.bottom : x.bottom[d].st = "ready") /\ x.stacked < Len(Layers[j])
  THEN {Upper(Prefix(j, x.stacked + 1))} ELSE {}

\* A bottom layer is there.
LEMMA LayerIsReady ==
  ASSUME NEW j \in Job, NEW x, NEW y, NEW d \in Digest, Changed(x, y, d), TrackerTyped(j, y),
         NEW L, NEW R, NEW O, NEW D, TrackerRight(j, x, L, R, O, D, {}, {}),
         x.bottom[d].st = "fsLayer", y.bottom[d].st = "ready",
         Bottom(d) \in x.keys, Bottom(d) \in O
  PROVE  LET all == \A e \in DOMAIN y.bottom : y.bottom[e].st = "ready" IN
         /\ ~all => TrackerRight(j, y, L, R, O \ {Bottom(d)}, D, {}, {})
         /\ all => /\ TrackerRight(j, y, L, R, NextUpper(j, y), D, {}, {})
                   /\ \A k \in Key : k \notin O \ {Bottom(d)}
<1>1. /\ TrackerTyped(j, x) /\ Listens(j, x, L, O) /\ Reads(x, R, {}) /\ Depends(x, {}, {})
      /\ Counts(x, D) /\ Has(j, x, {}, {})
  BY DEF TrackerRight
<1>2. /\ y.keys = x.keys /\ y.stacked = x.stacked /\ y.deps = x.deps
      /\ d \in DOMAIN x.bottom /\ DOMAIN y.bottom = DOMAIN x.bottom
      /\ \A e \in DOMAIN x.bottom \ {d} : y.bottom[e] = x.bottom[e]
  BY DEF Changed
<1> DEFINE all == \A e \in DOMAIN y.bottom : y.bottom[e].st = "ready"
           P == (O \ {Bottom(d)}) \cup NextUpper(j, y)
<1>3. ASSUME NEW k \in Key
      PROVE  /\ k \in P => Wants(j, y, k)
             /\ k \in L <=> Wants(j, y, k) /\ k \notin P
  <2>1. /\ k \in O => Wants(j, x, k)
        /\ k \in L <=> Wants(j, x, k) /\ k \notin O
    BY <1>1 DEF Listens
  <2>2. CASE k[1] = "upper"
    <3>1. ~Wants(j, x, k) /\ k # Bottom(d)
      BY <1>2, <2>2, KeysDiffer DEF Wants
    <3>2. Wants(j, y, k) <=> k \in NextUpper(j, y)
      BY <2>2 DEF Wants, NextUpper
    <3>3. QED
      BY <2>1, <3>1, <3>2
  <2>3. CASE k[1] # "upper"
    <3>1. k \notin NextUpper(j, y)
      BY <2>3, KeysDiffer DEF NextUpper
    <3>2. CASE k = Bottom(d)
      <4>1. ~Wants(j, y, k)
        BY <3>2, WantsForms
      <4>2. QED
        BY <2>1, <3>1, <3>2, <4>1
    <3>3. CASE k # Bottom(d)
      <4>1. Wants(j, y, k) <=> Wants(j, x, k)
        <5>1. CASE k[1] = "blob" /\ k = Blob(k[2])
          BY <1>2, <5>1 DEF Wants
        <5>2. CASE k[1] = "bottom" /\ k = Bottom(k[2])
          <6>1. k[2] # d
            BY <3>3, <5>2
          <6>2. QED
            BY <1>2, <5>2, <6>1 DEF Wants
        <5>3. QED
          BY <2>3, <5>1, <5>2, KeyForms
      <4>2. QED
        BY <2>1, <3>1, <3>3, <4>1
    <3>4. QED
      BY <3>2, <3>3
  <2>4. QED
    BY <2>2, <2>3
<1>4. Listens(j, y, L, P)
  BY <1>3 DEF Listens
<1>5. Reads(y, R, {}) /\ Depends(y, {}, {})
  BY <1>1, <1>2 DEF Reads, Depends
<1>6. Counts(y, D)
  <2>1. \A m : Dependent(y, m) = Dependent(x, m)
    BY <1>2 DEF Dependent
  <2>2. QED
    BY <1>1, <1>2, <2>1 DEF Counts
<1>7. Has(j, y, {}, {})
  BY <1>1, <1>2 DEF Has
<1>8. TrackerRight(j, y, L, R, P, D, {}, {})
  BY <1>4, <1>5, <1>6, <1>7 DEF TrackerRight
<1>9. CASE ~all
  <2>1. P = O \ {Bottom(d)}
    BY <1>9 DEF NextUpper
  <2>2. QED
    BY <1>8, <1>9, <2>1
<1>10. CASE all
  <2>1. ASSUME NEW k \in Key, k \in O \ {Bottom(d)}
        PROVE  FALSE
    <3>1. Wants(j, x, k) /\ k # Bottom(d)
      BY <1>1, <2>1 DEF Listens
    <3>2. \A e \in DOMAIN x.bottom \ {d} : x.bottom[e].st = "ready"
      BY <1>2, <1>10
    <3>3. CASE k[1] = "blob" /\ k = Blob(k[2]) /\ k[2] \in Digest
      <4>1. x.deps[k[2]] # <<>>
        BY <3>1, <3>2, <3>3 DEF Wants
      <4>2. PICK m : m \in ToSet(x.deps[k[2]])
        <5>1. x.deps[k[2]] \in Seq(Manifest)
          BY <1>1, <3>3 DEF TrackerTyped
        <5>2. x.deps[k[2]][1] \in ToSet(x.deps[k[2]])
          BY <4>1, <5>1 DEF ToSet
        <5>3. QED
          BY <5>2
      <4>3. m \in DOMAIN x.bottom /\ x.bottom[m].st = "artifacts"
        BY <1>1, <3>3, <4>2 DEF Depends
      <4>4. QED
        BY <3>2, <4>3
    <3>4. CASE k[1] = "bottom" /\ k = Bottom(k[2])
      BY <3>1, <3>2, <3>4 DEF Wants
    <3>5. CASE k[1] = "upper"
      BY <1>2, <3>1, <3>5 DEF Wants
    <3>6. QED
      BY <3>3, <3>4, <3>5, KeyForms
  <2>2. TrackerRight(j, y, L, R, NextUpper(j, y), D, {}, {})
    <3>1. \A k \in Key : k \in NextUpper(j, y) <=> k \in P
      BY <2>1
    <3> HIDE DEF P
    <3>2. QED
      BY <1>8, <3>1, OwedSame
  <2>3. QED
    BY <1>10, <2>1, <2>2
<1>11. QED
  BY <1>9, <1>10

\* y is x after the layer k has been stacked.
Stacking(j, x, O, k, y) ==
  /\ NextUpper(j, x) = {k} /\ \A i \in Key : i \in O <=> i = k
  /\ y = [x EXCEPT !.stacked = @ + 1, !.keys = @ \cup {k}]

LEMMA UpperIsStacked ==
  ASSUME NEW j \in Job, NEW x, NEW L, NEW R, NEW O, NEW D, NEW k, NEW y,
         TrackerRight(j, x, L, R, O, D, {}, {}), Stacking(j, x, O, k, y)
  PROVE  /\ TrackerRight(j, y, L, R, NextUpper(j, y), D, {}, {})
         /\ y.stacked = x.stacked + 1 /\ k = Upper(Prefix(j, y.stacked))
<1>1. /\ TrackerTyped(j, x) /\ Listens(j, x, L, O) /\ Reads(x, R, {}) /\ Depends(x, {}, {})
      /\ Counts(x, D) /\ Has(j, x, {}, {})
  BY DEF TrackerRight
<1>2. /\ DOMAIN y = DOMAIN x /\ y.st = x.st /\ y.keys = x.keys \cup {k}
      /\ y.stacked = x.stacked + 1 /\ y.deps = x.deps /\ y.bottom = x.bottom
  BY <1>1 DEF TrackerTyped, Stacking
<1>3. /\ \A d \in DOMAIN x.bottom : x.bottom[d].st = "ready"
      /\ x.stacked < Len(Layers[j]) /\ k = Upper(Prefix(j, x.stacked + 1))
      /\ \A i \in Key : i \in O <=> i = k
  BY DEF NextUpper, Stacking
<1>4. x.stacked \in 1 .. Len(Layers[j]) /\ Len(Layers[j]) \in Nat
  BY <1>1, LayersTyped DEF TrackerTyped
<1>5. y.stacked \in 2 .. Len(Layers[j]) /\ k = Upper(Prefix(j, y.stacked))
  BY <1>2, <1>3, <1>4
<1>6. TrackerTyped(j, y)
  <2>1. y.stacked \in 1 .. Len(Layers[j])
    BY <1>4, <1>5
  <2>2. IsRecord(y)
    BY DEF Stacking, IsRecord
  <2>3. QED
    BY <1>1, <1>2, <2>1, <2>2 DEF TrackerTyped
<1>7. Listens(j, y, L, NextUpper(j, y))
  <2>1. ASSUME NEW i \in Key
        PROVE  /\ i \in NextUpper(j, y) => Wants(j, y, i)
               /\ i \in L <=> Wants(j, y, i) /\ i \notin NextUpper(j, y)
    <3>1. i \in L <=> Wants(j, x, i) /\ i \notin O
      BY <1>1 DEF Listens
    <3>2. CASE i[1] = "upper"
      <4>1. Wants(j, x, i) => i \in O
        BY <1>3, <3>2 DEF Wants
      <4>2. Wants(j, y, i) <=> i \in NextUpper(j, y)
        BY <3>2 DEF Wants, NextUpper
      <4>3. QED
        BY <3>1, <4>1, <4>2
    <3>3. CASE i[1] # "upper"
      <4>1. i \notin NextUpper(j, y) /\ i \notin O
        BY <1>3, <3>3, KeysDiffer DEF NextUpper
      <4>2. Wants(j, y, i) <=> Wants(j, x, i)
        BY <1>2, <3>3, KeyForms DEF Wants
      <4>3. QED
        BY <3>1, <4>1, <4>2
    <3>4. QED
      BY <3>2, <3>3
  <2>2. QED
    BY <2>1 DEF Listens
<1>8. Reads(y, R, {}) /\ Depends(y, {}, {})
  BY <1>1, <1>2 DEF Reads, Depends
<1>9. Counts(y, D)
  <2>1. \A m : Dependent(y, m) = Dependent(x, m)
    BY <1>2 DEF Dependent
  <2>2. QED
    BY <1>1, <1>2, <2>1 DEF Counts
<1>10. Has(j, y, {}, {})
  <2>1. y.keys \subseteq Needed(j)
    BY <1>1, <1>2, <1>5, NeededKeys DEF Has
  <2>2. \A n \in 2 .. y.stacked : Upper(Prefix(j, n)) \in y.keys
    <3>1. \A n \in 2 .. y.stacked : n \in 2 .. x.stacked \/ n = y.stacked
      BY <1>2, <1>4
    <3>2. \A n \in 2 .. x.stacked : Upper(Prefix(j, n)) \in x.keys
      BY <1>1 DEF Has
    <3>3. QED
      BY <1>2, <1>5, <3>1, <3>2
  <2>3. QED
    BY <1>1, <1>2, <1>3, <2>1, <2>2 DEF Has
<1>11. QED
  BY <1>2, <1>5, <1>6, <1>7, <1>8, <1>9, <1>10 DEF TrackerRight

-----------------------------------------------------------------------------
\* What the manifests list.

\* An artifact that manifests wait for is there: they are about to be told.
AboutToTell(j, x, d, L, R, O) ==
  /\ TrackerRight(j, WithDeps(x, d, <<>>), L, R,
                  IF d \in DOMAIN x.bottom THEN O ELSE O \ {Blob(d)},
                  ToSet(x.deps[d]), {}, {})
  /\ WithDeps(x, d, <<>>).deps[d] = <<>>
  /\ d \notin DOMAIN x.bottom => x.deps[d] # <<>>

LEMMA DependentsAreTold ==
  ASSUME NEW j \in Job, NEW x, NEW d \in Digest, NEW L, NEW R, NEW O,
         TrackerRight(j, x, L, R, O, {}, {}, {}), Blob(d) \in x.keys, Blob(d) \in O
  PROVE  AboutToTell(j, x, d, L, R, O)
<1> DEFINE y == WithDeps(x, d, <<>>)
<1>15. y = [x EXCEPT !.deps[d] = <<>>]
  BY DEF WithDeps
<1> HIDE DEF y
<1>1. /\ TrackerTyped(j, x) /\ Listens(j, x, L, O) /\ Reads(x, R, {}) /\ Depends(x, {}, {})
      /\ Counts(x, {}) /\ Has(j, x, {}, {})
  BY DEF TrackerRight
<1>2. /\ DOMAIN y = DOMAIN x /\ y.st = x.st /\ y.keys = x.keys
      /\ y.stacked = x.stacked /\ y.deps = [x.deps EXCEPT ![d] = <<>>] /\ y.bottom = x.bottom
  BY <1>1, <1>15 DEF TrackerTyped
<1>3. /\ x.deps \in [Digest -> Seq(Manifest)] /\ y.deps[d] = <<>>
      /\ \A e \in Digest \ {d} : y.deps[e] = x.deps[e]
  BY <1>1, <1>2 DEF TrackerTyped
<1> DEFINE P == IF d \in DOMAIN x.bottom THEN O ELSE O \ {Blob(d)}
           D == ToSet(x.deps[d])
<1>4. Blob(d) \in Key /\ Wants(j, x, Blob(d)) /\ Blob(d) \notin L
  BY <1>1, KeyForms DEF Listens
<1>5. /\ d \in DOMAIN x.bottom => x.bottom[d].st = "artifact"
      /\ d \notin DOMAIN x.bottom => x.deps[d] # <<>>
  BY <1>1, <1>4, WantsForms DEF Depends
<1>6. TrackerTyped(j, y)
  <2>1. y.deps \in [Digest -> Seq(Manifest)]
    BY <1>2, <1>3
  <2>2. IsRecord(y)
    BY <1>15, UpdatesAreRecords
  <2>3. QED
    BY <1>1, <1>2, <2>1, <2>2 DEF TrackerTyped
<1>7. Listens(j, y, L, P)
  <2>1. ASSUME NEW k \in Key
        PROVE  /\ k \in P => Wants(j, y, k)
               /\ k \in L <=> Wants(j, y, k) /\ k \notin P
    <3>1. /\ k \in O => Wants(j, x, k)
          /\ k \in L <=> Wants(j, x, k) /\ k \notin O
      BY <1>1 DEF Listens
    <3>2. CASE k = Blob(d)
      <4>1. Wants(j, y, k) <=> d \in DOMAIN x.bottom
        BY <1>2, <1>3, <1>5, <3>2, WantsForms
      <4>2. QED
        BY <1>4, <3>2, <4>1
    <3>3. CASE k # Blob(d)
      <4>1. Wants(j, y, k) <=> Wants(j, x, k)
        <5>1. CASE k[1] = "blob" /\ k = Blob(k[2]) /\ k[2] \in Digest
          <6>1. k[2] # d
            BY <3>3, <5>1
          <6>2. QED
            BY <1>2, <1>3, <5>1, <6>1 DEF Wants
        <5>2. CASE k[1] = "bottom"
          BY <1>2, <5>2 DEF Wants
        <5>3. CASE k[1] = "upper"
          BY <1>2, <5>3 DEF Wants
        <5>4. QED
          BY <5>1, <5>2, <5>3, KeyForms
      <4>2. k \in P <=> k \in O
        BY <3>3
      <4>3. QED
        BY <3>1, <4>1, <4>2
    <3>4. QED
      BY <3>2, <3>3
  <2>2. QED
    BY <2>1 DEF Listens
<1>8. Reads(y, R, {})
  BY <1>1, <1>2 DEF Reads
<1>9. ToSet(y.deps[d]) = {} /\ IsInjective(y.deps[d])
  BY <1>3 DEF ToSet, IsInjective
<1>10. Depends(y, {}, {})
  <2>1. \A e \in Digest \ {d} :
          /\ IsInjective(x.deps[e])
          /\ x.deps[e] # <<>> /\ e \in DOMAIN x.bottom => x.bottom[e].st = "artifact"
          /\ \A m \in ToSet(x.deps[e]) :
               m \in DOMAIN x.bottom /\ e \in Entries[m] /\ x.bottom[m].st = "artifacts"
    BY <1>1 DEF Depends
  <2>2. QED
    BY <1>2, <1>3, <1>9, <2>1 DEF Depends
<1>11. Counts(y, D)
  <2>1. \A m \in D : m \in DOMAIN y.bottom /\ y.bottom[m].st = "artifacts"
    BY <1>1, <1>2 DEF Depends
  <2>2. ASSUME NEW m \in DOMAIN y.bottom, y.bottom[m].st = "artifacts"
        PROVE  y.bottom[m].left = Cardinality(Dependent(y, m)) + IF m \in D THEN 1 ELSE 0
    <3>1. m \in Manifest /\ Dependent(x, m) \subseteq Entries[m]
      BY <1>1, <1>2, <2>2 DEF Counts, Depends, Dependent
    <3>2. IsFiniteSet(Dependent(x, m)) /\ Cardinality(Dependent(x, m)) \in Nat
      BY <3>1, FS_Subset, FS_CardinalityType, LayersAssumption
    <3>3. y.bottom[m].left = Cardinality(Dependent(x, m)) + 0
      BY <1>1, <1>2, <2>2 DEF Counts
    <3>4. Dependent(y, m) = Dependent(x, m) \ {d}
      BY <1>3, <1>9 DEF Dependent
    <3>5. d \in Dependent(x, m) <=> m \in D
      BY DEF Dependent
    <3> HIDE DEF D
    <3>6. Cardinality(Dependent(x, m) \ {d})
            = IF d \in Dependent(x, m) THEN Cardinality(Dependent(x, m)) - 1
              ELSE Cardinality(Dependent(x, m))
      BY <3>2, FS_RemoveElement
    <3> DEFINE card == Cardinality(Dependent(x, m))
    <3>7. card \in Nat /\ y.bottom[m].left = card + 0
          /\ Cardinality(Dependent(y, m)) = IF m \in D THEN card - 1 ELSE card
      BY <3>2, <3>3, <3>4, <3>5, <3>6
    <3> HIDE DEF card
    <3>8. QED
      BY <3>7
  <2>3. QED
    BY <1>1, <1>2, <2>1, <2>2 DEF Counts
<1>12. Has(j, y, {}, {})
  <2>1. ASSUME NEW m \in DOMAIN x.bottom, m \in Manifest,
               x.bottom[m].st \in {"artifacts", "fsLayer", "ready"}, NEW e \in Entries[m]
        PROVE  Blob(e) \in y.keys \/ m \in ToSet(y.deps[e])
    <3>1. Blob(e) \in x.keys \/ m \in ToSet(x.deps[e])
      BY <1>1, <2>1 DEF Has
    <3>2. e \in Digest
      BY <2>1, LayersAssumption
    <3>3. QED
      BY <1>2, <1>3, <3>1, <3>2
  <2>2. QED
    BY <1>1, <1>2, <2>1 DEF Has
<1>13. TrackerRight(j, y, L, R, P, D, {}, {})
  BY <1>6, <1>7, <1>8, <1>10, <1>11, <1>12 DEF TrackerRight
<1>14. QED
  BY <1>2, <1>3, <1>5, <1>13 DEF AboutToTell, y

\* What the job was to be told of is got for it.
LEMMA OwedIsListed ==
  ASSUME NEW j \in Job, NEW x, NEW L, NEW R, NEW O, NEW D, NEW E, NEW T,
         TrackerRight(j, x, L, R, O, D, E, T), NEW k \in Key, k \in O
  PROVE  TrackerRight(j, x, L \cup {k}, R, O \ {k}, D, E, T)
BY DEF TrackerRight, Listens

\* An entry of the manifest is there already.
LEMMA EntryIsThere ==
  ASSUME NEW j \in Job, NEW x, NEW L, NEW R, NEW O, NEW D, NEW E, NEW T,
         TrackerRight(j, x, L, R, O, D, E, T), NEW d \in Digest, Blob(d) \in x.keys
  PROVE  TrackerRight(j, x, L, R, O, D, E, T \ {d})
<1>1. Has(j, x, E, T \ {d}) /\ Depends(x, E, T \ {d})
  BY DEF TrackerRight, Has, Depends
<1>2. QED
  BY <1>1 DEF TrackerRight

\* The manifest's read has ended: its entries are gone through.
LEMMA ReadHasEnded ==
  ASSUME NEW j \in Job, NEW x, NEW L, NEW R, NEW O, NEW D,
         TrackerRight(j, x, L, R, O, D, {}, {}), NEW m \in R
  PROVE  /\ TrackerRight(j, x, L, R \ {m}, O, D, {m}, Entries[m])
         /\ m \in Digest /\ m \in Manifest /\ m \in DOMAIN x.bottom /\ x.bottom[m].st = "digests"
<1>1. /\ TrackerTyped(j, x) /\ Listens(j, x, L, O) /\ Reads(x, R, {}) /\ Depends(x, {}, {})
      /\ Counts(x, D) /\ Has(j, x, {}, {})
  BY DEF TrackerRight
<1>2. m \in Digest /\ m \in DOMAIN x.bottom /\ x.bottom[m].st = "digests"
  BY <1>1 DEF Reads
<1>3. m \in Manifest
  BY <1>1, <1>2 DEF Counts
<1>4. Reads(x, R \ {m}, {m})
  BY <1>1, <1>2 DEF Reads
<1>5. Depends(x, {m}, Entries[m])
  BY <1>1, <1>2 DEF Depends
<1>6. Has(j, x, {m}, Entries[m])
  BY <1>1 DEF Has
<1>7. QED
  BY <1>1, <1>2, <1>3, <1>4, <1>5, <1>6 DEF TrackerRight

\* The manifest waits for an entry.
LEMMA EntryIsLacking ==
  ASSUME NEW j \in Job, NEW x, NEW d \in Digest, NEW m \in Manifest, NEW L, NEW R, NEW T,
         TrackerRight(j, x, L, R, {}, {}, {m}, T), d \in Entries[m], d \in T,
         d \in DOMAIN x.bottom => x.bottom[d].st = "artifact"
  PROVE  TrackerRight(j, WithDeps(x, d, Append(x.deps[d], m)), L \cup {Blob(d)}, R, {}, {}, {m}, T \ {d})
<1> DEFINE y == WithDeps(x, d, Append(x.deps[d], m))
           O == {}
<1>14. y = [x EXCEPT !.deps[d] = Append(@, m)]
  BY DEF WithDeps
<1> HIDE DEF y
<1>1. /\ TrackerTyped(j, x) /\ Listens(j, x, L, O) /\ Reads(x, R, {m}) /\ Depends(x, {m}, T)
      /\ Counts(x, {}) /\ Has(j, x, {m}, T)
  BY DEF TrackerRight
<1>2. /\ DOMAIN y = DOMAIN x /\ y.st = x.st /\ y.keys = x.keys
      /\ y.stacked = x.stacked /\ y.deps = [x.deps EXCEPT ![d] = Append(@, m)]
      /\ y.bottom = x.bottom
  BY <1>1, <1>14 DEF TrackerTyped
<1> DEFINE q == x.deps[d]
<1>3. /\ x.deps \in [Digest -> Seq(Manifest)] /\ y.deps[d] = Append(q, m) /\ q \in Seq(Manifest)
      /\ \A e \in Digest \ {d} : y.deps[e] = x.deps[e]
  BY <1>1, <1>2 DEF TrackerTyped
<1>4. /\ m \in DOMAIN x.bottom /\ x.bottom[m].st = "digests"
      /\ IsInjective(q) /\ m \notin ToSet(q)
  BY <1>1 DEF Reads, Depends
<1> HIDE DEF q
<1>5. /\ ToSet(Append(q, m)) = ToSet(q) \cup {m}
      /\ \A a \in 1 .. Len(q) : q[a] # m
  BY <1>3, <1>4, AppendedSet
<1>6. /\ Append(q, m) \in Seq(Manifest) /\ IsInjective(Append(q, m)) /\ Append(q, m) # <<>>
  BY <1>3, <1>4, <1>5, AppendedOnce
<1>7. TrackerTyped(j, y)
  <2>1. y.deps \in [Digest -> Seq(Manifest)]
    BY <1>2, <1>3, <1>6
  <2>2. IsRecord(y)
    BY <1>14, UpdatesAreRecords
  <2>3. QED
    BY <1>1, <1>2, <2>1, <2>2 DEF TrackerTyped
<1>8. Listens(j, y, L \cup {Blob(d)}, O)
  <2>1. ASSUME NEW k \in Key
        PROVE  k \in L \cup {Blob(d)} <=> Wants(j, y, k)
    <3>1. k \in L <=> Wants(j, x, k)
      BY <1>1 DEF Listens
    <3>2. CASE k = Blob(d)
      BY <1>3, <1>6, <3>2, WantsForms
    <3>3. CASE k # Blob(d)
      <4>1. Wants(j, y, k) <=> Wants(j, x, k)
        <5>1. CASE k[1] = "blob" /\ k = Blob(k[2]) /\ k[2] \in Digest
          <6>1. k[2] # d
            BY <3>3, <5>1
          <6>2. QED
            BY <1>2, <1>3, <5>1, <6>1 DEF Wants
        <5>2. CASE k[1] = "bottom"
          BY <1>2, <5>2 DEF Wants
        <5>3. CASE k[1] = "upper"
          BY <1>2, <5>3 DEF Wants
        <5>4. QED
          BY <5>1, <5>2, <5>3, KeyForms
      <4>2. QED
        BY <3>1, <3>3, <4>1
    <3>4. QED
      BY <3>2, <3>3
  <2>2. QED
    BY <2>1 DEF Listens
<1>9. Reads(y, R, {m})
  BY <1>1, <1>2 DEF Reads
<1>10. Depends(y, {m}, T \ {d})
  <2>1. ASSUME NEW e \in Digest
        PROVE  /\ IsInjective(y.deps[e])
               /\ y.deps[e] # <<>> /\ e \in DOMAIN y.bottom => y.bottom[e].st = "artifact"
               /\ \A i \in ToSet(y.deps[e]) :
                    /\ i \in DOMAIN y.bottom /\ e \in Entries[i]
                    /\ y.bottom[i].st = "artifacts" \/ i \in {m}
               /\ e \in T \ {d} => m \notin ToSet(y.deps[e])
    <3>1. /\ IsInjective(x.deps[e])
          /\ x.deps[e] # <<>> /\ e \in DOMAIN x.bottom => x.bottom[e].st = "artifact"
          /\ \A i \in ToSet(x.deps[e]) :
               /\ i \in DOMAIN x.bottom /\ e \in Entries[i]
               /\ x.bottom[i].st = "artifacts" \/ i \in {m}
          /\ e \in T => m \notin ToSet(x.deps[e])
      BY <1>1 DEF Depends
    <3>2. CASE e # d
      BY <1>2, <1>3, <3>1, <3>2
    <3>3. CASE e = d
      BY <1>2, <1>3, <1>4, <1>5, <1>6, <3>1, <3>3 DEF q
    <3>4. QED
      BY <3>2, <3>3
  <2>2. QED
    BY <2>1 DEF Depends
<1>11. Counts(y, {})
  <2>1. ASSUME NEW i, i # m
        PROVE  Dependent(y, i) = Dependent(x, i)
    <3>1. \A e \in Digest : i \in ToSet(y.deps[e]) <=> i \in ToSet(x.deps[e])
      BY <1>3, <1>5, <2>1 DEF q
    <3>2. QED
      BY <3>1 DEF Dependent
  <2>2. QED
    BY <1>1, <1>2, <1>4, <2>1 DEF Counts
<1>12. Has(j, y, {m}, T \ {d})
  <2>1. ASSUME NEW i \in DOMAIN x.bottom, i \in Manifest,
               x.bottom[i].st \in {"artifacts", "fsLayer", "ready"} \/ i \in {m}, NEW e \in Entries[i]
        PROVE  Blob(e) \in y.keys \/ i \in ToSet(y.deps[e]) \/ (i \in {m} /\ e \in T \ {d})
    <3>1. Blob(e) \in x.keys \/ i \in ToSet(x.deps[e]) \/ (i \in {m} /\ e \in T)
      BY <1>1, <2>1 DEF Has
    <3>2. e \in Digest
      BY <2>1, LayersAssumption
    <3>3. QED
      BY <1>2, <1>3, <1>5, <3>1, <3>2 DEF q
  <2>2. QED
    BY <1>1, <1>2, <2>1 DEF Has
<1>13. QED
  BY <1>7, <1>8, <1>9, <1>10, <1>11, <1>12 DEF TrackerRight, y

\* A tracker starts with what it wants first.
LEMMA EmptyIsRight ==
  ASSUME NEW j \in Job
  PROVE  LET x == EmptyTracker(j) IN
         /\ TrackerRight(j, x, {}, {}, {Blob(d) : d \in ToSet(Layers[j])}, {}, {}, {})
         /\ DOMAIN x.bottom = ToSet(Layers[j])
<1> DEFINE x == EmptyTracker(j)
           O == {Blob(d) : d \in ToSet(Layers[j])}
<1>1. /\ DOMAIN x = {"st", "keys", "stacked", "bottom", "deps"} /\ x.st = "awaiting"
      /\ x.keys = {} /\ x.stacked = 1
      /\ x.bottom = [d \in ToSet(Layers[j]) |-> WaitingForArtifact]
      /\ x.deps = [d \in Digest |-> <<>>]
  BY DEF EmptyTracker
<1> HIDE DEF x
<1>2. /\ DOMAIN x.bottom = ToSet(Layers[j])
      /\ \A d \in DOMAIN x.bottom : x.bottom[d].st = "artifact"
      /\ \A d \in Digest : x.deps[d] = <<>>
      /\ ToSet(<<>>) = {} /\ IsInjective(<<>>)
  BY <1>1, BottomForms DEF ToSet, IsInjective
<1>3. /\ Len(Layers[j]) \in Nat \ {0} /\ ToSet(Layers[j]) \subseteq Digest /\ ToSet(Layers[j]) # {}
  <2>1. /\ Layers[j] \in Seq(Digest) /\ Len(Layers[j]) \in Nat \ {0} /\ ToSet(Layers[j]) \subseteq Digest
    BY LayersTyped
  <2>2. Layers[j][1] \in ToSet(Layers[j])
    BY <2>1 DEF ToSet
  <2>3. QED
    BY <2>1, <2>2
<1>4. TrackerTyped(j, x)
  <2>1. x.bottom \in [ToSet(Layers[j]) -> PendingBottomLayer]
    BY <1>1, BottomForms
  <2>2. <<>> \in Seq(Manifest)
    OBVIOUS
  <2>3. x.deps \in [Digest -> Seq(Manifest)]
    BY <1>1, <2>2
  <2>4. IsRecord(x)
    BY DEF x, EmptyTracker, IsRecord
  <2>5. QED
    BY <1>1, <1>3, <2>1, <2>3, <2>4 DEF TrackerTyped
<1>5. Listens(j, x, {}, O)
  <2>1. ASSUME NEW k \in Key
        PROVE  Wants(j, x, k) <=> k \in O
    <3>1. CASE k[1] = "blob" /\ k = Blob(k[2]) /\ k[2] \in Digest
      <4>1. Wants(j, x, k) <=> k[2] \in ToSet(Layers[j])
        BY <1>2, <3>1 DEF Wants
      <4>2. k \in O <=> k[2] \in ToSet(Layers[j])
        BY <3>1, KeysDiffer
      <4>3. QED
        BY <4>1, <4>2
    <3>2. CASE k[1] = "bottom"
      <4>1. ~Wants(j, x, k)
        BY <1>2, <3>2 DEF Wants
      <4>2. k \notin O
        BY <3>2, KeysDiffer
      <4>3. QED
        BY <4>1, <4>2
    <3>3. CASE k[1] = "upper"
      <4>1. ~Wants(j, x, k)
        BY <1>2, <1>3, <3>3 DEF Wants
      <4>2. k \notin O
        BY <3>3, KeysDiffer
      <4>3. QED
        BY <4>1, <4>2
    <3>4. QED
      BY <3>1, <3>2, <3>3, KeyForms
  <2>2. QED
    BY <2>1 DEF Listens
<1>6. Reads(x, {}, {})
  BY <1>2 DEF Reads
<1>7. Depends(x, {}, {})
  BY <1>2 DEF Depends
<1>8. Counts(x, {})
  BY <1>2 DEF Counts
<1>9. Has(j, x, {}, {})
  <2>1. \A n : n \notin 2 .. 1
    OBVIOUS
  <2>2. QED
    BY <1>1, <1>2, <2>1 DEF Has
<1>10. QED
  BY <1>2, <1>4, <1>5, <1>6, <1>7, <1>8, <1>9 DEF TrackerRight, x

\* A job that waits for nothing more has exactly what it needs.
LEMMA CompleteHasAll ==
  ASSUME NEW j \in Job, NEW x, NEW L, NEW R, TrackerRight(j, x, L, R, {}, {}, {}, {}),
         IsComplete(x, j)
  PROVE  x.keys = Needed(j) /\ R = {} /\ \A k \in Key : k \notin L
<1>1. /\ TrackerTyped(j, x) /\ Listens(j, x, L, {}) /\ Reads(x, R, {}) /\ Depends(x, {}, {})
      /\ Counts(x, {}) /\ Has(j, x, {}, {})
  BY DEF TrackerRight
<1>2. /\ x.stacked \in 1 .. Len(Layers[j]) /\ Len(Layers[j]) \in Nat \ {0}
      /\ x.bottom \in [ToSet(Layers[j]) -> PendingBottomLayer] /\ DOMAIN x.bottom = ToSet(Layers[j])
  BY <1>1, LayersTyped DEF TrackerTyped
<1>3. x.stacked = Len(Layers[j]) /\ \A d \in DOMAIN x.bottom : x.bottom[d].st = "ready"
  <2>1. CASE Len(Layers[j]) < 2
    <3>1. \A d \in DOMAIN x.bottom : x.bottom[d] = Ready
      BY <2>1 DEF IsComplete, AllReady
    <3>2. QED
      BY <1>2, <2>1, <3>1, BottomForms
  <2>2. CASE ~(Len(Layers[j]) < 2)
    <3>1. x.stacked = Len(Layers[j]) /\ x.stacked > 1
      BY <1>2, <2>2 DEF IsComplete
    <3>2. QED
      BY <1>1, <3>1 DEF Has
  <2>3. QED
    BY <2>1, <2>2
<1>4. R = {}
  BY <1>1, <1>3 DEF Reads
<1>5. \A e \in Digest : ToSet(x.deps[e]) = {}
  BY <1>1, <1>3 DEF Depends
<1>6. ASSUME NEW e \in Digest
      PROVE  x.deps[e] = <<>>
  <2>1. x.deps[e] \in Seq(Manifest)
    BY <1>1 DEF TrackerTyped
  <2>2. ASSUME x.deps[e] # <<>>
        PROVE  x.deps[e][1] \in ToSet(x.deps[e])
    BY <2>1, <2>2 DEF ToSet
  <2>3. QED
    BY <1>5, <2>2
<1>7. ASSUME NEW k \in Key
      PROVE  k \notin L
  <2>1. ~Wants(j, x, k)
    <3>1. k[1] = "blob" => ~Wants(j, x, k)
      BY <1>3, <1>6, KeyForms DEF Wants
    <3>2. k[1] = "bottom" => ~Wants(j, x, k)
      BY <1>3 DEF Wants
    <3>3. k[1] = "upper" => ~Wants(j, x, k)
      BY <1>2, <1>3 DEF Wants
    <3>4. QED
      BY <3>1, <3>2, <3>3, KeyForms
  <2>2. QED
    BY <1>1, <2>1 DEF Listens
<1> DEFINE layers == ToSet(Layers[j])
           blobs == layers \cup UNION {Entries[m] : m \in layers \cap Manifest}
<1>8. Needed(j) = {Blob(d) : d \in blobs} \cup {Bottom(d) : d \in layers} \cup
                  {Upper(Prefix(j, n)) : n \in 2 .. Len(Layers[j])}
  BY DEF Needed
<1>9. \A d \in layers : Blob(d) \in x.keys /\ Bottom(d) \in x.keys
  BY <1>1, <1>2, <1>3 DEF Has
<1>10. ASSUME NEW m \in layers \cap Manifest, NEW e \in Entries[m]
       PROVE  Blob(e) \in x.keys
  <2>1. e \in Digest
    BY LayersAssumption
  <2>2. Blob(e) \in x.keys \/ m \in ToSet(x.deps[e])
    BY <1>1, <1>2, <1>3 DEF Has
  <2>3. QED
    BY <1>5, <2>1, <2>2
<1>11. \A n \in 2 .. Len(Layers[j]) : Upper(Prefix(j, n)) \in x.keys
  BY <1>1, <1>3 DEF Has
<1>12. \A d \in blobs : d \in layers \/ \E m \in layers \cap Manifest : d \in Entries[m]
  OBVIOUS
<1> HIDE DEF layers, blobs
<1>13. Needed(j) \subseteq x.keys
  BY <1>8, <1>9, <1>10, <1>11, <1>12
<1>14. QED
  BY <1>1, <1>4, <1>7, <1>13 DEF Has

-----------------------------------------------------------------------------
\* The operators of LayerTracker keep a tracker right.

\* t is s after what the tracker of j has done so far, and the tracker is right.
Right(s, j, t, O, D, E, T) ==
  /\ Works(s, j, t)
  /\ TrackerRight(j, t.job[j], ListedIn(t, j), ReadFor(t.digests, j), O, D, E, T)

\* From t to u the tracker of j has only got keys.
Further(j, t, u) ==
  u.job[j].deps = t.job[j].deps /\ t.job[j].keys \subseteq u.job[j].keys

\* What is left of a sequence after its first i.
Rest(q, i) == {q[n] : n \in i + 1 .. Len(q)}

LEMMA RestForms ==
  ASSUME NEW S, NEW q \in Seq(S)
  PROVE  /\ Rest(q, 0) = ToSet(q) /\ Rest(q, Len(q)) = {}
         /\ \A n \in 1 .. Len(q) :
              /\ q[n] \in Rest(q, n - 1) /\ Rest(q, n) \subseteq Rest(q, n - 1)
              /\ IsInjective(q) => Rest(q, n) = Rest(q, n - 1) \ {q[n]}
<1> DEFINE l == Len(q)
<1>1. l \in Nat /\ DOMAIN q = 1 .. l
  OBVIOUS
<1>2. Rest(q, 0) = ToSet(q)
  BY DEF Rest, ToSet
<1>3. Rest(q, l) = {}
  <2> HIDE DEF l
  <2>1. l + 1 .. l = {}
    BY <1>1
  <2>2. QED
    BY <2>1 DEF Rest, l
<1>4. ASSUME NEW n \in 1 .. l
      PROVE  /\ q[n] \in Rest(q, n - 1) /\ Rest(q, n) \subseteq Rest(q, n - 1)
             /\ IsInjective(q) => Rest(q, n) = Rest(q, n - 1) \ {q[n]}
  <2> DEFINE A == n + 1 .. l
             B == (n - 1) + 1 .. l
  <2>1. /\ Rest(q, n) = {q[a] : a \in A} /\ Rest(q, n - 1) = {q[a] : a \in B}
    BY DEF Rest
  <2> HIDE DEF l
  <2>2. B = A \cup {n} /\ n \notin A /\ B \subseteq 1 .. l
    BY <1>1
  <2> HIDE DEF A, B
  <2>3. q[n] \in Rest(q, n - 1) /\ Rest(q, n) \subseteq Rest(q, n - 1)
    BY <2>1, <2>2
  <2>4. ASSUME IsInjective(q)
        PROVE  Rest(q, n) = Rest(q, n - 1) \ {q[n]}
    <3>1. \A a \in A : q[a] # q[n]
      BY <1>1, <2>2, <2>4 DEF IsInjective
    <3>2. QED
      BY <2>1, <2>2, <3>1
  <2>5. QED
    BY <2>3, <2>4
<1>5. QED
  BY <1>2, <1>3, <1>4

\* A layer has been stacked, in either order of the two updates.
KeepStacked(t, j, n, k) == Keep([t EXCEPT !.job[j].stacked = n], j, k)
StackedOn(x, n, k) == [x EXCEPT !.stacked = n, !.keys = @ \cup {k}]

LEMMA WorksStacked ==
  ASSUME NEW s, NEW j \in Job, NEW t, Works(s, j, t), TrackerTyped(j, t.job[j]), NEW n, NEW k
  PROVE  Rewritten(s, j, t, KeepStacked(t, j, n, k), StackedOn(t.job[j], n, k))
<1> DEFINE x == t.job[j]
           y == [x EXCEPT !.stacked = n, !.keys = @ \cup {k}]
           u == Keep([t EXCEPT !.job[j].stacked = n], j, k)
           v == [t EXCEPT !.job[j] = y]
<1>1. DOMAIN t = StateFields /\ DOMAIN t.job = Job /\ Awaits(x)
  BY DEF Works, OnlyTracks
<1>2. DOMAIN x = {"st", "keys", "stacked", "bottom", "deps"}
  BY DEF TrackerTyped
<1>3. u = v
  <2>1. u = [[t EXCEPT !.job[j].stacked = n] EXCEPT !.job[j].keys = @ \cup {k}]
    BY DEF Keep
  <2> DEFINE w == [t EXCEPT !.job[j].stacked = n]
  <2>2. DOMAIN w = StateFields /\ DOMAIN w.job = Job /\ w.job[j] = [x EXCEPT !.stacked = n]
        /\ w = [t EXCEPT !.job[j] = [x EXCEPT !.stacked = n]]
    BY <1>1 DEF StateFields
  <2>3. u = [w EXCEPT !.job[j] = [w.job[j] EXCEPT !.keys = @ \cup {k}]]
    BY <2>1
  <2>4. [w.job[j] EXCEPT !.keys = @ \cup {k}] = y
    BY <1>2, <2>2
  <2> HIDE DEF y
  <2>5. [w EXCEPT !.job[j] = y] = v
    BY <1>1 DEF StateFields
  <2> HIDE DEF w, u, v
  <2>6. QED
    BY <2>3, <2>4, <2>5
<1>4. Awaits(y)
  BY <1>1 DEF Awaits
<1> HIDE DEF y, u
<1>5. /\ Works(s, j, v) /\ v.job[j] = y /\ v.digests = t.digests
      /\ ListedIn(v, j) = ListedIn(t, j)
  BY <1>4, WorksJob
<1> HIDE DEF v
<1>6. /\ Works(s, j, u) /\ u.job[j] = y /\ u.digests = t.digests
      /\ ListedIn(u, j) = ListedIn(t, j)
  BY <1>3, <1>5
<1>7. QED
  BY <1>6 DEF u, y, Rewritten, KeepStacked, StackedOn

\* fetch_upper_layers: the fold goes on from the layers that are stacked.
Stacks(r, i, t) ==
  LET x == t.job[r.j] IN
  /\ Right(r.s, r.j, t, IF x.stacked >= i + 1 THEN NextUpper(r.j, x) ELSE {}, r.D, {}, {})
  /\ \A d \in DOMAIN x.bottom : x.bottom[d].st = "ready"
  /\ x.deps = r.t.job[r.j].deps /\ r.t.job[r.j].keys \subseteq x.keys

LEMMA StacksOne ==
  ASSUME NEW r, NEW s, NEW j \in Job, r.j = j, r.s = s, NEW n \in 1 .. Len(Layers[j]) - 1,
         NEW t, Stacks(r, n - 1, t)
  PROVE  Stacks(r, n, StackUpper(t, j, n + 1))
<1> DEFINE x == t.job[j]
           k == Upper(Prefix(j, n + 1))
           O == IF x.stacked >= n THEN NextUpper(j, x) ELSE {}
           u == StackUpper(t, j, n + 1)
<1>1. Len(Layers[j]) \in Nat \ {0}
  BY LayersTyped
<1>2. n \in Nat /\ (n - 1) + 1 = n /\ n + 1 \in 2 .. Len(Layers[j]) /\ (n + 1) - 1 = n
  BY <1>1
<1>3. /\ Works(s, j, t)
      /\ TrackerRight(j, x, ListedIn(t, j), ReadFor(t.digests, j), O, r.D, {}, {})
      /\ \A d \in DOMAIN x.bottom : x.bottom[d].st = "ready"
      /\ x.deps = r.t.job[r.j].deps /\ r.t.job[r.j].keys \subseteq x.keys
  BY <1>2 DEF Stacks, Right
<1>4. TrackerTyped(j, x) /\ x.stacked \in Nat
  BY <1>1, <1>3 DEF TrackerRight, TrackerTyped
<1>5. k \in Key
  BY <1>2, KeyForms
<1>6. CASE x.stacked # n
  <2>1. u = t
    BY <1>2, <1>6 DEF StackUpper
  <2>2. O = IF x.stacked >= n + 1 THEN NextUpper(j, x) ELSE {}
    <3> HIDE DEF x
    <3>1. x.stacked >= n <=> x.stacked >= n + 1
      BY <1>2, <1>4, <1>6
    <3>2. QED
      BY <3>1
  <2> HIDE DEF O, u
  <2>3. QED
    BY <1>3, <2>1, <2>2 DEF Stacks, Right, u
<1>7. CASE x.stacked = n
  <2>1. NextUpper(j, x) = {k} /\ O = {k}
    BY <1>1, <1>2, <1>3, <1>4, <1>7 DEF NextUpper
  <2>2. k \notin ListedIn(t, j)
    BY <1>3, <1>5, <2>1 DEF TrackerRight, Listens
  <2> DEFINE f == Fetch(t, j, k)
  <2>3. /\ Works(s, j, f) /\ f.job = t.job /\ f.digests = t.digests
        /\ ListedIn(f, j) = IF Got(t, j, k) THEN ListedIn(t, j) ELSE ListedIn(t, j) \cup {k}
    <3> HIDE DEF k
    <3>1. Asked(s, j, t, k, f)
      BY <1>3, <1>5, <2>2, FetchAsks
    <3> HIDE DEF f
    <3>2. QED
      BY <3>1 DEF Asked
  <2> HIDE DEF O, k
  <2>4. CASE ~Got(t, j, k)
    <3>1. u = f
      BY <1>2, <1>7, <2>4 DEF StackUpper, k
    <3>2. TrackerRight(j, x, ListedIn(t, j) \cup {k}, ReadFor(t.digests, j), O \ {k}, r.D, {}, {})
      BY <1>3, <1>5, <2>1, OwedIsListed
    <3>3. O \ {k} = {} /\ ~(x.stacked >= n + 1)
      BY <1>2, <1>7, <2>1
    <3> HIDE DEF u, f
    <3>4. u.job[j] = x /\ Right(s, j, u, {}, r.D, {}, {})
      BY <2>3, <2>4, <3>1, <3>2, <3>3 DEF Right
    <3>5. QED
      BY <1>3, <3>3, <3>4 DEF Stacks, u
  <2>5. CASE Got(t, j, k)
    <3> DEFINE y == [x EXCEPT !.stacked = n + 1, !.keys = @ \cup {k}]
    <3> HIDE DEF f
    <3>1. u = Keep([f EXCEPT !.job[j].stacked = n + 1], j, k)
      BY <1>2, <1>7, <2>5 DEF StackUpper, k, f
    <3>2. /\ Works(s, j, u) /\ u.job[j] = y /\ u.digests = f.digests
          /\ ListedIn(u, j) = ListedIn(f, j)
      <4> DEFINE g == Keep([f EXCEPT !.job[j].stacked = n + 1], j, k)
      <4>1. Rewritten(s, j, f, g, [f.job[j] EXCEPT !.stacked = n + 1, !.keys = @ \cup {k}])
        <5>1. TrackerTyped(j, f.job[j]) /\ Works(s, j, f)
          BY <1>4, <2>3
        <5>2. Rewritten(s, j, f, KeepStacked(f, j, n + 1, k), StackedOn(f.job[j], n + 1, k))
          BY <5>1, WorksStacked
        <5>3. QED
          BY <5>2 DEF KeepStacked, StackedOn, g
      <4> HIDE DEF g, u
      <4>2. u = g
        BY <3>1 DEF g
      <4>3. QED
        BY <2>3, <4>1, <4>2 DEF Rewritten
    <3>3. y = [x EXCEPT !.stacked = @ + 1, !.keys = @ \cup {k}]
      BY <1>7
    <3>4. /\ y.keys = x.keys \cup {k} /\ y.deps = x.deps /\ y.bottom = x.bottom
      BY <1>4 DEF TrackerTyped
    <3> HIDE DEF y, u
    <3>5. /\ TrackerRight(j, y, ListedIn(t, j), ReadFor(t.digests, j), NextUpper(j, y), r.D, {}, {})
          /\ y.stacked = x.stacked + 1
      <4>1. \A i \in Key : i \in O <=> i = k
        BY <2>1
      <4>2. Stacking(j, x, O, k, y)
        BY <2>1, <3>3, <4>1 DEF Stacking
      <4>3. QED
        BY <1>3, <4>2, UpperIsStacked
    <3>6. y.stacked >= n + 1
      BY <1>2, <1>7, <3>5
    <3>7. Right(s, j, u, NextUpper(j, y), r.D, {}, {})
      BY <2>3, <2>5, <3>2, <3>5 DEF Right
    <3>8. QED
      BY <1>3, <3>2, <3>4, <3>6, <3>7 DEF Stacks, u
  <2>6. QED
    BY <2>4, <2>5
<1>8. QED
  BY <1>6, <1>7

UpperStackings == INSTANCE FoldTheorems WITH Op <- StackStep, Inv <- Stacks

LEMMA UppersFold ==
  ASSUME NEW j, NEW t
  PROVE  FetchUpperLayers(t, j)
           = UpperStackings!Fold(j, 0, t, [i \in 1 .. Len(Layers[j]) - 1 |-> i + 1])
<1> DEFINE q == [i \in 1 .. Len(Layers[j]) - 1 |-> i + 1]
<1> HIDE DEF q
<1>1. UpperStackings!Fold(j, 0, t, q) = FoldLeft(LAMBDA h, n : StackUpper(h, j, n), t, q)
  BY DEF UpperStackings!Fold, StackStep, FoldLeft, MapThenFoldSet, Max,
         UpperStackings!Greatest
<1>2. QED
  BY <1>1, Zenon DEF FetchUpperLayers, q

LEMMA RightFetchUpper ==
  ASSUME NEW s, NEW j \in Job, NEW t, NEW D,
         Right(s, j, t, NextUpper(j, t.job[j]), D, {}, {}),
         \A d \in DOMAIN t.job[j].bottom : t.job[j].bottom[d].st = "ready"
  PROVE  LET u == FetchUpperLayers(t, j) IN
         Right(s, j, u, {}, D, {}, {}) /\ Further(j, t, u)
<1> DEFINE q == [i \in 1 .. Len(Layers[j]) - 1 |-> i + 1]
           r == [s |-> s, j |-> j, t |-> t, D |-> D]
           u == FetchUpperLayers(t, j)
           l == Len(Layers[j])
<1>1. l \in Nat \ {0}
  BY LayersTyped
<1>2. q \in Seq(2 .. l) /\ Len(q) = l - 1 /\ \A n \in 1 .. l - 1 : q[n] = n + 1
  BY <1>1
<1>3. Stacks(r, 0, t)
  <2>1. t.job[j].stacked >= 0 + 1
    BY <1>1 DEF Right, TrackerRight, TrackerTyped
  <2>2. QED
    BY <2>1 DEF Stacks
<1>4. ASSUME NEW a, NEW n \in 1 .. Len(q), q[n] \in 2 .. l, Stacks(r, n - 1, a)
      PROVE  Stacks(r, n, StackStep(j, 0, a, q[n]))
  <2>1. n \in 1 .. Len(Layers[j]) - 1 /\ q[n] = n + 1 /\ r.j = j /\ r.s = s
    BY <1>2
  <2> HIDE DEF r, q, l
  <2>2. Stacks(r, n, StackUpper(a, j, n + 1))
    BY <1>4, <2>1, StacksOne
  <2>3. QED
    BY <2>1, <2>2 DEF StackStep
<1> HIDE DEF q
<1>5. Stacks(r, Len(q), UpperStackings!Fold(j, 0, t, q))
  BY <1>2, <1>3, <1>4, LeastOf, UpperStackings!FoldKeeps
<1>6. FetchUpperLayers(t, j) = UpperStackings!Fold(j, 0, t, q)
  BY UppersFold DEF q
<1>7. Stacks(r, l - 1, u)
  <2> DEFINE v == UpperStackings!Fold(j, 0, t, q)
  <2>1. Len(q) = l - 1
    BY <1>2
  <2>2. Stacks(r, l - 1, v)
    <3> HIDE DEF v, l, r
    <3>1. QED
      BY <1>5, <2>1 DEF v
  <2> HIDE DEF v, l, r
  <2>3. QED
    BY <1>6, <2>2 DEF v, u
<1> DEFINE y == u.job[j]
<1>8. /\ Right(s, j, u, IF y.stacked >= (l - 1) + 1 THEN NextUpper(j, y) ELSE {}, D, {}, {})
      /\ y.deps = t.job[j].deps /\ t.job[j].keys \subseteq y.keys
  <2>1. r.j = j /\ r.s = s /\ r.t = t /\ r.D = D
    OBVIOUS
  <2> HIDE DEF u, r
  <2>2. QED
    BY <1>7, <2>1 DEF Stacks
<1> HIDE DEF u, r
<1>9. y.stacked \in 1 .. l
  BY <1>8 DEF Right, TrackerRight, TrackerTyped
<1>10. (IF y.stacked >= (l - 1) + 1 THEN NextUpper(j, y) ELSE {}) = {}
  BY <1>1, <1>9 DEF NextUpper
<1>11. QED
  BY <1>8, <1>10 DEF Further, u

\* got_upper_fs_layer
LEMMA RightGotUpper ==
  ASSUME NEW s, NEW j \in Job, NEW t, NEW D, NEW k \in Key, Right(s, j, t, {k}, D, {}, {}),
         k[1] = "upper"
  PROVE  LET u == GotUpperFsLayer(t, j, k) IN
         Right(s, j, u, {}, D, {}, {}) /\ Further(j, t, u)
<1> DEFINE x == t.job[j]
           h == KeepStacked(t, j, x.stacked + 1, k)
           y == StackedOn(x, x.stacked + 1, k)
           u == GotUpperFsLayer(t, j, k)
<1>1. /\ Works(s, j, t) /\ TrackerTyped(j, x)
      /\ TrackerRight(j, x, ListedIn(t, j), ReadFor(t.digests, j), {k}, D, {}, {})
      /\ Wants(j, x, k)
  BY DEF Right, TrackerRight, Listens
<1>2. Rewritten(s, j, t, h, y)
  BY <1>1, WorksStacked
<1>3. y = [x EXCEPT !.stacked = @ + 1, !.keys = @ \cup {k}]
  BY DEF StackedOn
<1>4. /\ y.keys = x.keys \cup {k} /\ y.deps = x.deps /\ y.bottom = x.bottom
  BY <1>1, <1>3 DEF TrackerTyped
<1>5. NextUpper(j, x) = {k} /\ \A d \in DOMAIN x.bottom : x.bottom[d].st = "ready"
  BY <1>1 DEF Wants, NextUpper
<1>6. Stacking(j, x, {k}, k, y)
  BY <1>3, <1>5 DEF Stacking
<1>7. u = FetchUpperLayers(h, j)
  BY DEF GotUpperFsLayer, KeepStacked
<1> HIDE DEF x, y, h, u
<1>8. TrackerRight(j, y, ListedIn(t, j), ReadFor(t.digests, j), NextUpper(j, y), D, {}, {})
  BY <1>1, <1>6, UpperIsStacked
<1>9. /\ Right(s, j, h, NextUpper(j, h.job[j]), D, {}, {})
      /\ \A d \in DOMAIN h.job[j].bottom : h.job[j].bottom[d].st = "ready"
  BY <1>2, <1>4, <1>5, <1>8 DEF Right, Rewritten
<1>10. Right(s, j, u, {}, D, {}, {}) /\ Further(j, h, u)
  BY <1>7, <1>9, RightFetchUpper
<1>11. Further(j, t, u)
  BY <1>2, <1>4, <1>10 DEF Further, Rewritten, x
<1>12. QED
  BY <1>10, <1>11 DEF u

\* A bottom layer is there: it is ready, and kept.
BottomReady(t, j, d) == Keep(SetBottom(t, j, d, Ready), j, Bottom(d))
AllBottoms(x) == \A e \in DOMAIN x.bottom : x.bottom[e].st = "ready"

BottomTold(s, j, t, O, D, d, h) ==
  LET x == t.job[j]
      y == h.job[j]
  IN
  /\ d \in DOMAIN x.bottom /\ x.bottom[d] = WaitingForFsLayer /\ x.bottom[d].st = "fsLayer"
  /\ x.deps[d] = <<>>
  /\ DOMAIN y.bottom = DOMAIN x.bottom /\ y.bottom[d].st = "ready"
  /\ \A e \in DOMAIN x.bottom \ {d} : y.bottom[e] = x.bottom[e]
  /\ y.keys = x.keys \cup {Bottom(d)} /\ y.deps = x.deps /\ y.stacked = x.stacked
  /\ AllReady(y) <=> AllBottoms(y)
  /\ Further(j, t, h)
  /\ ~AllBottoms(y) => Right(s, j, h, O \ {Bottom(d)}, D, {}, {})
  /\ AllBottoms(y) => /\ Right(s, j, h, NextUpper(j, y), D, {}, {})
                      /\ \A i \in Key : i \notin O \ {Bottom(d)}

LEMMA RightReady ==
  ASSUME NEW s, NEW j \in Job, NEW t, NEW O, NEW D, NEW d \in Digest,
         Right(s, j, t, O, D, {}, {}), Bottom(d) \in O
  PROVE  BottomTold(s, j, t, O, D, d, BottomReady(t, j, d))
<1> DEFINE x == t.job[j]
           k == Bottom(d)
           x1 == WithKey(x, k)
           y1 == WithBottom(x, d, Ready)
           y == WithKey(y1, k)
           h1 == SetBottom(t, j, d, Ready)
           h == Keep(h1, j, k)
           L == ListedIn(t, j)
           R == ReadFor(t.digests, j)
<1>1. /\ Works(s, j, t) /\ TrackerTyped(j, x) /\ TrackerRight(j, x, L, R, O, D, {}, {})
      /\ Wants(j, x, k)
  BY KeyForms DEF Right, TrackerRight, Listens
<1>2. d \in DOMAIN x.bottom /\ x.bottom[d].st = "fsLayer" /\ DOMAIN x.bottom = ToSet(Layers[j])
  BY <1>1, WantsForms DEF TrackerTyped
<1>3. x.bottom[d] = WaitingForFsLayer
  BY <1>1, <1>2, BottomForms DEF TrackerTyped
<1>4. k \in Needed(j)
  BY <1>2, NeededKeys
<1>5. TrackerRight(j, x1, L, R, O, D, {}, {}) /\ k \in x1.keys
  BY <1>1, <1>4, KeyIsKept DEF WithKey
<1>6. TrackerTyped(j, y1) /\ Changed(x, y1, d) /\ y1.bottom[d] = Ready
  BY <1>1, <1>2, ChangedBottom, BottomForms DEF WithBottom
<1>7. /\ DOMAIN x1 = DOMAIN x /\ x1.keys = x.keys \cup {k} /\ x1.deps = x.deps
      /\ x1.bottom = x.bottom /\ x1.stacked = x.stacked
      /\ DOMAIN y = DOMAIN y1 /\ y.keys = y1.keys \cup {k} /\ y.deps = y1.deps
      /\ y.bottom = y1.bottom /\ y.stacked = y1.stacked /\ y.st = y1.st
  <2> HIDE DEF x, y1
  <2>1. QED
    BY <1>1, <1>6 DEF TrackerTyped, WithKey
<1>20. IsRecord(y)
  BY UpdatesAreRecords DEF WithKey
<1>8. Rewritten(s, j, t, h1, y1)
  BY <1>1, WorksBottom
<1> HIDE DEF x, x1, y1, h1, k
<1>9. Rewritten(s, j, h1, h, y)
  <2>1. Works(s, j, h1) /\ h1.job[j] = y1
    BY <1>8 DEF Rewritten
  <2>2. QED
    BY <2>1, WorksKey
<1> HIDE DEF y, h
<1>10. /\ Works(s, j, h) /\ h.job[j] = y /\ ListedIn(h, j) = L /\ ReadFor(h.digests, j) = R
  BY <1>8, <1>9 DEF Rewritten
<1>11. Changed(x1, y, d) /\ TrackerTyped(j, y)
  BY <1>6, <1>7, <1>20 DEF Changed, TrackerTyped
<1>12. x1.bottom[d].st = "fsLayer" /\ y.bottom[d].st = "ready" /\ k \in O
  BY <1>2, <1>6, <1>7, BottomForms DEF k
<1> DEFINE all == AllBottoms(y)
<1>13. /\ ~all => TrackerRight(j, y, L, R, O \ {k}, D, {}, {})
       /\ all => /\ TrackerRight(j, y, L, R, NextUpper(j, y), D, {}, {})
                 /\ \A i \in Key : i \notin O \ {k}
  BY <1>5, <1>11, <1>12, LayerIsReady DEF k, AllBottoms
<1>14. AllReady(y) <=> all
  <2>1. y.bottom \in [ToSet(Layers[j]) -> PendingBottomLayer]
    BY <1>11 DEF TrackerTyped
  <2>2. QED
    BY <2>1, BottomForms DEF AllReady, AllBottoms
<1>15. Further(j, t, h)
  BY <1>6, <1>7, <1>10 DEF Further, Changed, x
<1>16. /\ DOMAIN y.bottom = DOMAIN x.bottom /\ y.bottom[d].st = "ready"
       /\ \A e \in DOMAIN x.bottom \ {d} : y.bottom[e] = x.bottom[e]
       /\ y.keys = x.keys \cup {k} /\ y.deps = x.deps /\ y.stacked = x.stacked
  BY <1>6, <1>7, <1>12 DEF Changed
<1>17. ~all => Right(s, j, h, O \ {k}, D, {}, {})
  BY <1>10, <1>13 DEF Right
<1>18. all => Right(s, j, h, NextUpper(j, y), D, {}, {})
  BY <1>10, <1>13 DEF Right
<1>19. h = BottomReady(t, j, d)
  BY DEF h, h1, k, BottomReady
<1>21. x.deps[d] = <<>>
  BY <1>1, <1>2 DEF TrackerRight, Depends
<1>22. BottomTold(s, j, t, O, D, d, h)
  BY <1>2, <1>3, <1>10, <1>13, <1>14, <1>15, <1>16, <1>17, <1>18, <1>21
     DEF BottomTold, x, k
<1>23. QED
  BY <1>19, <1>22

\* got_bottom_fs_layer
LEMMA RightGotBottom ==
  ASSUME NEW s, NEW j \in Job, NEW t, NEW O, NEW D, NEW d \in Digest,
         Right(s, j, t, O, D, {}, {}), Bottom(d) \in O
  PROVE  LET u == GotBottomFsLayer(t, j, d) IN
         Right(s, j, u, O \ {Bottom(d)}, D, {}, {}) /\ Further(j, t, u)
<1> DEFINE h == BottomReady(t, j, d)
           y == h.job[j]
           k == Bottom(d)
           u == GotBottomFsLayer(t, j, d)
<1>1. u = IF t.job[j].bottom[d] # WaitingForFsLayer THEN Panic(t)
          ELSE IF AllReady(y) THEN FetchUpperLayers(h, j) ELSE h
  BY DEF GotBottomFsLayer, BottomReady, SetBottom
<1> HIDE DEF h, u, k
<1>2. BottomTold(s, j, t, O, D, d, h)
  BY RightReady DEF h
<1>3. /\ t.job[j].bottom[d] = WaitingForFsLayer /\ Further(j, t, h)
      /\ AllReady(y) <=> AllBottoms(y)
      /\ ~AllBottoms(y) => Right(s, j, h, O \ {k}, D, {}, {})
      /\ AllBottoms(y) => /\ Right(s, j, h, NextUpper(j, y), D, {}, {})
                          /\ \A i \in Key : i \notin O \ {k}
  BY <1>2 DEF BottomTold, k
<1>4. CASE ~AllBottoms(y)
  <2>1. u = h
    BY <1>1, <1>3, <1>4
  <2>2. QED
    BY <1>3, <1>4, <2>1 DEF u, k
<1>5. CASE AllBottoms(y)
  <2>1. u = FetchUpperLayers(h, j)
    BY <1>1, <1>3, <1>5
  <2>2. Right(s, j, u, {}, D, {}, {}) /\ Further(j, h, u)
    BY <1>3, <1>5, <2>1, RightFetchUpper DEF AllBottoms
  <2>3. \A i \in Key : i \in O \ {k} <=> i \in {}
    BY <1>3, <1>5
  <2>4. Right(s, j, u, O \ {k}, D, {}, {})
    BY <2>2, <2>3, OwedSame DEF Right
  <2>5. Further(j, t, u)
    BY <1>3, <2>2 DEF Further
  <2>6. QED
    BY <2>4, <2>5 DEF u, k
<1>6. QED
  BY <1>4, <1>5

\* fetch_bottom_fs_layer, for a layer that is to wait for its bottom layer
LEMMA RightFetchBottom ==
  ASSUME NEW s, NEW j \in Job, NEW t, NEW O, NEW D, NEW d \in Digest,
         Works(s, j, t), TrackerTyped(j, t.job[j]),
         TrackerRight(j, WithBottom(t.job[j], d, WaitingForFsLayer), ListedIn(t, j),
                      ReadFor(t.digests, j), O, D, {}, {}),
         Bottom(d) \in O
  PROVE  LET u == FetchBottomFsLayer(t, j, d) IN
         Right(s, j, u, O \ {Bottom(d)}, D, {}, {}) /\ Further(j, t, u)
<1> DEFINE x == t.job[j]
           k == Bottom(d)
           y == WithBottom(x, d, WaitingForFsLayer)
           f == Fetch(t, j, k)
           h == SetBottom(f, j, d, WaitingForFsLayer)
           u == FetchBottomFsLayer(t, j, d)
           L == ListedIn(t, j)
           R == ReadFor(t.digests, j)
<1>1. k \in Key /\ k \in O /\ TrackerRight(j, y, L, R, O, D, {}, {})
  BY KeyForms
<1>2. y.deps = x.deps /\ y.keys = x.keys
  BY DEF WithBottom, TrackerTyped
<1> HIDE DEF x, y, k
<1>3. k \notin L
  BY <1>1 DEF TrackerRight, Listens
<1>4. Asked(s, j, t, k, f)
  BY <1>1, <1>3, FetchAsks
<1> HIDE DEF f
<1>5. Works(s, j, f) /\ f.job[j] = x
  BY <1>4 DEF Asked, x
<1>6. Rewritten(s, j, f, h, y)
  BY <1>5, WorksBottom DEF y
<1> HIDE DEF h
<1>7. /\ Works(s, j, h) /\ h.job[j] = y /\ ReadFor(h.digests, j) = R
      /\ ListedIn(h, j) = IF Got(t, j, k) THEN L ELSE L \cup {k}
  BY <1>4, <1>6 DEF Asked, Rewritten
<1>8. u = IF Got(t, j, k) THEN GotBottomFsLayer(h, j, d) ELSE h
  BY DEF FetchBottomFsLayer, SetBottom, h, f, k
<1>9. Further(j, t, h)
  BY <1>2, <1>7 DEF Further, x
<1> HIDE DEF L, R, u
<1>10. CASE Got(t, j, k)
  <2>1. Right(s, j, h, O, D, {}, {}) /\ u = GotBottomFsLayer(h, j, d)
    BY <1>1, <1>7, <1>8, <1>10 DEF Right
  <2>2. Right(s, j, u, O \ {k}, D, {}, {}) /\ Further(j, h, u)
    BY <1>1, <2>1, RightGotBottom DEF k
  <2>3. QED
    BY <1>9, <2>2 DEF Further, u, k
<1>11. CASE ~Got(t, j, k)
  <2>1. TrackerRight(j, y, L \cup {k}, R, O \ {k}, D, {}, {})
    BY <1>1, OwedIsListed
  <2>2. Right(s, j, u, O \ {k}, D, {}, {}) /\ u = h
    BY <1>7, <1>8, <1>11, <2>1 DEF Right
  <2>3. QED
    BY <1>9, <2>2 DEF u, k
<1>12. QED
  BY <1>10, <1>11

\* The manifest m is told that one artifact it waits for is there.
LEMMA RightOneLess ==
  ASSUME NEW s, NEW j \in Job, NEW t, NEW O, NEW D, NEW m \in D, Right(s, j, t, O, D, {}, {})
  PROVE  LET u == OneLess(t, j, m) IN
         Right(s, j, u, O, D \ {m}, {}, {}) /\ Further(j, t, u)
<1> DEFINE x == t.job[j]
           u == OneLess(t, j, m)
           L == ListedIn(t, j)
           R == ReadFor(t.digests, j)
           left == x.bottom[m].left
<1>1. /\ Works(s, j, t) /\ TrackerTyped(j, x) /\ TrackerRight(j, x, L, R, O, D, {}, {})
      /\ m \in DOMAIN x.bottom /\ x.bottom[m].st = "artifacts"
  BY DEF Right, TrackerRight, Counts
<1>2. m \in Digest /\ x.bottom[m] \in PendingBottomLayer
  BY <1>1, LayersTyped DEF TrackerTyped
<1>3. left \in Nat \ {0}
  BY <1>1, <1>2, BottomForms
<1> HIDE DEF x, L, R, left
<1>4. CASE left = 1
  <2> DEFINE y == WithBottom(x, m, WaitingForFsLayer)
             k == Bottom(m)
             P == O \cup {k}
  <2>1. TrackerTyped(j, y) /\ Changed(x, y, m) /\ y.bottom[m] = WaitingForFsLayer
    BY <1>1, <1>2, ChangedBottom, BottomForms DEF WithBottom
  <2>2. u = FetchBottomFsLayer(t, j, m)
    BY <1>1, <1>4 DEF OneLess, x, left
  <2> HIDE DEF y, u
  <2>3. y.bottom[m].st = "fsLayer" /\ x.bottom[m].left = 1
    BY <1>4, <2>1, BottomForms DEF left
  <2>4. TrackerRight(j, y, L, R, P, D \ {m}, {}, {})
    BY <1>1, <1>2, <2>1, <2>3, LastIsThere
  <2>5. Right(s, j, u, P \ {k}, D \ {m}, {}, {}) /\ Further(j, t, u)
    BY <1>1, <1>2, <2>2, <2>4, RightFetchBottom DEF x, y, L, R
  <2>6. k \notin O
    <3>1. ~Wants(j, x, k)
      BY <1>1, WantsForms
    <3>2. k \in Key
      BY <1>2, KeyForms
    <3>3. QED
      BY <1>1, <3>1, <3>2 DEF TrackerRight, Listens
  <2>7. P \ {k} = O
    BY <2>6
  <2>8. QED
    BY <2>5, <2>7 DEF u
<1>5. CASE left # 1
  <2> DEFINE b == WaitingForArtifacts(left - 1)
             y == WithBottom(x, m, b)
  <2>1. b \in PendingBottomLayer /\ b.st = "artifacts" /\ b.left = left - 1
    <3>1. left - 1 \in Nat \ {0}
      BY <1>3, <1>5
    <3>2. QED
      BY <3>1, BottomForms
  <2> HIDE DEF b
  <2>2. TrackerTyped(j, y) /\ Changed(x, y, m) /\ y.bottom[m] = b
    BY <1>1, <1>2, <2>1, ChangedBottom DEF WithBottom
  <2>3. u = SetBottom(t, j, m, b)
    BY <1>1, <1>5 DEF OneLess, x, left, b, SetBottom
  <2> HIDE DEF y, u
  <2>4. Rewritten(s, j, t, u, y)
    BY <1>1, <2>3, WorksBottom DEF y, x
  <2>5. TrackerRight(j, y, L, R, O, D \ {m}, {}, {})
    <3>1. y.bottom[m].st = "artifacts" /\ y.bottom[m].left = x.bottom[m].left - 1
      BY <2>1, <2>2 DEF left
    <3>2. QED
      BY <1>1, <1>2, <2>2, <3>1, OneIsThere
  <2>6. y.deps = x.deps /\ y.keys = x.keys
    BY <2>2 DEF Changed
  <2>7. QED
    BY <2>4, <2>5, <2>6 DEF Right, Rewritten, Further, L, R, x, u
<1>6. QED
  BY <1>4, <1>5

\* got_manifest_artifact: the manifests are told one by one.
Lessens(r, i, t) ==
  /\ Right(r.s, r.j, t, r.O, Rest(r.q, i), {}, {})
  /\ t.job[r.j].deps = r.t.job[r.j].deps /\ r.t.job[r.j].keys \subseteq t.job[r.j].keys

ArtifactTellings == INSTANCE FoldTheorems WITH Op <- LessStep, Inv <- Lessens

LEMMA ManifestArtifactFold ==
  ASSUME NEW j, NEW t, NEW d
  PROVE  GotManifestArtifact(t, j, d)
           = ArtifactTellings!Fold(j, 0, SetDeps(t, j, d, <<>>), t.job[j].deps[d])
<1> DEFINE q == t.job[j].deps[d]
           h == SetDeps(t, j, d, <<>>)
<1> HIDE DEF q, h
<1>1. ArtifactTellings!Fold(j, 0, h, q) = FoldLeft(LAMBDA g, m : OneLess(g, j, m), h, q)
  BY DEF ArtifactTellings!Fold, LessStep, FoldLeft, MapThenFoldSet, Max,
         ArtifactTellings!Greatest
<1>2. QED
  BY <1>1, Zenon DEF GotManifestArtifact, q, h, SetDeps

ManifestsTold(s, j, t, O, d, u) ==
  /\ Right(s, j, u, IF d \in ToSet(Layers[j]) THEN O ELSE O \ {Blob(d)}, {}, {}, {})
  /\ u.job[j].deps[d] = <<>> /\ t.job[j].keys \subseteq u.job[j].keys
  /\ d \notin ToSet(Layers[j]) => t.job[j].deps[d] # <<>>

LEMMA RightManifestArtifact ==
  ASSUME NEW s, NEW j \in Job, NEW t, NEW O, NEW d \in Digest, Right(s, j, t, O, {}, {}, {}),
         Blob(d) \in O, Blob(d) \in t.job[j].keys
  PROVE  ManifestsTold(s, j, t, O, d, GotManifestArtifact(t, j, d))
<1> DEFINE x == t.job[j]
           q == x.deps[d]
           h == SetDeps(t, j, d, <<>>)
           y == WithDeps(x, d, <<>>)
           L == ListedIn(t, j)
           R == ReadFor(t.digests, j)
           P == IF d \in ToSet(Layers[j]) THEN O ELSE O \ {Blob(d)}
           r == [s |-> s, j |-> j, t |-> h, O |-> P, q |-> q]
           u == GotManifestArtifact(t, j, d)
<1>1. /\ Works(s, j, t) /\ TrackerTyped(j, x) /\ TrackerRight(j, x, L, R, O, {}, {}, {})
      /\ DOMAIN x.bottom = ToSet(Layers[j]) /\ q \in Seq(Manifest)
  BY DEF Right, TrackerRight, TrackerTyped
<1>3. y.keys = x.keys
  BY <1>1 DEF TrackerTyped, WithDeps
<1>4. Rewritten(s, j, t, h, y)
  <2>1. <<>> \in Seq(Manifest)
    OBVIOUS
  <2>2. QED
    BY <1>1, <2>1, WorksDeps
<1>5. u = ArtifactTellings!Fold(j, 0, h, q)
  BY ManifestArtifactFold
<1> HIDE DEF x, h, u, L, R
<1>6. /\ TrackerRight(j, y, L, R, P, ToSet(q), {}, {})
      /\ y.deps[d] = <<>>
      /\ d \notin ToSet(Layers[j]) => q # <<>>
  <2>1. Blob(d) \in x.keys
    BY DEF x
  <2>2. AboutToTell(j, x, d, L, R, O)
    BY <1>1, <2>1, DependentsAreTold
  <2>3. QED
    BY <1>1, <2>2 DEF AboutToTell
<1> HIDE DEF q, P, y
<1>2. r.s = s /\ r.j = j /\ r.t = h /\ r.O = P /\ r.q = q
  OBVIOUS
<1> HIDE DEF r
<1>7. Lessens(r, 0, h)
  <2>1. Rest(q, 0) = ToSet(q)
    BY <1>1, RestForms
  <2>2. Right(s, j, h, P, Rest(q, 0), {}, {})
    BY <1>4, <1>6, <2>1 DEF Right, Rewritten, L, R
  <2>3. QED
    BY <1>2, <2>2 DEF Lessens
<1>8. IsInjective(q)
  BY <1>1 DEF TrackerRight, Depends, q
<1>9. ASSUME NEW a, NEW n \in 1 .. Len(q), q[n] \in Manifest, Lessens(r, n - 1, a)
      PROVE  Lessens(r, n, LessStep(j, 0, a, q[n]))
  <2> DEFINE D == Rest(q, n - 1)
             m == q[n]
             b == OneLess(a, j, m)
  <2>1. /\ Right(s, j, a, P, D, {}, {})
        /\ a.job[j].deps = h.job[j].deps /\ h.job[j].keys \subseteq a.job[j].keys
    BY <1>2, <1>9 DEF Lessens
  <2>2. m \in D /\ Rest(q, n) = D \ {m}
    BY <1>1, <1>8, RestForms
  <2> HIDE DEF D, m, b
  <2>3. Right(s, j, b, P, D \ {m}, {}, {}) /\ Further(j, a, b)
    BY <2>1, <2>2, RightOneLess DEF b
  <2>4. Lessens(r, n, b)
    BY <1>2, <2>1, <2>2, <2>3 DEF Lessens, Further
  <2>5. QED
    BY <1>2, <2>4 DEF LessStep, b, m
<1>10. Lessens(r, Len(q), u)
  BY <1>1, <1>5, <1>7, <1>9, LeastOf, ArtifactTellings!FoldKeeps
<1>11. /\ Right(s, j, u, P, {}, {}, {})
       /\ u.job[j].deps = h.job[j].deps /\ h.job[j].keys \subseteq u.job[j].keys
  <2>1. Rest(q, Len(q)) = {}
    BY <1>1, RestForms
  <2>2. QED
    BY <1>2, <1>10, <2>1 DEF Lessens
<1>12. h.job[j] = y
  BY <1>4 DEF Rewritten
<1>13. u.job[j].deps[d] = <<>> /\ x.keys \subseteq u.job[j].keys
  BY <1>3, <1>6, <1>11, <1>12
<1>14. QED
  BY <1>6, <1>11, <1>13 DEF ManifestsTold, u, P, q, x

\* The job gets a key that it needs.
LEMMA RightKeep ==
  ASSUME NEW s, NEW j \in Job, NEW t, NEW O, NEW D, NEW E, NEW T, Right(s, j, t, O, D, E, T),
         NEW k \in Needed(j)
  PROVE  /\ Right(s, j, Keep(t, j, k), O, D, E, T) /\ Further(j, t, Keep(t, j, k))
         /\ k \in Keep(t, j, k).job[j].keys
<1> DEFINE x == t.job[j]
           y == WithKey(x, k)
           u == Keep(t, j, k)
<1>1. /\ Works(s, j, t) /\ TrackerTyped(j, x)
      /\ TrackerRight(j, x, ListedIn(t, j), ReadFor(t.digests, j), O, D, E, T)
  BY DEF Right, TrackerRight
<1>2. /\ TrackerRight(j, y, ListedIn(t, j), ReadFor(t.digests, j), O, D, E, T)
      /\ k \in y.keys
  BY <1>1, KeyIsKept DEF WithKey
<1>3. y.deps = x.deps /\ y.keys = x.keys \cup {k}
  <2> HIDE DEF x
  <2>1. QED
    BY <1>1 DEF TrackerTyped, WithKey
<1>4. Rewritten(s, j, t, u, y)
  BY <1>1, WorksKey
<1> HIDE DEF y, u
<1>5. Right(s, j, u, O, D, E, T) /\ Further(j, t, u) /\ k \in u.job[j].keys
  BY <1>2, <1>3, <1>4 DEF Rewritten, Right, Further, x
<1>6. QED
  BY <1>5 DEF u

\* u is t once the digests of the manifest m have been asked for.
GetDigests(t, j, m) == [t EXCEPT !.digests = Digests!Get(@, m, j)]

Gets(s, j, t, m, u) ==
  /\ Works(s, j, u) /\ u.job = t.job /\ ListedIn(u, j) = ListedIn(t, j)
  /\ ReadFor(u.digests, j) = ReadFor(t.digests, j) \cup {m}

LEMMA DigestsAreGot ==
  ASSUME NEW s, NEW j \in Job, NEW t, Works(s, j, t),
         NEW m \in Manifest, m \notin ReadFor(t.digests, j)
  PROVE  Gets(s, j, t, m, GetDigests(t, j, m))
BY WorksGet DEF Gets, GetDigests

\* What the job is told of is what it needs.
LEMMA BlobIsNeeded ==
  ASSUME NEW j \in Job, NEW x, NEW L, NEW R, NEW O, NEW d \in Digest,
         TrackerRight(j, x, L, R, O, {}, {}, {}), Blob(d) \in O
  PROVE  /\ Blob(d) \in Needed(j) /\ DOMAIN x.bottom = ToSet(Layers[j])
         /\ d \in DOMAIN x.bottom \/ x.deps[d] # <<>>
<1>1. /\ TrackerTyped(j, x) /\ Listens(j, x, L, O) /\ Depends(x, {}, {}) /\ Counts(x, {})
      /\ DOMAIN x.bottom = ToSet(Layers[j])
  BY DEF TrackerRight, TrackerTyped
<1>2. Wants(j, x, Blob(d))
  BY <1>1, KeyForms DEF Listens
<1>3. d \in DOMAIN x.bottom \/ x.deps[d] # <<>>
  BY <1>2, WantsForms
<1>4. CASE d \in DOMAIN x.bottom
  BY <1>1, <1>4, NeededKeys
<1>5. CASE x.deps[d] # <<>>
  <2> DEFINE q == x.deps[d]
             m == q[1]
  <2>1. q \in Seq(Manifest)
    BY <1>1 DEF TrackerTyped
  <2>2. m \in ToSet(q)
    BY <1>5, <2>1 DEF ToSet
  <2>3. m \in DOMAIN x.bottom /\ d \in Entries[m] /\ x.bottom[m].st = "artifacts"
    BY <1>1, <2>2 DEF Depends
  <2>4. m \in Manifest
    BY <1>1, <2>3 DEF Counts
  <2> HIDE DEF m, q
  <2>5. m \in ToSet(Layers[j]) \cap Manifest /\ d \in Entries[m]
    BY <1>1, <2>3, <2>4
  <2>6. Blob(d) \in Needed(j)
    BY <2>5, NeededKeys
  <2>7. QED
    BY <1>1, <1>3, <2>6
<1>6. QED
  BY <1>1, <1>3, <1>4, <1>5

\* got_artifact
LEMMA RightGotArtifact ==
  ASSUME NEW s, NEW j \in Job, NEW t, NEW O, NEW d \in Digest, Right(s, j, t, O, {}, {}, {}),
         Blob(d) \in O
  PROVE  Right(s, j, GotArtifact(t, j, d), O \ {Blob(d)}, {}, {}, {})
<1> DEFINE k == Blob(d)
           a == Keep(t, j, k)
           h == GotManifestArtifact(a, j, d)
           x == h.job[j]
           u == GotArtifact(t, j, d)
           P == O \ {k}
           L == ListedIn(h, j)
           R == ReadFor(h.digests, j)
<1>1. k \in Needed(j)
  BY BlobIsNeeded DEF Right
<1>2. /\ Right(s, j, a, O, {}, {}, {}) /\ Further(j, t, a) /\ k \in a.job[j].keys
  BY <1>1, RightKeep
<1>3. u = IF d \notin DOMAIN x.bottom
          THEN IF t.job[j].deps[d] = <<>> THEN Panic(h) ELSE h
          ELSE IF x.bottom[d] # WaitingForArtifact THEN Panic(h)
          ELSE IF d \in Manifest
          THEN [h EXCEPT !.digests = Digests!Get(@, d, j), !.job[j].bottom[d] = WaitingForDigests]
          ELSE FetchBottomFsLayer(h, j, d)
  BY DEF GotArtifact
<1> HIDE DEF a, u
<1>4. /\ Right(s, j, h, IF d \in ToSet(Layers[j]) THEN O ELSE P, {}, {}, {})
      /\ h.job[j].deps[d] = <<>> /\ a.job[j].keys \subseteq h.job[j].keys
      /\ d \notin ToSet(Layers[j]) => a.job[j].deps[d] # <<>>
  <2>1. ManifestsTold(s, j, a, O, d, h)
    BY <1>2, RightManifestArtifact
  <2>2. QED
    BY <2>1 DEF ManifestsTold
<1> HIDE DEF h
<1>5. TrackerTyped(j, x) /\ DOMAIN x.bottom = ToSet(Layers[j]) /\ Works(s, j, h)
  BY <1>4 DEF Right, TrackerRight, TrackerTyped
<1>6. CASE d \notin DOMAIN x.bottom
  <2>1. t.job[j].deps[d] # <<>>
    BY <1>2, <1>4, <1>5, <1>6 DEF Further
  <2>2. u = h
    BY <1>3, <1>6, <2>1
  <2>3. QED
    BY <1>4, <1>5, <1>6, <2>2 DEF u
<1>7. CASE d \in DOMAIN x.bottom
  <2>1. /\ TrackerRight(j, x, L, R, O, {}, {}, {}) /\ k \in x.keys /\ x.deps[d] = <<>>
    BY <1>2, <1>4, <1>5, <1>7 DEF Right
  <2>2. k \in Key /\ Bottom(d) \in Key
    BY KeyForms
  <2>3. Wants(j, x, k) /\ (Bottom(d) \in O => Wants(j, x, Bottom(d)))
    BY <2>1, <2>2 DEF TrackerRight, Listens
  <2>4. x.bottom[d].st = "artifact"
    BY <2>1, <2>3, WantsForms
  <2>5. x.bottom[d] = WaitingForArtifact /\ Bottom(d) \notin O
    <3>1. x.bottom[d] \in PendingBottomLayer
      BY <1>5, <1>7 DEF TrackerTyped
    <3>2. QED
      BY <2>3, <2>4, <3>1, BottomForms, WantsForms
  <2>6. CASE d \in Manifest
    <3> DEFINE g == GetDigests(h, j, d)
               y == WithBottom(x, d, WaitingForDigests)
    <3>1. TrackerTyped(j, y) /\ Changed(x, y, d) /\ y.bottom[d] = WaitingForDigests
      BY <1>5, <1>7, ChangedBottom, BottomForms DEF WithBottom
    <3>2. y.bottom[d].st = "digests"
      BY <3>1, BottomForms
    <3>3. d \notin R
      BY <2>1, <2>4 DEF TrackerRight, Reads
    <3>4. TrackerRight(j, y, L, R \cup {d}, P, {}, {}, {})
      <4> HIDE DEF x, y, L, R
      <4>1. QED
        BY <2>1, <2>4, <2>6, <3>1, <3>2, ManifestIsRead
    <3>5. u = SetBottom(g, j, d, WaitingForDigests)
      <4>1. u = [h EXCEPT !.digests = Digests!Get(@, d, j), !.job[j].bottom[d] = WaitingForDigests]
        BY <1>3, <1>7, <2>5, <2>6
      <4>2. QED
        BY <1>5, <4>1 DEF SetBottom, GetDigests, Works, OnlyTracks, StateFields
    <3> HIDE DEF x, y, L, R, g
    <3>6. Gets(s, j, h, d, g)
      BY <1>5, <2>6, <3>3, DigestsAreGot DEF g, R
    <3>7. Works(s, j, g) /\ g.job[j] = x /\ ListedIn(g, j) = L /\ ReadFor(g.digests, j) = R \cup {d}
      BY <3>6 DEF Gets, x, L, R
    <3>8. Rewritten(s, j, g, u, y)
      BY <3>5, <3>7, WorksBottom DEF y
    <3>9. QED
      BY <3>4, <3>7, <3>8 DEF Rewritten, Right, u
  <2>7. CASE d \notin Manifest
    <3> DEFINE y == WithBottom(x, d, WaitingForFsLayer)
               Q == P \cup {Bottom(d)}
    <3>1. TrackerTyped(j, y) /\ Changed(x, y, d) /\ y.bottom[d] = WaitingForFsLayer
      BY <1>5, <1>7, ChangedBottom, BottomForms DEF WithBottom
    <3>2. y.bottom[d].st = "fsLayer"
      BY <3>1, BottomForms
    <3>3. TrackerRight(j, y, L, R, Q, {}, {}, {})
      <4> HIDE DEF x, y, L, R
      <4>1. QED
        BY <2>1, <2>4, <2>7, <3>1, <3>2, LayerIsBuilt
    <3>4. u = FetchBottomFsLayer(h, j, d)
      BY <1>3, <1>7, <2>5, <2>7
    <3>5. Q \ {Bottom(d)} = P
      BY <2>5
    <3> HIDE DEF Q, P
    <3>6. Bottom(d) \in Q
      BY DEF Q
    <3>7. Right(s, j, u, Q \ {Bottom(d)}, {}, {}, {})
      BY <1>5, <3>3, <3>4, <3>6, RightFetchBottom
    <3>8. QED
      BY <3>5, <3>7 DEF u, P
  <2>8. QED
    BY <2>6, <2>7
<1>8. QED
  BY <1>6, <1>7

\* got_manifest_digests: the entries of m are gone through one by one.
LEMMA RightNeedEntry ==
  ASSUME NEW s, NEW j \in Job, NEW t, NEW m \in Manifest, NEW T, Right(s, j, t, {}, {}, {m}, T),
         NEW d \in T, d \in Entries[m]
  PROVE  Right(s, j, NeedEntry(t, j, m, d), {}, {}, {m}, T \ {d})
<1> DEFINE x == t.job[j]
           k == Blob(d)
           L == ListedIn(t, j)
           R == ReadFor(t.digests, j)
           q == Append(x.deps[d], m)
           y == WithDeps(x, d, q)
           u == NeedEntry(t, j, m, d)
<1>1. /\ Works(s, j, t) /\ TrackerTyped(j, x) /\ TrackerRight(j, x, L, R, {}, {}, {m}, T)
      /\ d \in Digest /\ k \in Key
  BY LayersAssumption, KeyForms DEF Right, TrackerRight
<1>2. u = IF k \in x.keys THEN t
          ELSE IF x.deps[d] # <<>> \/ d \in DOMAIN x.bottom THEN Depend(t, j, m, d)
          ELSE FetchEntry(t, j, m, d)
  BY DEF NeedEntry
<1>3. q \in Seq(Manifest)
  BY <1>1 DEF TrackerTyped
<1>4. m \in ToSet(Layers[j]) \cap Manifest
  BY <1>1 DEF TrackerRight, Reads, TrackerTyped
<1>5. k \in Needed(j)
  <2> HIDE DEF k
  <2>1. k = Blob(d)
    BY DEF k
  <2>2. QED
    BY <1>4, <2>1, NeededKeys
<1> HIDE DEF k, u
<1>6. k \in L <=> (d \in DOMAIN x.bottom /\ x.bottom[d].st = "artifact") \/ x.deps[d] # <<>>
  <2>1. k \in L <=> Wants(j, x, k)
    BY <1>1 DEF TrackerRight, Listens
  <2>2. QED
    BY <2>1, WantsForms DEF k
<1>7. k \notin x.keys /\ d \in DOMAIN x.bottom => x.bottom[d].st = "artifact"
  BY <1>1 DEF TrackerRight, Has, k
<1>8. CASE k \in x.keys
  <2>1. u = t
    BY <1>2, <1>8
  <2>2. TrackerRight(j, x, L, R, {}, {}, {m}, T \ {d})
    BY <1>1, <1>8, EntryIsThere DEF k
  <2>3. QED
    BY <1>1, <2>1, <2>2 DEF Right, u
<1>9. k \notin x.keys => TrackerRight(j, y, L \cup {k}, R, {}, {}, {m}, T \ {d})
  <2> HIDE DEF x, L, R
  <2>1. QED
    BY <1>1, <1>7, EntryIsLacking DEF k
<1>10. CASE k \notin x.keys /\ (x.deps[d] # <<>> \/ d \in DOMAIN x.bottom)
  <2>1. u = SetDeps(t, j, d, q)
    BY <1>2, <1>10 DEF Depend, SetDeps
  <2> HIDE DEF q
  <2>2. Rewritten(s, j, t, u, y)
    BY <1>1, <1>3, <2>1, WorksDeps
  <2>3. L \cup {k} = L
    BY <1>6, <1>7, <1>10
  <2> HIDE DEF y, L, R
  <2>4. TrackerRight(j, y, L, R, {}, {}, {m}, T \ {d})
    BY <1>9, <1>10, <2>3
  <2>5. Works(s, j, u) /\ u.job[j] = y /\ ListedIn(u, j) = L /\ ReadFor(u.digests, j) = R
    BY <2>2 DEF Rewritten, L, R
  <2>6. QED
    BY <2>4, <2>5 DEF Right, u
<1>11. CASE k \notin x.keys /\ x.deps[d] = <<>> /\ d \notin DOMAIN x.bottom
  <2> DEFINE f == Fetch(t, j, k)
  <2>1. k \notin L
    BY <1>6, <1>11
  <2>2. Asked(s, j, t, k, f)
    BY <1>1, <2>1, FetchAsks
  <2>3. u = IF Got(t, j, k) THEN Keep(f, j, k) ELSE Depend(f, j, m, d)
    BY <1>2, <1>11 DEF FetchEntry, k
  <2> HIDE DEF f
  <2>4. /\ Works(s, j, f) /\ f.job[j] = x /\ ReadFor(f.digests, j) = R
        /\ ListedIn(f, j) = IF Got(t, j, k) THEN L ELSE L \cup {k}
    BY <2>2 DEF Asked
  <2>5. CASE Got(t, j, k)
    <3> DEFINE g == Keep(f, j, k)
    <3>1. Right(s, j, f, {}, {}, {m}, T)
      BY <1>1, <2>4, <2>5 DEF Right
    <3>2. Right(s, j, g, {}, {}, {m}, T) /\ k \in g.job[j].keys
      BY <1>5, <3>1, RightKeep
    <3>3. u = g
      BY <2>3, <2>5
    <3> HIDE DEF g
    <3>4. TrackerRight(j, g.job[j], ListedIn(g, j), ReadFor(g.digests, j), {}, {}, {m}, T \ {d})
      BY <1>1, <3>2, EntryIsThere DEF Right, k
    <3>5. QED
      BY <3>2, <3>3, <3>4 DEF Right, u
  <2>6. CASE ~Got(t, j, k)
    <3>1. u = SetDeps(f, j, d, q)
      BY <2>3, <2>4, <2>6 DEF Depend, SetDeps
    <3> HIDE DEF q
    <3>2. Rewritten(s, j, f, u, y)
      BY <1>3, <2>4, <3>1, WorksDeps
    <3> HIDE DEF y
    <3>3. QED
      BY <1>9, <1>11, <2>4, <2>6, <3>2 DEF Right, Rewritten, u
  <2>7. QED
    BY <2>5, <2>6
<1>12. QED
  BY <1>8, <1>10, <1>11

EntriesGone(r, i, t) == Right(r.s, r.j, t, {}, {}, {r.m}, Rest(r.q, i))

EntriesNeeded == INSTANCE FoldTheorems WITH Op <- NeedStep, Inv <- EntriesGone

EntriesOf(t, j, m) == FoldLeft(LAMBDA h, d : NeedEntry(h, j, m, d), t, SetToSeq(Entries[m]))

LEMMA ManifestDigestsFold ==
  ASSUME NEW j, NEW t, NEW m
  PROVE  EntriesOf(t, j, m) = EntriesNeeded!Fold(j, m, t, SetToSeq(Entries[m]))
<1> DEFINE q == SetToSeq(Entries[m])
<1> HIDE DEF q
<1>1. EntriesNeeded!Fold(j, m, t, q) = FoldLeft(LAMBDA g, d : NeedEntry(g, j, m, d), t, q)
  BY DEF EntriesNeeded!Fold, NeedStep, FoldLeft, MapThenFoldSet, Max,
         EntriesNeeded!Greatest
<1>2. QED
  BY <1>1, Zenon DEF EntriesOf, q

LEMMA RightEntries ==
  ASSUME NEW s, NEW j \in Job, NEW t, NEW m \in Manifest, Right(s, j, t, {}, {}, {m}, Entries[m])
  PROVE  Right(s, j, EntriesOf(t, j, m), {}, {}, {m}, {})
<1> DEFINE S == Entries[m]
           q == SetToSeq(S)
           r == [s |-> s, j |-> j, m |-> m, q |-> q]
           u == EntriesOf(t, j, m)
<1>1. q \in Seq(S) /\ IsInjective(q) /\ ToSet(q) = S
  BY LayersAssumption, SetToSeqOfFinite
<1>2. u = EntriesNeeded!Fold(j, m, t, q)
  BY ManifestDigestsFold
<1>3. r.s = s /\ r.j = j /\ r.m = m /\ r.q = q
  OBVIOUS
<1> HIDE DEF q, r, u
<1>4. EntriesGone(r, 0, t)
  BY <1>1, <1>3, RestForms DEF EntriesGone
<1>5. ASSUME NEW a, NEW n \in 1 .. Len(q), q[n] \in S, EntriesGone(r, n - 1, a)
      PROVE  EntriesGone(r, n, NeedStep(j, m, a, q[n]))
  <2> DEFINE T == Rest(q, n - 1)
             d == q[n]
  <2>1. Right(s, j, a, {}, {}, {m}, T) /\ d \in S
    BY <1>3, <1>5 DEF EntriesGone
  <2>2. d \in T /\ Rest(q, n) = T \ {d}
    BY <1>1, RestForms
  <2> HIDE DEF T, d
  <2>3. Right(s, j, NeedEntry(a, j, m, d), {}, {}, {m}, T \ {d})
    BY <2>1, <2>2, RightNeedEntry
  <2>4. QED
    BY <1>3, <2>2, <2>3 DEF EntriesGone, NeedStep, d
<1> HIDE DEF S
<1>6. EntriesGone(r, Len(q), u)
  BY <1>1, <1>2, <1>4, <1>5, LeastOf, EntriesNeeded!FoldKeeps
<1>7. Rest(q, Len(q)) = {}
  BY <1>1, RestForms
<1>8. QED
  BY <1>3, <1>6, <1>7 DEF EntriesGone, u

\* got_manifest_digests
LEMMA RightManifestDigests ==
  ASSUME NEW s, NEW j \in Job, NEW t, NEW m \in Manifest, Right(s, j, t, {}, {}, {m}, Entries[m])
  PROVE  Right(s, j, GotManifestDigests(t, j, m), {}, {}, {}, {})
<1> DEFINE g == EntriesOf(t, j, m)
           x == g.job[j]
           L == ListedIn(g, j)
           R == ReadFor(g.digests, j)
           left == Cardinality({d \in Entries[m] : m \in ToSet(x.deps[d])})
           u == GotManifestDigests(t, j, m)
<1>1. Right(s, j, g, {}, {}, {m}, {})
  BY RightEntries
<1>2. u = IF t.job[j].bottom[m] # WaitingForDigests THEN Panic(t)
          ELSE IF left > 0 THEN SetBottom(g, j, m, WaitingForArtifacts(left))
          ELSE FetchBottomFsLayer(g, j, m)
  BY DEF GotManifestDigests, EntriesOf, SetBottom
<1> HIDE DEF g, u
<1>3. t.job[j].bottom[m] = WaitingForDigests
  <2>1. /\ m \in DOMAIN t.job[j].bottom /\ t.job[j].bottom[m].st = "digests"
        /\ t.job[j].bottom \in [ToSet(Layers[j]) -> PendingBottomLayer]
    BY DEF Right, TrackerRight, Reads, TrackerTyped
  <2>2. QED
    BY <2>1, BottomForms
<1>4. /\ Works(s, j, g) /\ TrackerTyped(j, x) /\ TrackerRight(j, x, L, R, {}, {}, {m}, {})
  BY <1>1 DEF Right, TrackerRight
<1>5. m \in Digest /\ m \in DOMAIN x.bottom /\ m \notin R
  BY <1>4, LayersAssumption DEF TrackerRight, Reads
<1>6. {d \in Entries[m] : m \in ToSet(x.deps[d])} = Dependent(x, m)
  BY <1>4, <1>5, LayersAssumption DEF TrackerRight, Depends, Dependent
<1>7. IsFiniteSet(Dependent(x, m))
  BY <1>6, LayersAssumption, FS_Subset
<1>8. left = Cardinality(Dependent(x, m)) /\ left \in Nat
  BY <1>6, <1>7, FS_CardinalityType
<1> HIDE DEF left, x, L, R
<1>9. CASE left > 0
  <2> DEFINE b == WaitingForArtifacts(left)
             y == WithBottom(x, m, b)
  <2>1. b \in PendingBottomLayer /\ b.st = "artifacts" /\ b.left = left
    <3>1. left \in Nat \ {0}
      BY <1>8, <1>9
    <3>2. QED
      BY <3>1, BottomForms
  <2>2. u = SetBottom(g, j, m, b)
    BY <1>2, <1>3, <1>9
  <2> HIDE DEF b
  <2>3. TrackerTyped(j, y) /\ Changed(x, y, m) /\ y.bottom[m] = b
    BY <1>4, <1>5, <2>1, ChangedBottom DEF WithBottom
  <2>4. Rewritten(s, j, g, u, y)
    BY <1>4, <2>2, WorksBottom DEF x
  <2> HIDE DEF y
  <2>5. TrackerRight(j, y, L, R, {}, {}, {}, {})
    BY <1>4, <1>5, <1>8, <2>1, <2>3, SomeAreLacking
  <2>6. QED
    BY <2>4, <2>5 DEF Rewritten, Right, u, L, R
<1>10. CASE ~(left > 0)
  <2> DEFINE y == WithBottom(x, m, WaitingForFsLayer)
             Q == {} \cup {Bottom(m)}
  <2>1. Dependent(x, m) = {}
    <3>1. left = 0
      BY <1>8, <1>10
    <3>2. QED
      BY <1>7, <1>8, <3>1, FS_EmptySet
  <2>2. u = FetchBottomFsLayer(g, j, m)
    BY <1>2, <1>3, <1>10
  <2>3. TrackerTyped(j, y) /\ Changed(x, y, m) /\ y.bottom[m] = WaitingForFsLayer
    BY <1>4, <1>5, ChangedBottom, BottomForms DEF WithBottom
  <2>4. y.bottom[m].st = "fsLayer"
    BY <2>3, BottomForms
  <2>5. TrackerRight(j, y, L, R, Q, {}, {}, {})
    <3> HIDE DEF y
    <3>1. QED
      BY <1>4, <1>5, <2>1, <2>3, <2>4, NothingIsLacking
  <2>6. Bottom(m) \in Q /\ Q \ {Bottom(m)} = {}
    OBVIOUS
  <2> HIDE DEF Q
  <2>7. Right(s, j, u, Q \ {Bottom(m)}, {}, {}, {})
    BY <1>4, <1>5, <2>2, <2>5, <2>6, RightFetchBottom DEF x, L, R
  <2>8. QED
    BY <2>6, <2>7 DEF u
<1>11. QED
  BY <1>9, <1>10

\* A layer's artifact is fetched.
LEMMA RightFetchBlob ==
  ASSUME NEW s, NEW j \in Job, NEW t, NEW O, NEW d \in Digest, Right(s, j, t, O, {}, {}, {}),
         Blob(d) \in O
  PROVE  Right(s, j, FetchBlob(t, j, d), O \ {Blob(d)}, {}, {}, {})
<1> DEFINE k == Blob(d)
           f == Fetch(t, j, k)
           x == t.job[j]
           L == ListedIn(t, j)
           R == ReadFor(t.digests, j)
           u == FetchBlob(t, j, d)
<1>1. k \in Key /\ k \in O /\ Works(s, j, t) /\ TrackerRight(j, x, L, R, O, {}, {}, {})
  BY KeyForms DEF Right
<1>2. u = IF Got(t, j, k) THEN GotArtifact(f, j, d) ELSE f
  BY DEF FetchBlob
<1> HIDE DEF k, u
<1>3. k \notin L
  BY <1>1 DEF TrackerRight, Listens
<1>4. Asked(s, j, t, k, f)
  BY <1>1, <1>3, FetchAsks
<1> HIDE DEF f
<1>5. /\ Works(s, j, f) /\ f.job[j] = x /\ ReadFor(f.digests, j) = R
      /\ ListedIn(f, j) = IF Got(t, j, k) THEN L ELSE L \cup {k}
  BY <1>4 DEF Asked
<1> HIDE DEF x, L, R
<1>6. CASE Got(t, j, k)
  <2>1. Right(s, j, f, O, {}, {}, {}) /\ u = GotArtifact(f, j, d)
    BY <1>1, <1>2, <1>5, <1>6 DEF Right
  <2>2. QED
    BY <1>1, <2>1, RightGotArtifact DEF k, u
<1>7. CASE ~Got(t, j, k)
  <2>1. TrackerRight(j, x, L \cup {k}, R, O \ {k}, {}, {}, {})
    BY <1>1, OwedIsListed
  <2>2. QED
    BY <1>2, <1>5, <1>7, <2>1 DEF Right, u, k
<1>8. QED
  BY <1>6, <1>7

\* new: the layers are fetched one by one.
BlobsOf(S) == {Blob(d) : d \in S}

LayersLeft(r, i, t) == Right(r.s, r.j, t, BlobsOf(Rest(r.q, i)), {}, {}, {})

LayersFetched == INSTANCE FoldTheorems WITH Op <- BlobStep, Inv <- LayersLeft

WithTracker(s, j) == [s EXCEPT !.job[j] = EmptyTracker(j)]

LEMMA NewTrackerFold ==
  ASSUME NEW s, NEW j
  PROVE  NewTracker(s, j)
           = LayersFetched!Fold(j, 0, WithTracker(s, j), SetToSeq(ToSet(Layers[j])))
<1> DEFINE q == SetToSeq(ToSet(Layers[j]))
           h == WithTracker(s, j)
<1> HIDE DEF q, h
<1>1. LayersFetched!Fold(j, 0, h, q) = FoldLeft(LAMBDA g, d : FetchBlob(g, j, d), h, q)
  BY DEF LayersFetched!Fold, BlobStep, FoldLeft, MapThenFoldSet, Max,
         LayersFetched!Greatest
<1>2. QED
  BY <1>1, Zenon DEF NewTracker, WithTracker, q, h

\* A state in which nothing is under way for the job j.
Sound(s) ==
  /\ DOMAIN s = StateFields /\ CacheTyped(s.cache) /\ DOMAIN s.job = Job
  /\ ReadsOnce(s.digests) /\ TasksRight(s)

Fresh(s, j) == ListedIn(s, j) = {} /\ ReadFor(s.digests, j) = {}

LEMMA RightWithTracker ==
  ASSUME NEW s, NEW j \in Job, Sound(s), Fresh(s, j)
  PROVE  Right(s, j, WithTracker(s, j), BlobsOf(ToSet(Layers[j])), {}, {}, {})
<1> DEFINE h == WithTracker(s, j)
           x == EmptyTracker(j)
<1>1. /\ DOMAIN h = StateFields /\ h.job = [s.job EXCEPT ![j] = x]
      /\ h.cache = s.cache /\ h.tasks = s.tasks /\ h.digests = s.digests
      /\ h = [s EXCEPT !.job[j] = x]
  BY DEF Sound, StateFields, WithTracker
<1>2. Awaits(x)
  BY DEF Awaits, EmptyTracker
<1> HIDE DEF x
<1>3. OnlyTracks(s, j, h)
  <2>1. DigestsTyped(s.digests)
    BY DEF Sound, ReadsOnce, DigestsTyped
  <2>2. QED
    BY <1>1, <1>2, <2>1 DEF OnlyTracks, ReadsStart, Sound, StateFields
<1>4. OnceIn(s, j)
  BY DEF Fresh, ListedIn, OnceIn, ToSet
<1> HIDE DEF h
<1>5. /\ \A i \in Job : ListedIn(h, i) = ListedIn(s, i) /\ (OnceIn(s, i) => OnceIn(h, i))
      /\ TasksRight(h)
  BY <1>1 DEF ListedIn, OnceIn, TasksRight, Sound
<1>6. Works(s, j, h)
  BY <1>1, <1>3, <1>4, <1>5 DEF Works, SameFor, Sound
<1>7. ListedIn(h, j) = {} /\ ReadFor(h.digests, j) = {} /\ h.job[j] = x
  BY <1>1, <1>5 DEF Fresh, Sound
<1>8. TrackerRight(j, x, {}, {}, BlobsOf(ToSet(Layers[j])), {}, {}, {})
  BY EmptyIsRight DEF x, BlobsOf
<1>9. QED
  BY <1>6, <1>7, <1>8 DEF Right, h

LEMMA RightNew ==
  ASSUME NEW s, NEW j \in Job, Sound(s), Fresh(s, j)
  PROVE  Right(s, j, NewTracker(s, j), {}, {}, {}, {})
<1> DEFINE S == ToSet(Layers[j])
           q == SetToSeq(S)
           r == [s |-> s, j |-> j, q |-> q]
           h == WithTracker(s, j)
           u == NewTracker(s, j)
<1>1. S \subseteq Digest /\ q \in Seq(S) /\ IsInjective(q) /\ ToSet(q) = S
  BY LayersTyped, SetToSeqOfFinite
<1>2. u = LayersFetched!Fold(j, 0, h, q)
  BY NewTrackerFold
<1>3. Right(s, j, h, BlobsOf(S), {}, {}, {})
  BY RightWithTracker
<1>4. r.s = s /\ r.j = j /\ r.q = q
  OBVIOUS
<1> HIDE DEF q, r, u, h, S
<1>5. LayersLeft(r, 0, h)
  <2>1. Rest(q, 0) = S
    BY <1>1, RestForms
  <2>2. QED
    BY <1>3, <1>4, <2>1 DEF LayersLeft
<1>6. ASSUME NEW a, NEW n \in 1 .. Len(q), q[n] \in S, LayersLeft(r, n - 1, a)
      PROVE  LayersLeft(r, n, BlobStep(j, 0, a, q[n]))
  <2> DEFINE T == Rest(q, n - 1)
             d == q[n]
             O == BlobsOf(T)
  <2>1. Right(s, j, a, O, {}, {}, {}) /\ d \in Digest
    BY <1>1, <1>4, <1>6 DEF LayersLeft
  <2>2. d \in T /\ Rest(q, n) = T \ {d}
    BY <1>1, RestForms
  <2> HIDE DEF T, d
  <2>3. Blob(d) \in O /\ BlobsOf(Rest(q, n)) = O \ {Blob(d)}
    BY <2>2, KeysDiffer DEF BlobsOf
  <2> HIDE DEF O
  <2>4. Right(s, j, FetchBlob(a, j, d), O \ {Blob(d)}, {}, {}, {})
    BY <2>1, <2>3, RightFetchBlob
  <2>5. QED
    BY <1>4, <2>3, <2>4 DEF LayersLeft, BlobStep, d
<1>7. LayersLeft(r, Len(q), u)
  BY <1>1, <1>2, <1>5, <1>6, LeastOf, LayersFetched!FoldKeeps
<1>8. BlobsOf(Rest(q, Len(q))) = {}
  <2>1. Rest(q, Len(q)) = {}
    BY <1>1, RestForms
  <2>2. QED
    BY <2>1 DEF BlobsOf
<1>9. QED
  BY <1>4, <1>7, <1>8 DEF LayersLeft, u

\* The tracker is told of a key it waits for.
LEMMA RightTold ==
  ASSUME NEW s, NEW j \in Job, NEW t, NEW k \in Key, Right(s, j, t, {k}, {}, {}, {})
  PROVE  Right(s, j, Told(t, j, k), {}, {}, {}, {})
<1> DEFINE O == {k}
<1>1. k \in O /\ O \ {k} = {} /\ Right(s, j, t, O, {}, {}, {})
  OBVIOUS
<1> HIDE DEF O
<1>2. CASE k[1] = "blob" /\ k = Blob(k[2]) /\ k[2] \in Digest
  <2> DEFINE d == k[2]
  <2>1. k = Blob(d) /\ d \in Digest /\ Told(t, j, k) = GotArtifact(t, j, d)
    BY <1>2 DEF Told
  <2> HIDE DEF d
  <2>2. Right(s, j, GotArtifact(t, j, d), O \ {Blob(d)}, {}, {}, {})
    BY <1>1, <2>1, RightGotArtifact
  <2>3. QED
    BY <1>1, <2>1, <2>2
<1>3. CASE k[1] = "bottom" /\ k = Bottom(k[2]) /\ k[2] \in Digest
  <2> DEFINE d == k[2]
  <2>1. k = Bottom(d) /\ d \in Digest /\ Told(t, j, k) = GotBottomFsLayer(t, j, d)
    BY <1>3 DEF Told
  <2> HIDE DEF d
  <2>2. Right(s, j, GotBottomFsLayer(t, j, d), O \ {Bottom(d)}, {}, {}, {})
    BY <1>1, <2>1, RightGotBottom
  <2>3. QED
    BY <1>1, <2>1, <2>2
<1>4. CASE k[1] = "upper"
  <2>1. Right(s, j, GotUpperFsLayer(t, j, k), {}, {}, {}, {})
    BY <1>4, RightGotUpper
  <2>2. QED
    BY <1>4, <2>1 DEF Told
<1>5. QED
  BY <1>2, <1>3, <1>4, KeyForms

-----------------------------------------------------------------------------
\* What every job must be.

Runs(j, x) ==
  \/ x \in [st : {"available"}, keys : {Needed(j)}]
  \/ x \in [st : {"executing"}, keys : {Needed(j)}, mode : {"nominal", "canceled", "timedOut"}]

\* O is what the job is about to be told of.
JobRight(s, j, O) ==
  /\ OnceIn(s, j)
  /\ \/ s.job[j] = NoJob
     \/ Runs(j, s.job[j])
     \/ /\ TrackerRight(j, s.job[j], ListedIn(s, j), ReadFor(s.digests, j), O, {}, {}, {})
        /\ ~IsComplete(s.job[j], j)

Whole(s) ==
  /\ Sound(s)
  /\ s.timers \subseteq Timeout
  /\ s.status \in [Job -> {"none", "layers", "waiting", "executing"}]

\* Only the jobs of Y are about to be told, and of k; those of F are to come.
Due(i, Y, k) == IF i \in Y THEN {k} ELSE {}

AllRight(s, k, Y, F) ==
  /\ Whole(s)
  /\ \A i \in Job : JobRight(s, i, Due(i, Y, k))
  /\ F \subseteq Job \ Y /\ \A i \in F : s.job[i] = NoJob /\ Fresh(s, i)

LEMMA RunsForms ==
  ASSUME NEW j
  PROVE  /\ Runs(j, Available(Needed(j)))
         /\ Runs(j, Executing("nominal", Needed(j)))
         /\ \A x : Runs(j, x) => /\ x.st \in {"available", "executing"} /\ x.keys = Needed(j)
                                 /\ x # NoJob /\ Runs(j, Executing("canceled", x.keys))
                                 /\ x.st = "executing" => \A m \in {"canceled", "timedOut"} :
                                                            Runs(j, [x EXCEPT !.mode = m])
<1>1. /\ Runs(j, Available(Needed(j))) /\ Runs(j, Executing("nominal", Needed(j)))
      /\ Runs(j, Executing("canceled", Needed(j)))
  BY DEF Runs, Available, Executing
<1>2. ASSUME NEW x, Runs(j, x)
      PROVE  x.st \in {"available", "executing"} /\ x.keys = Needed(j) /\ x # NoJob
  BY <1>2 DEF Runs, NoJob
<1>3. ASSUME NEW x, Runs(j, x), x.st = "executing", NEW m \in {"canceled", "timedOut"}
      PROVE  Runs(j, [x EXCEPT !.mode = m])
  BY <1>3 DEF Runs
<1>4. QED
  BY <1>1, <1>2, <1>3

\* From s to t the job i goes on as it was, or from running to running.
Keeps(s, t, i) ==
  /\ SameFor(s, t, i)
  /\ t.job[i] = s.job[i] \/ (Runs(i, s.job[i]) /\ Runs(i, t.job[i]))

LEMMA KeepsRight ==
  ASSUME NEW s, NEW t, NEW i \in Job, NEW O, Keeps(s, t, i), JobRight(s, i, O)
  PROVE  JobRight(t, i, O)
BY DEF Keeps, JobRight, SameFor

LEMMA KeepsFresh ==
  ASSUME NEW s, NEW t, NEW i \in Job, Keeps(s, t, i), s.job[i] = NoJob, Fresh(s, i)
  PROVE  t.job[i] = NoJob /\ Fresh(t, i)
BY RunsForms DEF Keeps, Fresh, SameFor

LEMMA KeepsTrans ==
  ASSUME NEW s, NEW t, NEW u, NEW i \in Job, Keeps(s, t, i), Keeps(t, u, i)
  PROVE  Keeps(s, u, i)
BY DEF Keeps, SameFor

\* If the cache waits for the same and the reads are the same, so are the jobs.
LEMMA SameWaitsSame ==
  ASSUME NEW s, NEW t, SameWaits(s.cache, t.cache), t.digests = s.digests, NEW i \in Job
  PROVE  SameFor(s, t, i)
<1>1. ListedIn(t, i) = ListedIn(s, i)
  BY DEF SameWaits, ListedIn
<1>2. OnceIn(s, i) => OnceIn(t, i)
  BY DEF SameWaits, OnceIn
<1>3. QED
  BY <1>1, <1>2 DEF SameFor

\* All but the job j goes on as it was.
Leaves(s, t, j) == Whole(t) /\ \A i \in Job \ {j} : Keeps(s, t, i)

LEMMA LeavesRight ==
  ASSUME NEW s, NEW j \in Job, NEW t, NEW k, NEW Y, NEW Z, NEW F, AllRight(s, k, Y, F), Leaves(s, t, j),
         Z = Y \ {j}, JobRight(t, j, {})
  PROVE  AllRight(t, k, Z, F \ {j})
<1>1. ASSUME NEW i \in Job
      PROVE  JobRight(t, i, Due(i, Z, k))
  <2>1. CASE i = j
    BY <2>1 DEF Due
  <2>2. CASE i # j
    <3>1. Keeps(s, t, i) /\ Due(i, Z, k) = Due(i, Y, k) /\ JobRight(s, i, Due(i, Y, k))
      BY <2>2 DEF Leaves, AllRight, Due
    <3>2. QED
      BY <3>1, KeepsRight
  <2>3. QED
    BY <2>1, <2>2
<1>2. ASSUME NEW i \in F \ {j}
      PROVE  t.job[i] = NoJob /\ Fresh(t, i)
  <2>1. i \in Job /\ Keeps(s, t, i) /\ s.job[i] = NoJob /\ Fresh(s, i)
    BY DEF AllRight, Leaves
  <2>2. QED
    BY <2>1, KeepsFresh
<1>3. QED
  BY <1>1, <1>2 DEF AllRight, Leaves

\* What is sent and which timers run does not matter to the jobs.
LEMMA StatusLeaves ==
  ASSUME NEW s, NEW j, NEW st \in {"none", "layers", "waiting", "executing"}, Whole(s)
  PROVE  LET t == SendStatus(s, j, st) IN
         Whole(t) /\ t.job = s.job /\ \A i \in Job : SameFor(s, t, i)
<1> DEFINE t == [s EXCEPT !.status[j] = st]
<1>1. /\ DOMAIN t = StateFields /\ t.cache = s.cache /\ t.job = s.job /\ t.tasks = s.tasks
      /\ t.digests = s.digests /\ t.timers = s.timers
      /\ t.status = [s.status EXCEPT ![j] = st]
  BY DEF Whole, Sound, StateFields
<1> HIDE DEF t
<1>2. Whole(t)
  BY <1>1 DEF Whole, Sound, TasksRight
<1>3. \A i \in Job : SameFor(s, t, i) /\ SameFor(s, s, i)
  BY <1>1 DEF SameFor, ListedIn, OnceIn
<1>4. QED
  BY <1>1, <1>2, <1>3 DEF SendStatus, t

\* possibly_start_job
LEMMA StartLeaves ==
  ASSUME NEW s, NEW j \in Job, Whole(s), s.job[j].st = "available", Runs(j, s.job[j])
  PROVE  LET t == Start(s, j) IN Whole(t) /\ \A i \in Job : Keeps(s, t, i)
<1> DEFINE e == Executing("nominal", s.job[j].keys)
           h == [s EXCEPT !.job[j] = e, !.timers = IF j \in Timeout THEN @ \cup {j} ELSE @]
           t == SendStatus(h, j, "executing")
<1>1. /\ DOMAIN h = StateFields /\ h.cache = s.cache /\ h.digests = s.digests /\ h.tasks = s.tasks
      /\ h.timers = (IF j \in Timeout THEN s.timers \cup {j} ELSE s.timers) /\ h.status = s.status
      /\ h.job = [s.job EXCEPT ![j] = e]
  BY DEF Whole, Sound, StateFields
<1>2. Runs(j, e)
  BY RunsForms
<1>3. Start(s, j) = t
  BY DEF Start
<1> HIDE DEF h, e
<1>4. Whole(h)
  BY <1>1 DEF Whole, Sound, TasksRight
<1>5. \A i \in Job : Keeps(s, h, i)
  <2>1. \A i \in Job : SameFor(s, h, i)
    BY <1>1 DEF SameFor, ListedIn, OnceIn
  <2>2. QED
    BY <1>1, <1>2, <2>1 DEF Keeps, Whole, Sound
<1>6. Whole(t) /\ t.job = h.job /\ \A i \in Job : SameFor(h, t, i)
  BY <1>4, StatusLeaves
<1> HIDE DEF t
<1>7. QED
  BY <1>3, <1>5, <1>6 DEF Keeps, SameFor

\* make_job_available, for a job that has all that it needs
LEMMA MakeAvailableLeaves ==
  ASSUME NEW s, NEW j \in Job, Whole(s), s.job[j].keys = Needed(j),
         \A i \in Job \ {j} : s.job[i].st = "available" => Runs(i, s.job[i])
  PROVE  LET t == MakeAvailable(s, j) IN
         Leaves(s, t, j) /\ SameFor(s, t, j) /\ Runs(j, t.job[j])
<1> DEFINE a == Available(s.job[j].keys)
           h == [s EXCEPT !.job[j] = a]
           b == CHOOSE x \in Best(h) : TRUE
           t == MakeAvailable(s, j)
<1>1. /\ DOMAIN h = StateFields /\ h.cache = s.cache /\ h.digests = s.digests /\ h.tasks = s.tasks
      /\ h.timers = s.timers /\ h.status = s.status /\ h.job = [s.job EXCEPT ![j] = a]
  BY DEF Whole, Sound, StateFields
<1>2. Runs(j, a)
  BY RunsForms
<1>3. t = IF CanStart(h) THEN Start(h, b) ELSE SendStatus(h, j, "waiting")
  BY DEF MakeAvailable
<1> HIDE DEF h, a, t
<1>4. Whole(h)
  BY <1>1 DEF Whole, Sound, TasksRight
<1>5. /\ \A i \in Job : SameFor(s, h, i)
      /\ h.job[j] = a /\ \A i \in Job \ {j} : h.job[i] = s.job[i]
  <2>1. \A i \in Job : SameFor(s, h, i)
    BY <1>1 DEF SameFor, ListedIn, OnceIn
  <2>2. QED
    BY <1>1, <2>1 DEF Whole, Sound
<1>6. Whole(t) /\ \A i \in Job : Keeps(h, t, i)
  <2>1. CASE CanStart(h)
    <3>1. b \in Best(h)
      BY <2>1 DEF CanStart
    <3> HIDE DEF b
    <3>2. b \in Job /\ h.job[b].st = "available"
      BY <3>1 DEF Best, InState
    <3>3. Runs(b, h.job[b])
      BY <1>2, <1>5, <3>2
    <3>4. QED
      BY <1>3, <1>4, <2>1, <3>2, <3>3, StartLeaves
  <2>2. CASE ~CanStart(h)
    BY <1>3, <1>4, <2>2, StatusLeaves DEF Keeps
  <2>3. QED
    BY <2>1, <2>2
<1>7. \A i \in Job \ {j} : Keeps(s, t, i)
  BY <1>5, <1>6 DEF Keeps, SameFor
<1>8. SameFor(s, t, j) /\ Runs(j, t.job[j])
  BY <1>2, <1>5, <1>6 DEF Keeps, SameFor
<1>9. QED
  BY <1>6, <1>7, <1>8 DEF Leaves, t

\* Only the cache changes, and what is being got stays.
LEMMA CacheLeaves ==
  ASSUME NEW s, NEW t, Whole(s), OnlyCache(s, t)
  PROVE  Whole(t) /\ t.job = s.job /\ \A i \in Job : SameFor(s, t, i)
<1>1. \A i \in Job : SameFor(s, t, i)
  BY SameWaitsSame DEF OnlyCache
<1>2. TasksRight(t)
  BY DEF OnlyCache, SameWaits, TasksRight, Whole, Sound
<1>3. QED
  BY <1>1, <1>2 DEF OnlyCache, Whole, Sound

LEMMA WorksStarts ==
  ASSUME NEW s, NEW j \in Job, Whole(s), NEW O, NEW E, NEW T, OnceIn(s, j),
         TrackerRight(j, s.job[j], ListedIn(s, j), ReadFor(s.digests, j), O, {}, E, T)
  PROVE  Right(s, j, s, O, {}, E, T)
<1>1. Awaits(s.job[j])
  BY DEF TrackerRight, TrackerTyped, Awaits
<1>2. DigestsTyped(s.digests)
  BY DEF Whole, Sound, ReadsOnce, DigestsTyped
<1>3. OnlyTracks(s, j, s)
  BY <1>1, <1>2 DEF OnlyTracks, ReadsStart, Whole, Sound
<1>4. Works(s, j, s)
  BY <1>3 DEF Works, SameFor, Whole, Sound
<1>5. QED
  BY <1>4 DEF Right

LEMMA WorksLeaves ==
  ASSUME NEW s, NEW j \in Job, NEW t, Whole(s), Works(s, j, t)
  PROVE  Leaves(s, t, j)
<1>1. Whole(t)
  BY DEF Works, OnlyTracks, Whole, Sound
<1>2. QED
  BY <1>1 DEF Works, OnlyTracks, Leaves, Keeps

\* A job that does not await its layers has none left to be told of.
Settled(s, j) == OnceIn(s, j) /\ (s.job[j] = NoJob \/ Runs(j, s.job[j]))

LEMMA SettledIsRight ==
  ASSUME NEW s, NEW j \in Job, NEW O, JobRight(s, j, O)
  PROVE  /\ s.job[j].st # "awaiting" => Settled(s, j)
         /\ s.job[j].st = "awaiting" =>
              /\ TrackerRight(j, s.job[j], ListedIn(s, j), ReadFor(s.digests, j), O, {}, {}, {})
              /\ OnceIn(s, j)
         /\ s.job[j].st \in {"available", "executing"} => Runs(j, s.job[j])
         /\ Settled(s, j) => \A P : JobRight(s, j, P)
<1>1. NoJob.st = "none"
  BY DEF NoJob
<1>2. Runs(j, s.job[j]) => s.job[j].st # "awaiting"
  BY RunsForms
<1>3. \A L, R : TrackerRight(j, s.job[j], L, R, O, {}, {}, {}) => s.job[j].st = "awaiting"
  BY DEF TrackerRight, TrackerTyped
<1>4. QED
  BY <1>1, <1>2, <1>3 DEF JobRight, Settled

\* advance_job, whatever the tracker was told
LEMMA AdvanceLeaves ==
  ASSUME NEW s, NEW j \in Job, NEW k \in Key, NEW told, Whole(s),
         s.job[j].st = "awaiting" => Right(s, j, told, {}, {}, {}, {}),
         s.job[j].st # "awaiting" => Settled(s, j),
         \A i \in Job \ {j} : s.job[i].st = "available" => Runs(i, s.job[i])
  PROVE  LET t == AdvanceJob(s, j, k, told) IN Leaves(s, t, j) /\ JobRight(t, j, {})
<1> DEFINE t == AdvanceJob(s, j, k, told)
<1>1. CASE s.job[j].st # "awaiting"
  <2>1. t = [s EXCEPT !.cache = Cache!Decremented(@, k)]
    BY <1>1 DEF AdvanceJob
  <2>2. OnlyCache(s, t)
    <3>1. CacheTyped(s.cache) /\ DOMAIN s = StateFields
      BY DEF Whole, Sound
    <3>2. /\ CacheTyped(Cache!Decremented(s.cache, k))
          /\ SameWaits(s.cache, Cache!Decremented(s.cache, k))
      BY <3>1, DecrementedTyped
    <3>3. QED
      BY <2>1, <3>1, <3>2 DEF OnlyCache, StateFields
  <2> HIDE DEF t
  <2>3. Whole(t) /\ t.job = s.job /\ \A i \in Job : SameFor(s, t, i)
    BY <2>2, CacheLeaves
  <2>4. JobRight(t, j, {})
    BY <1>1, <2>3 DEF Settled, JobRight, SameFor
  <2>5. QED
    BY <2>3, <2>4 DEF Leaves, Keeps, t
<1>2. CASE s.job[j].st = "awaiting"
  <2> DEFINE x == told.job[j]
  <2>1. t = IF IsComplete(x, j) THEN MakeAvailable(told, j) ELSE told
    BY <1>2 DEF AdvanceJob
  <2> HIDE DEF t
  <2>2. /\ Works(s, j, told) /\ OnceIn(told, j)
        /\ TrackerRight(j, x, ListedIn(told, j), ReadFor(told.digests, j), {}, {}, {}, {})
    BY <1>2 DEF Right, Works
  <2>3. Leaves(s, told, j)
    BY <2>2, WorksLeaves
  <2>4. CASE ~IsComplete(x, j)
    BY <2>1, <2>2, <2>3, <2>4 DEF JobRight, t
  <2>5. CASE IsComplete(x, j)
    <3>1. x.keys = Needed(j)
      BY <2>2, <2>5, CompleteHasAll
    <3>2. \A i \in Job \ {j} : told.job[i].st = "available" => Runs(i, told.job[i])
      BY <2>2 DEF Works, OnlyTracks
    <3>3. Leaves(told, t, j) /\ SameFor(told, t, j) /\ Runs(j, t.job[j])
      BY <2>1, <2>3, <2>5, <3>1, <3>2, MakeAvailableLeaves DEF Leaves
    <3>4. Leaves(s, t, j)
      BY <2>3, <3>3, KeepsTrans DEF Leaves
    <3>5. JobRight(t, j, {})
      BY <2>2, <3>3 DEF JobRight, SameFor
    <3>6. QED
      BY <3>4, <3>5 DEF t
  <2>6. QED
    BY <2>4, <2>5
<1>3. QED
  BY <1>1, <1>2

\* The jobs that waited for k are told of it, one by one.
LEMMA OneAdvances ==
  ASSUME NEW s, NEW k \in Key, NEW Y, NEW F, AllRight(s, k, Y, F), NEW j \in Y, j \in Job
  PROVE  AllRight(AdvanceJob(s, j, k, Told(s, j, k)), k, Y \ {j}, F)
<1> DEFINE told == Told(s, j, k)
           t == AdvanceJob(s, j, k, told)
           Z == Y \ {j}
<1>1. Whole(s) /\ JobRight(s, j, {k}) /\ \A i \in Job : JobRight(s, i, Due(i, Y, k))
  <2>1. Due(j, Y, k) = {k}
    BY DEF Due
  <2>2. QED
    BY <2>1 DEF AllRight
<1>2. s.job[j].st = "awaiting" => Right(s, j, told, {}, {}, {}, {})
  <2>1. ASSUME s.job[j].st = "awaiting"
        PROVE  Right(s, j, told, {}, {}, {}, {})
    <3>1. /\ TrackerRight(j, s.job[j], ListedIn(s, j), ReadFor(s.digests, j), {k}, {}, {}, {})
          /\ OnceIn(s, j)
      BY <1>1, <2>1, SettledIsRight
    <3>2. Right(s, j, s, {k}, {}, {}, {})
      BY <1>1, <3>1, WorksStarts
    <3>3. QED
      BY <3>2, RightTold
  <2>2. QED
    BY <2>1
<1>3. s.job[j].st # "awaiting" => Settled(s, j)
  BY <1>1, SettledIsRight
<1>4. \A i \in Job \ {j} : s.job[i].st = "available" => Runs(i, s.job[i])
  BY <1>1, SettledIsRight
<1> HIDE DEF told
<1>5. Leaves(s, t, j) /\ JobRight(t, j, {})
  BY <1>1, <1>2, <1>3, <1>4, AdvanceLeaves
<1> HIDE DEF t
<1>6. AllRight(t, k, Z, F \ {j})
  BY <1>5, LeavesRight
<1>7. F \ {j} = F
  BY DEF AllRight
<1>8. QED
  BY <1>6, <1>7 DEF t, told

LEMMA OneFails ==
  ASSUME NEW s, NEW j \in Job, NEW ord \in KeyOrders, Whole(s), OnceIn(s, j),
         s.job[j].st # "awaiting" => Settled(s, j)
  PROVE  LET t == JobFailure(s, j, ord) IN Leaves(s, t, j) /\ JobRight(t, j, {})
<1> DEFINE r == Respond(s, j, "error")
           h == [r EXCEPT !.job[j] = NoJob]
           t == Release(h, s.job[j].keys, ord)
           u == JobFailure(s, j, ord)
<1>1. CASE s.job[j].st # "awaiting"
  <2>1. u = s
    BY <1>1 DEF JobFailure
  <2>2. Leaves(s, s, j)
    BY DEF Leaves, Keeps, SameFor
  <2>3. JobRight(s, j, {})
    BY <1>1 DEF Settled, JobRight
  <2>4. QED
    BY <2>1, <2>2, <2>3
<1>2. CASE s.job[j].st = "awaiting"
  <2>1. u = t
    BY <1>2 DEF JobFailure
  <2>2. /\ DOMAIN h = StateFields /\ h.cache = s.cache /\ h.tasks = s.tasks
        /\ h.digests = s.digests /\ h.timers = s.timers /\ h.status = s.status
        /\ h.job = [s.job EXCEPT ![j] = NoJob]
    BY DEF Respond, Whole, Sound, StateFields
  <2> HIDE DEF h, u
  <2>3. OnlyCache(h, t)
    BY <2>2, ReleaseOnlyCache DEF Whole, Sound
  <2> HIDE DEF t
  <2>4. Whole(h)
    BY <2>2 DEF Whole, Sound, TasksRight
  <2>5. Whole(t) /\ t.job = h.job /\ \A i \in Job : SameFor(h, t, i)
    BY <2>3, <2>4, CacheLeaves
  <2>6. \A i \in Job : SameFor(s, h, i)
    BY <2>2 DEF SameFor, ListedIn, OnceIn
  <2>7. t.job[j] = NoJob /\ \A i \in Job \ {j} : t.job[i] = s.job[i]
    BY <2>2, <2>5 DEF Whole, Sound
  <2>8. QED
    BY <2>1, <2>5, <2>6, <2>7 DEF Leaves, Keeps, JobRight, SameFor, u
<1>3. QED
  BY <1>1, <1>2

LEMMA OneIsFailed ==
  ASSUME NEW s, NEW k, NEW Y, NEW F, AllRight(s, k, Y, F), NEW j \in Y, j \in Job, NEW ord \in KeyOrders
  PROVE  AllRight(JobFailure(s, j, ord), k, Y \ {j}, F)
<1> DEFINE t == JobFailure(s, j, ord)
           Z == Y \ {j}
<1>1. Whole(s) /\ JobRight(s, j, Due(j, Y, k))
  BY DEF AllRight
<1>2. OnceIn(s, j) /\ (s.job[j].st # "awaiting" => Settled(s, j))
  BY <1>1, SettledIsRight DEF JobRight
<1>3. Leaves(s, t, j) /\ JobRight(t, j, {})
  BY <1>1, <1>2, OneFails
<1> HIDE DEF t
<1>4. AllRight(t, k, Z, F \ {j})
  BY <1>3, LeavesRight
<1>5. F \ {j} = F
  BY DEF AllRight
<1>6. QED
  BY <1>4, <1>5 DEF t

\* The jobs that are told are those for which k was being got.
ToTell(s, k) == IF s.cache.entry[k].st = "getting" THEN s.cache.entry[k].jobs ELSE <<>>

\* c is the cache of s once k is no longer being got.
Ends(s, k, c) ==
  /\ CacheTyped(c) /\ c.entry[k].st # "getting"
  /\ \A x \in Key \ {k} :
       s.cache.entry[x].st = "getting" \/ c.entry[x].st = "getting" => c.entry[x] = s.cache.entry[x]

LEMMA ToTellForms ==
  ASSUME NEW s, NEW k \in Key, NEW F, AllRight(s, 0, {}, F)
  PROVE  /\ ToTell(s, k) \in Seq(Job) /\ IsInjective(ToTell(s, k))
         /\ \A i \in Job : i \in ToSet(ToTell(s, k)) <=> k \in ListedIn(s, i)
<1> DEFINE q == ToTell(s, k)
           e == s.cache.entry[k]
<1>1. CacheTyped(s.cache) /\ \A i \in Job : OnceIn(s, i)
  BY DEF AllRight, Whole, Sound, JobRight
<1>2. CASE e.st # "getting"
  <2>1. q = <<>>
    BY <1>2 DEF ToTell
  <2>2. q \in Seq(Job) /\ IsInjective(q) /\ ToSet(q) = {}
    BY <2>1 DEF IsInjective, ToSet
  <2>3. QED
    BY <1>2, <2>2 DEF ListedIn
<1>3. CASE e.st = "getting"
  <2>1. q = e.jobs
    BY <1>3 DEF ToTell
  <2>2. q \in Seq(Job)
    BY <1>1, <1>3, <2>1 DEF CacheTyped, CacheEntry, Cache!Absent, Cache!InHeap
  <2> HIDE DEF q
  <2>3. IsInjective(q)
    <3>1. ASSUME NEW a \in DOMAIN q, NEW b \in DOMAIN q, q[a] = q[b]
          PROVE  a = b
      <4>1. q[a] \in Job
        BY <2>2, <3>1
      <4>2. QED
        BY <1>1, <1>3, <2>1, <3>1, <4>1 DEF OnceIn
    <3>2. QED
      BY <3>1 DEF IsInjective
  <2>4. QED
    BY <1>3, <2>1, <2>2, <2>3 DEF ListedIn, q
<1>4. QED
  BY <1>2, <1>3

EndOf(s, k, c) == [s EXCEPT !.cache = c, !.tasks = @ \ {k}]

LEMMA AllToBeTold ==
  ASSUME NEW s, NEW k \in Key, NEW F, AllRight(s, 0, {}, F), NEW c, Ends(s, k, c)
  PROVE  AllRight(EndOf(s, k, c), k, ToSet(ToTell(s, k)), F)
<1> DEFINE t == EndOf(s, k, c)
           q == ToTell(s, k)
           Y == ToSet(q)
<1>1. /\ Whole(s) /\ \A i \in Job : JobRight(s, i, {})
      /\ F \subseteq Job /\ \A i \in F : s.job[i] = NoJob /\ Fresh(s, i)
  BY DEF AllRight, Due
<1>2. /\ DOMAIN t = StateFields /\ t.cache = c /\ t.job = s.job /\ t.tasks = s.tasks \ {k}
      /\ t.digests = s.digests /\ t.timers = s.timers /\ t.status = s.status
  BY <1>1 DEF EndOf, Whole, Sound, StateFields
<1>3. \A i \in Job : i \in Y <=> k \in ListedIn(s, i)
  BY ToTellForms
<1> HIDE DEF t, q, Y
<1>4. Whole(t)
  <2>1. TasksRight(t)
    BY <1>1, <1>2 DEF Ends, TasksRight, Whole, Sound
  <2>2. QED
    BY <1>1, <1>2, <2>1 DEF Whole, Sound, Ends
<1>5. ASSUME NEW i \in Job
      PROVE  /\ ListedIn(t, i) = ListedIn(s, i) \ {k} /\ (OnceIn(s, i) => OnceIn(t, i))
             /\ ReadFor(t.digests, i) = ReadFor(s.digests, i)
  BY <1>2 DEF Ends, ListedIn, OnceIn
<1>6. ASSUME NEW i \in Job
      PROVE  JobRight(t, i, Due(i, Y, k))
  <2> DEFINE x == s.job[i]
             L == ListedIn(s, i)
             R == ReadFor(s.digests, i)
  <2>1. /\ t.job[i] = x /\ ListedIn(t, i) = L \ {k} /\ ReadFor(t.digests, i) = R /\ OnceIn(t, i)
    BY <1>1, <1>2, <1>5 DEF JobRight
  <2>2. CASE Settled(s, i)
    BY <2>1, <2>2 DEF Settled, JobRight
  <2>3. CASE ~Settled(s, i)
    <3>1. TrackerRight(i, x, L, R, {}, {}, {}, {}) /\ ~IsComplete(x, i)
      BY <1>1, <2>3 DEF JobRight, Settled
    <3> HIDE DEF x, L, R
    <3>2. Due(i, Y, k) = IF k \in L THEN {k} ELSE {}
      BY <1>3 DEF Due, L
    <3>3. TrackerRight(i, x, L \ {k}, R, Due(i, Y, k), {}, {}, {})
      BY <3>1, <3>2 DEF TrackerRight, Listens
    <3>4. QED
      BY <2>1, <3>1, <3>3 DEF JobRight
  <2>4. QED
    BY <2>2, <2>3
<1>7. ASSUME NEW i \in F
      PROVE  i \in Job \ Y /\ t.job[i] = NoJob /\ Fresh(t, i)
  BY <1>1, <1>2, <1>3, <1>5 DEF Fresh
<1>8. QED
  BY <1>4, <1>6, <1>7 DEF AllRight, t, q, Y

\* cache_fill_success
AllAdvance(s, k, q) == FoldLeft(LAMBDA h, j : AdvanceJob(h, j, k, Told(h, j, k)), s, q)

ToAdvance(r, i, t) == AllRight(t, r.k, Rest(r.q, i), r.f)
AllAdvancing == INSTANCE FoldTheorems WITH Op <- AdvanceStep, Inv <- ToAdvance

LEMMA AdvanceFold ==
  ASSUME NEW s, NEW k, NEW q
  PROVE  AllAdvance(s, k, q) = AllAdvancing!Fold(k, 0, s, q)
<1>1. AllAdvancing!Fold(k, 0, s, q)
        = FoldLeft(LAMBDA h, j : AdvanceJob(h, j, k, Told(h, j, k)), s, q)
  BY DEF AllAdvancing!Fold, AdvanceStep, FoldLeft, MapThenFoldSet, Max,
         AllAdvancing!Greatest
<1>2. QED
  BY <1>1, Zenon DEF AllAdvance

LEMMA AllAdvanceRight ==
  ASSUME NEW s, NEW k \in Key, NEW F, NEW q \in Seq(Job), IsInjective(q), AllRight(s, k, ToSet(q), F)
  PROVE  AllRight(AllAdvance(s, k, q), 0, {}, F)
<1> DEFINE r == [k |-> k, q |-> q, f |-> F]
           u == AllAdvance(s, k, q)
<1>1. u = AllAdvancing!Fold(k, 0, s, q)
  BY AdvanceFold
<1>2. r.k = k /\ r.q = q /\ r.f = F
  OBVIOUS
<1> HIDE DEF r, u
<1>3. ToAdvance(r, 0, s)
  BY <1>2, RestForms DEF ToAdvance
<1>4. ASSUME NEW a, NEW n \in 1 .. Len(q), q[n] \in Job, ToAdvance(r, n - 1, a)
      PROVE  ToAdvance(r, n, AdvanceStep(k, 0, a, q[n]))
  <2> DEFINE Y == Rest(q, n - 1)
             j == q[n]
  <2>1. AllRight(a, k, Y, F) /\ j \in Job
    BY <1>2, <1>4 DEF ToAdvance
  <2>2. j \in Y /\ Rest(q, n) = Y \ {j}
    BY RestForms
  <2> HIDE DEF Y, j
  <2>3. AllRight(AdvanceJob(a, j, k, Told(a, j, k)), k, Y \ {j}, F)
    BY <2>1, <2>2, OneAdvances
  <2>4. QED
    BY <1>2, <2>2, <2>3 DEF ToAdvance, AdvanceStep, j
<1>5. ToAdvance(r, Len(q), u)
  BY <1>1, <1>3, <1>4, LeastOf, AllAdvancing!FoldKeeps
<1>6. AllRight(u, k, {}, F)
  <2>1. Rest(q, Len(q)) = {}
    BY RestForms
  <2>2. QED
    BY <1>2, <1>5, <2>1 DEF ToAdvance
<1>7. QED
  BY <1>6 DEF AllRight, Due, u

\* cache_fill_failure
AllAreFailed(s, ord, q) == FoldLeft(LAMBDA h, j : JobFailure(h, j, ord), s, q)

ToFail(r, i, t) == AllRight(t, r.k, Rest(r.q, i), r.f)
AllFailing == INSTANCE FoldTheorems WITH Op <- FailStep, Inv <- ToFail

LEMMA FailFold ==
  ASSUME NEW s, NEW ord, NEW q
  PROVE  AllAreFailed(s, ord, q) = AllFailing!Fold(ord, 0, s, q)
<1>1. AllFailing!Fold(ord, 0, s, q) = FoldLeft(LAMBDA h, j : JobFailure(h, j, ord), s, q)
  BY DEF AllFailing!Fold, FailStep, FoldLeft, MapThenFoldSet, Max,
         AllFailing!Greatest
<1>2. QED
  BY <1>1, Zenon DEF AllAreFailed

LEMMA AllFailedRight ==
  ASSUME NEW s, NEW k, NEW F, NEW q \in Seq(Job), IsInjective(q), AllRight(s, k, ToSet(q), F),
         NEW ord \in KeyOrders
  PROVE  AllRight(AllAreFailed(s, ord, q), 0, {}, F)
<1> DEFINE r == [k |-> k, q |-> q, f |-> F]
           u == AllAreFailed(s, ord, q)
<1>1. u = AllFailing!Fold(ord, 0, s, q)
  BY FailFold
<1>2. r.k = k /\ r.q = q /\ r.f = F
  OBVIOUS
<1> HIDE DEF r, u
<1>3. ToFail(r, 0, s)
  BY <1>2, RestForms DEF ToFail
<1>4. ASSUME NEW a, NEW n \in 1 .. Len(q), q[n] \in Job, ToFail(r, n - 1, a)
      PROVE  ToFail(r, n, FailStep(ord, 0, a, q[n]))
  <2> DEFINE Y == Rest(q, n - 1)
             j == q[n]
  <2>1. AllRight(a, k, Y, F) /\ j \in Job
    BY <1>2, <1>4 DEF ToFail
  <2>2. j \in Y /\ Rest(q, n) = Y \ {j}
    BY RestForms
  <2> HIDE DEF Y, j
  <2>3. AllRight(JobFailure(a, j, ord), k, Y \ {j}, F)
    BY <2>1, <2>2, OneIsFailed
  <2>4. QED
    BY <1>2, <2>2, <2>3 DEF ToFail, FailStep, j
<1>5. ToFail(r, Len(q), u)
  BY <1>1, <1>3, <1>4, LeastOf, AllFailing!FoldKeeps
<1>6. AllRight(u, k, {}, F)
  <2>1. Rest(q, Len(q)) = {}
    BY RestForms
  <2>2. QED
    BY <1>2, <1>5, <2>1 DEF ToFail
<1>7. QED
  BY <1>6 DEF AllRight, Due, u

-----------------------------------------------------------------------------
\* The reads of manifests.

\* g is d once j has been told of the end of the read of m.
EndsFor(d, m, j, g) ==
  /\ ReadsOnce(g) /\ m \in ReadFor(d, j) /\ ReadFor(g, j) = ReadFor(d, j) \ {m}
  /\ \A i \in Job \ {j} : ReadFor(g, i) = ReadFor(d, i)

\* The messages of a read.
Well(n, i) == <<n, i, TRUE>>
Badly(n, i) == <<n, i, FALSE>>

LEMMA MessagesDiffer ==
  /\ \A n, i, m, j : /\ Well(n, i) = Well(m, j) <=> n = m /\ i = j
                     /\ Badly(n, i) = Badly(m, j) <=> n = m /\ i = j
                     /\ Well(n, i) # Badly(m, j)
  /\ \A d, i : ReadFor(d, i) \subseteq Manifest
  /\ \A d, i : \A n \in Manifest :
       n \in ReadFor(d, i) <=> i \in d.pending[n] \/ Well(n, i) \in d.sent \/ Badly(n, i) \in d.sent
<1>1. \A n, i, m, j : /\ Well(n, i) = Well(m, j) <=> n = m /\ i = j
                      /\ Badly(n, i) = Badly(m, j) <=> n = m /\ i = j
                      /\ Well(n, i) # Badly(m, j)
  BY DEF Well, Badly
<1>2. \A d, i : ReadFor(d, i) \subseteq Manifest
  BY Zenon DEF ReadFor
<1>3. \A d, i : \A n \in Manifest :
        n \in ReadFor(d, i) <=> i \in d.pending[n] \/ Well(n, i) \in d.sent \/ Badly(n, i) \in d.sent
  BY Zenon DEF ReadFor, Well, Badly
<1>4. QED
  BY <1>1, <1>2, <1>3

LEMMA ReadsOnceForms ==
  ASSUME NEW d
  PROVE  ReadsOnce(d) <=>
         /\ DOMAIN d = {"pending", "cached", "sent"}
         /\ d.pending \in [Manifest -> SUBSET Job] /\ d.sent \subseteq Manifest \X Job \X BOOLEAN
         /\ d.cached \in Seq(Manifest) /\ IsInjective(d.cached)
         /\ \A n \in Manifest : \A i \in Job :
              /\ Well(n, i) \in d.sent => Badly(n, i) \notin d.sent
              /\ i \in d.pending[n] => Well(n, i) \notin d.sent /\ Badly(n, i) \notin d.sent
BY Zenon DEF ReadsOnce, Well, Badly

\* What is sent of every read of d.
LEMMA ReceivedReads ==
  ASSUME NEW d, ReadsOnce(d), NEW m \in Manifest, NEW j \in Job, NEW message \in d.sent,
         message = Well(m, j) \/ message = Badly(m, j)
  PROVE  EndsFor(d, m, j, Digests!Received(d, message))
<1> DEFINE g == Digests!Received(d, message)
           P == Manifest \X Job \X BOOLEAN
<1>1. /\ DOMAIN g = DOMAIN d /\ g.pending = d.pending /\ g.cached = d.cached
      /\ g.sent = d.sent \ {message}
  BY DEF Digests!Received, ReadsOnce
<1>2. d.sent \subseteq P
  BY DEF ReadsOnce
<1> HIDE DEF g, P
<1>3. /\ g.sent \subseteq d.sent /\ g.sent \subseteq P /\ message \notin g.sent
      /\ \A x \in d.sent : x # message => x \in g.sent
  BY <1>1, <1>2
<1>4. ReadsOnce(g)
  BY <1>1, <1>3, ReadsOnceForms DEF P
<1>5. m \in ReadFor(d, j)
  BY MessagesDiffer
<1>6. m \notin ReadFor(g, j)
  <2>1. /\ j \notin d.pending[m]
        /\ Well(m, j) \in d.sent => Badly(m, j) \notin d.sent
    BY ReadsOnceForms
  <2>2. QED
    BY <1>1, <1>3, <2>1, MessagesDiffer
<1>7. ASSUME NEW i \in Job, NEW n \in Manifest, ~(n = m /\ i = j)
      PROVE  n \in ReadFor(g, i) <=> n \in ReadFor(d, i)
  <2>1. Well(n, i) # message /\ Badly(n, i) # message
    BY <1>7, MessagesDiffer
  <2>2. QED
    BY <1>1, <1>3, <2>1, MessagesDiffer
<1>8. ReadFor(g, j) = ReadFor(d, j) \ {m}
  BY <1>5, <1>6, <1>7, MessagesDiffer
<1>9. ASSUME NEW i \in Job \ {j}
      PROVE  ReadFor(g, i) = ReadFor(d, i)
  <2>1. \A n \in Manifest : n \in ReadFor(g, i) <=> n \in ReadFor(d, i)
    BY <1>7
  <2>2. ReadFor(g, i) \subseteq Manifest /\ ReadFor(d, i) \subseteq Manifest
    BY Zenon, MessagesDiffer
  <2>3. QED
    BY <2>1, <2>2
<1>10. QED
  BY <1>4, <1>5, <1>8, <1>9 DEF EndsFor, g

\* The jobs that wait for m are told by messages of their own, well or badly.
LEMMA FilledReads ==
  ASSUME NEW d, ReadsOnce(d), NEW m \in Manifest, NEW ok \in BOOLEAN
  PROVE  LET g == Digests!FillCache(d, m, ok) IN
         ReadsOnce(g) /\ \A i \in Job : ReadFor(g, i) = ReadFor(d, i)
<1> DEFINE g == Digests!FillCache(d, m, ok)
           news == {<<m, i, ok>> : i \in d.pending[m]}
           q == Digests!Used(d.cached, m)
           P == Manifest \X Job \X BOOLEAN
<1>1. /\ DOMAIN g = DOMAIN d /\ g.pending = [d.pending EXCEPT ![m] = {}]
      /\ g.sent = d.sent \cup news
      /\ g.cached = IF ok THEN q ELSE d.cached
  BY DEF Digests!FillCache, ReadsOnce
<1>2. q \in Seq(Manifest) /\ IsInjective(q)
  BY UsedOnce DEF ReadsOnce
<1>3. d.pending[m] \subseteq Job
  BY DEF ReadsOnce
<1>4. \/ news = {Well(m, i) : i \in d.pending[m]}
      \/ news = {Badly(m, i) : i \in d.pending[m]}
  <2>1. CASE ok = TRUE
    BY <2>1, Zenon DEF Well
  <2>2. CASE ok = FALSE
    BY <2>2, Zenon DEF Badly
  <2>3. QED
    BY <2>1, <2>2
<1>5. news \subseteq P /\ d.sent \subseteq P
  BY <1>3 DEF ReadsOnce
<1> HIDE DEF g, news, q, P
<1>6. g.sent \subseteq P /\ \A x : x \in g.sent <=> x \in d.sent \/ x \in news
  BY <1>1, <1>5
<1>7. /\ g.pending \in [Manifest -> SUBSET Job]
      /\ \A n \in Manifest : g.pending[n] = IF n = m THEN {} ELSE d.pending[n]
  BY <1>1 DEF ReadsOnce
<1>8. ASSUME NEW n \in Manifest, NEW i \in Job
      PROVE  /\ Well(n, i) \in g.sent => Badly(n, i) \notin g.sent
             /\ i \in g.pending[n] => Well(n, i) \notin g.sent /\ Badly(n, i) \notin g.sent
             /\ n \in ReadFor(g, i) <=> n \in ReadFor(d, i)
  <2>1. /\ Well(n, i) \in d.sent => Badly(n, i) \notin d.sent
        /\ i \in d.pending[n] => Well(n, i) \notin d.sent /\ Badly(n, i) \notin d.sent
    BY ReadsOnceForms
  <2>2. /\ n \in ReadFor(g, i) <=> i \in g.pending[n] \/ Well(n, i) \in g.sent \/ Badly(n, i) \in g.sent
        /\ n \in ReadFor(d, i) <=> i \in d.pending[n] \/ Well(n, i) \in d.sent \/ Badly(n, i) \in d.sent
    BY MessagesDiffer
  <2>3. CASE news = {Well(m, x) : x \in d.pending[m]}
    <3>1. /\ Well(n, i) \in news <=> n = m /\ i \in d.pending[m]
          /\ Badly(n, i) \notin news
      BY <2>3, MessagesDiffer
    <3>2. QED
      BY <1>6, <1>7, <2>1, <2>2, <3>1
  <2>4. CASE news = {Badly(m, x) : x \in d.pending[m]}
    <3>1. /\ Badly(n, i) \in news <=> n = m /\ i \in d.pending[m]
          /\ Well(n, i) \notin news
      BY <2>4, MessagesDiffer
    <3>2. QED
      BY <1>6, <1>7, <2>1, <2>2, <3>1
  <2>5. QED
    BY <1>4, <2>3, <2>4
<1>9. ASSUME NEW i \in Job
      PROVE  ReadFor(g, i) = ReadFor(d, i)
  <2>1. \A n \in Manifest : n \in ReadFor(g, i) <=> n \in ReadFor(d, i)
    BY <1>8
  <2>2. ReadFor(g, i) \subseteq Manifest /\ ReadFor(d, i) \subseteq Manifest
    BY Zenon, MessagesDiffer
  <2>3. QED
    BY <2>1, <2>2
<1>10. g.cached \in Seq(Manifest) /\ IsInjective(g.cached)
  BY <1>1, <1>2 DEF ReadsOnce
<1>11. ReadsOnce(g)
  <2>1. DOMAIN g = {"pending", "cached", "sent"}
    BY <1>1 DEF ReadsOnce
  <2>2. QED
    BY <1>6, <1>7, <1>8, <1>10, <2>1, ReadsOnceForms DEF P
<1>12. QED
  BY <1>9, <1>11 DEF g

\* All jobs go on as they were.
LEMMA KeepsAllRight ==
  ASSUME NEW s, NEW t, NEW k, NEW Y, NEW F, AllRight(s, k, Y, F), Whole(t),
         \A i \in Job : Keeps(s, t, i)
  PROVE  AllRight(t, k, Y, F)
<1>1. ASSUME NEW i \in Job
      PROVE  JobRight(t, i, Due(i, Y, k))
  <2>1. Keeps(s, t, i) /\ JobRight(s, i, Due(i, Y, k))
    BY DEF AllRight
  <2>2. QED
    BY <2>1, KeepsRight
<1>2. ASSUME NEW i \in F
      PROVE  t.job[i] = NoJob /\ Fresh(t, i)
  <2>1. i \in Job /\ Keeps(s, t, i) /\ s.job[i] = NoJob /\ Fresh(s, i)
    BY DEF AllRight
  <2>2. QED
    BY <2>1, KeepsFresh
<1>3. QED
  BY <1>1, <1>2 DEF AllRight

\* j has been told that a read has ended, and has not yet done anything about it.
ReadIsOver(s, message) == [s EXCEPT !.digests = Digests!Received(@, message)]

HasEnded(s, F, m, j, t) ==
  /\ Leaves(s, t, j) /\ j \notin F /\ OnceIn(t, j)
  /\ t.job = s.job
  /\ s.job[j].st # "awaiting" => Settled(t, j)
  /\ s.job[j].st = "awaiting" => Right(t, j, t, {}, {}, {m}, Entries[m])

LEMMA ReadEnds ==
  ASSUME NEW s, NEW F, AllRight(s, 0, {}, F), NEW m \in Manifest, NEW j \in Job,
         NEW message \in s.digests.sent, message = Well(m, j) \/ message = Badly(m, j)
  PROVE  HasEnded(s, F, m, j, ReadIsOver(s, message))
<1> DEFINE t == ReadIsOver(s, message)
           g == Digests!Received(s.digests, message)
           x == s.job[j]
           L == ListedIn(s, j)
           R == ReadFor(s.digests, j)
<1>1. /\ Whole(s) /\ JobRight(s, j, {}) /\ ReadsOnce(s.digests)
      /\ \A i \in F : Fresh(s, i)
  BY DEF AllRight, Due, Whole, Sound
<1>2. EndsFor(s.digests, m, j, g)
  BY <1>1, ReceivedReads
<1>3. /\ DOMAIN t = StateFields /\ t.cache = s.cache /\ t.job = s.job /\ t.tasks = s.tasks
      /\ t.digests = g /\ t.timers = s.timers /\ t.status = s.status
  BY <1>1 DEF ReadIsOver, Whole, Sound, StateFields
<1> HIDE DEF t, g
<1>4. Whole(t)
  BY <1>1, <1>2, <1>3 DEF Whole, Sound, TasksRight, EndsFor
<1>5. /\ \A i \in Job : ListedIn(t, i) = ListedIn(s, i) /\ (OnceIn(s, i) => OnceIn(t, i))
      /\ \A i \in Job \ {j} : ReadFor(t.digests, i) = ReadFor(s.digests, i)
      /\ m \in R /\ ReadFor(t.digests, j) = R \ {m}
  BY <1>2, <1>3 DEF ListedIn, OnceIn, EndsFor
<1>6. Leaves(s, t, j) /\ OnceIn(t, j)
  BY <1>1, <1>3, <1>4, <1>5 DEF Leaves, Keeps, SameFor, JobRight
<1>7. j \notin F
  BY <1>1, <1>5 DEF Fresh
<1>8. x.st # "awaiting" => Settled(t, j)
  BY <1>1, <1>3, <1>6, SettledIsRight DEF Settled
<1>9. x.st = "awaiting" => Right(t, j, t, {}, {}, {m}, Entries[m])
  <2>1. ASSUME x.st = "awaiting"
        PROVE  Right(t, j, t, {}, {}, {m}, Entries[m])
    <3>1. TrackerRight(j, x, L, R, {}, {}, {}, {})
      BY <1>1, <2>1, SettledIsRight
    <3> HIDE DEF x, L, R
    <3>2. TrackerRight(j, x, L, R \ {m}, {}, {}, {m}, Entries[m])
      BY <1>5, <3>1, ReadHasEnded
    <3>3. TrackerRight(j, t.job[j], ListedIn(t, j), ReadFor(t.digests, j), {}, {}, {m}, Entries[m])
      BY <1>3, <1>5, <3>2 DEF x, L
    <3>4. QED
      BY <1>4, <1>6, <3>3, WorksStarts
  <2>2. QED
    BY <2>1
<1>10. QED
  BY <1>3, <1>6, <1>7, <1>8, <1>9 DEF HasEnded, t

-----------------------------------------------------------------------------
\* The steps of the dispatcher.

\* The inductive invariant: every tracker is right about what the cache, the
\* reads and the layers got so far are, and nothing is under way for the jobs
\* that are still to come.
TrackersRight == AllRight(Now, 0, {}, Job \ enqueued)

LEMMA BecomeRight ==
  ASSUME NEW s, NEW F, AllRight(s, 0, {}, F), Become(s)
  PROVE  AllRight(Now', 0, {}, F)
<1>1. PICK t : t = Now'
  OBVIOUS
<1>2. /\ DOMAIN t = StateFields /\ t.cache = s.cache /\ t.job = s.job /\ t.tasks = s.tasks
      /\ t.digests = s.digests /\ t.timers = s.timers /\ t.status = s.status
  BY <1>1 DEF Now, Become, StateFields
<1>3. Whole(s)
  BY DEF AllRight
<1>4. Whole(t)
  BY <1>2, <1>3 DEF Whole, Sound, TasksRight
<1>5. \A i \in Job : Keeps(s, t, i)
  BY <1>2 DEF Keeps, SameFor, ListedIn, OnceIn
<1>6. AllRight(t, 0, {}, F)
  BY <1>4, <1>5, KeepsAllRight
<1>7. QED
  BY <1>1, <1>6

\* A step that leaves all jobs but j as they were.
LEMMA LeavesStep ==
  ASSUME TrackersRight, NEW j \in Job, NEW t, Leaves(Now, t, j), JobRight(t, j, {}), Become(t),
         enqueued' = enqueued \cup {j} \/ (j \in enqueued /\ enqueued' = enqueued)
  PROVE  TrackersRight'
<1> DEFINE s == Now
           F == Job \ enqueued
           Y == {}
<1>1. AllRight(s, 0, Y, F) /\ Y = Y \ {j} /\ Leaves(s, t, j)
  BY DEF TrackersRight
<1>2. F \ {j} = Job \ enqueued'
  OBVIOUS
<1> HIDE DEF s, F, Y
<1>3. AllRight(t, 0, Y, F \ {j})
  BY <1>1, LeavesRight
<1>4. AllRight(t, 0, {}, Job \ enqueued')
  BY <1>2, <1>3 DEF Y
<1>5. AllRight(Now', 0, {}, Job \ enqueued')
  BY <1>4, BecomeRight
<1>6. QED
  BY <1>5 DEF TrackersRight

LEMMA NowRight ==
  ASSUME TrackersRight
  PROVE  /\ Whole(Now) /\ AllRight(Now, 0, {}, Job \ enqueued)
         /\ \A i \in Job : /\ JobRight(Now, i, {}) /\ OnceIn(Now, i)
                           /\ job[i].st # "awaiting" => Settled(Now, i)
                           /\ job[i].st \in {"available", "executing"} => Runs(i, job[i])
         /\ \A i \in Job \ enqueued : job[i] = NoJob /\ Fresh(Now, i)
<1>1. AllRight(Now, 0, {}, Job \ enqueued)
  BY DEF TrackersRight
<1>2. \A i \in Job : JobRight(Now, i, {})
  BY <1>1 DEF AllRight, Due
<1>3. \A i \in Job : /\ OnceIn(Now, i)
                     /\ job[i].st # "awaiting" => Settled(Now, i)
                     /\ job[i].st \in {"available", "executing"} => Runs(i, job[i])
  BY <1>2, SettledIsRight, NowFields DEF JobRight
<1>4. QED
  BY <1>1, <1>2, <1>3, NowFields DEF AllRight

LEMMA EnqueueRight ==
  ASSUME TrackersRight, NEW j \in Job, EnqueueJob(j)
  PROVE  TrackersRight'
<1> DEFINE s == Now
           u == NewTracker(s, j)
           x == u.job[j]
           t == IF IsComplete(x, j) THEN MakeAvailable(u, j) ELSE SendStatus(u, j, "layers")
<1>1. /\ Whole(s) /\ Sound(s) /\ Fresh(s, j) /\ j \notin enqueued /\ JobRight(s, j, {})
      /\ enqueued' = enqueued \cup {j}
      /\ \A i \in Job : s.job[i].st = "available" => Runs(i, s.job[i])
  BY NowRight, NowFields DEF EnqueueJob, Whole
<1>2. Right(s, j, u, {}, {}, {}, {})
  BY <1>1, RightNew
<1>3. Become(s) \/ Become(t)
  BY DEF EnqueueJob
<1> HIDE DEF s, u, t
<1>4. CASE Become(s)
  <2>1. Leaves(s, s, j)
    BY <1>1 DEF Leaves, Keeps, SameFor
  <2>2. QED
    BY <1>1, <1>4, <2>1, LeavesStep DEF s
<1>5. CASE Become(t)
  <2>1. /\ Works(s, j, u) /\ OnceIn(u, j)
        /\ TrackerRight(j, x, ListedIn(u, j), ReadFor(u.digests, j), {}, {}, {}, {})
    BY <1>2 DEF Right, Works
  <2>2. Leaves(s, u, j)
    BY <1>1, <2>1, WorksLeaves
  <2>3. Leaves(s, t, j) /\ JobRight(t, j, {})
    <3>1. CASE ~IsComplete(x, j)
      <4>1. t = SendStatus(u, j, "layers") /\ Whole(u)
        BY <2>2, <3>1 DEF t, Leaves
      <4>2. Whole(t) /\ t.job = u.job /\ \A i \in Job : SameFor(u, t, i)
        BY <4>1, StatusLeaves
      <4>3. Leaves(s, t, j)
        BY <2>2, <4>2 DEF Leaves, Keeps, SameFor
      <4>4. JobRight(t, j, {})
        BY <2>1, <3>1, <4>2 DEF JobRight, SameFor
      <4>5. QED
        BY <4>3, <4>4
    <3>2. CASE IsComplete(x, j)
      <4>1. t = MakeAvailable(u, j) /\ Whole(u)
        BY <2>2, <3>2 DEF t, Leaves
      <4>2. x.keys = Needed(j)
        BY <2>1, <3>2, CompleteHasAll
      <4>3. \A i \in Job \ {j} : u.job[i].st = "available" => Runs(i, u.job[i])
        BY <1>1, <2>1 DEF Works, OnlyTracks
      <4>4. Leaves(u, t, j) /\ SameFor(u, t, j) /\ Runs(j, t.job[j])
        BY <4>1, <4>2, <4>3, MakeAvailableLeaves
      <4>5. Leaves(s, t, j)
        BY <2>2, <4>4, KeepsTrans DEF Leaves
      <4>6. JobRight(t, j, {})
        BY <2>1, <4>4 DEF JobRight, SameFor
      <4>7. QED
        BY <4>5, <4>6
    <3>3. QED
      BY <3>1, <3>2
  <2>4. QED
    BY <1>1, <1>5, <2>3, LeavesStep DEF s
<1>6. QED
  BY <1>3, <1>4, <1>5

\* h is s but for the state of j, which is x and awaits nothing.
Puts(s, h, j, x) ==
  /\ DOMAIN h = StateFields /\ h.cache = s.cache /\ h.tasks = s.tasks /\ h.digests = s.digests
  /\ h.status = s.status /\ h.timers = s.timers /\ h.job = [s.job EXCEPT ![j] = x]
  /\ x = NoJob \/ Runs(j, x)

LEMMA PutsLeaves ==
  ASSUME NEW s, NEW j \in Job, NEW x, NEW h, Whole(s), OnceIn(s, j), Puts(s, h, j, x)
  PROVE  Leaves(s, h, j) /\ JobRight(h, j, {})
<1>1. Whole(h)
  BY DEF Puts, Whole, Sound, TasksRight
<1>2. \A i \in Job : SameFor(s, h, i)
  BY DEF Puts, SameFor, ListedIn, OnceIn
<1>3. h.job[j] = x /\ (\A i \in Job \ {j} : h.job[i] = s.job[i]) /\ (x = NoJob \/ Runs(j, x))
  BY DEF Puts, Whole, Sound
<1>4. QED
  BY <1>1, <1>2, <1>3 DEF Leaves, Keeps, JobRight, SameFor

\* Then its layers are released.
LEMMA ReleaseLeaves ==
  ASSUME NEW s, NEW j \in Job, NEW h, NEW keys, NEW ord \in KeyOrders, Leaves(s, h, j),
         JobRight(h, j, {})
  PROVE  LET t == Release(h, keys, ord) IN
         Leaves(s, t, j) /\ JobRight(t, j, {}) /\ t.job = h.job
<1> DEFINE t == Release(h, keys, ord)
<1>1. Whole(h)
  BY DEF Leaves
<1>2. OnlyCache(h, t)
  BY <1>1, ReleaseOnlyCache DEF Whole, Sound
<1> HIDE DEF t
<1>3. Whole(t) /\ t.job = h.job /\ \A i \in Job : SameFor(h, t, i)
  BY <1>1, <1>2, CacheLeaves
<1>4. \A i \in Job : Keeps(h, t, i)
  BY <1>3 DEF Keeps
<1>5. Leaves(s, t, j)
  BY <1>3, <1>4, KeepsTrans DEF Leaves
<1>6. JobRight(t, j, {})
  BY <1>4, KeepsRight
<1>7. QED
  BY <1>3, <1>5, <1>6 DEF t

LEMMA CancelRight ==
  ASSUME TrackersRight, NEW j \in Job, CancelJob(j)
  PROVE  TrackersRight'
<1> DEFINE s == Now
<1>1. /\ Whole(s) /\ OnceIn(s, j) /\ JobRight(s, j, {}) /\ s.job = job /\ DOMAIN job = Job
      /\ j \in enqueued /\ enqueued' = enqueued
  BY NowRight, NowFields DEF CancelJob, Whole, Sound
<1>2. CASE job[j].st = "none"
  <2>1. Become(s)
    BY <1>2 DEF CancelJob
  <2> HIDE DEF s
  <2>2. Leaves(s, s, j)
    BY <1>1 DEF Leaves, Keeps, SameFor
  <2>3. QED
    BY <1>1, <2>1, <2>2, LeavesStep DEF s
<1>3. CASE job[j].st = "executing"
  <2> DEFINE x == [job[j] EXCEPT !.mode = "canceled"]
             t == [s EXCEPT !.job[j].mode = "canceled"]
  <2>1. Become(t)
    BY <1>3 DEF CancelJob
  <2>2. /\ DOMAIN t = StateFields /\ t.cache = s.cache /\ t.tasks = s.tasks
        /\ t.digests = s.digests /\ t.status = s.status /\ t.timers = s.timers
        /\ t.job = [s.job EXCEPT ![j] = x]
    BY NowFields DEF StateFields
  <2>3. Runs(j, x)
    BY <1>3, NowRight, RunsForms
  <2> HIDE DEF t, x, s
  <2>4. Puts(s, t, j, x)
    BY <2>2, <2>3 DEF Puts
  <2>5. Leaves(s, t, j) /\ JobRight(t, j, {})
    BY <1>1, <2>4, PutsLeaves
  <2>6. QED
    BY <1>1, <2>1, <2>5, LeavesStep DEF s
<1>4. CASE job[j].st \notin {"none", "executing"}
  <2> DEFINE h == [s EXCEPT !.job[j] = NoJob]
             keys == job[j].keys
  <2>1. PICK ord \in KeyOrders : Become(Release(h, keys, ord))
    BY <1>4 DEF CancelJob
  <2> DEFINE t == Release(h, keys, ord)
  <2>2. /\ DOMAIN h = StateFields /\ h.cache = s.cache /\ h.tasks = s.tasks
        /\ h.digests = s.digests /\ h.status = s.status /\ h.timers = s.timers
        /\ h.job = [s.job EXCEPT ![j] = NoJob]
    BY NowFields DEF StateFields
  <2>3. Become(t)
    BY <2>1
  <2> HIDE DEF h, keys, s
  <2>4. Puts(s, h, j, NoJob)
    BY <2>2 DEF Puts
  <2>5. Leaves(s, h, j) /\ JobRight(h, j, {})
    BY <1>1, <2>4, PutsLeaves
  <2>6. Leaves(s, t, j) /\ JobRight(t, j, {})
    BY <2>5, ReleaseLeaves
  <2> HIDE DEF t
  <2>7. QED
    BY <1>1, <2>3, <2>6, LeavesStep DEF s
<1>5. QED
  BY <1>2, <1>3, <1>4

LEMMA TimerRight ==
  ASSUME TrackersRight, NEW j \in Job, JobTimer(j)
  PROVE  TrackersRight'
<1> DEFINE s == Now
           h == [s EXCEPT !.timers = @ \ {j}]
           p == Panic(h)
           x == [job[j] EXCEPT !.mode = "timedOut"]
           t == [h EXCEPT !.job[j].mode = "timedOut"]
<1>1. /\ Whole(s) /\ OnceIn(s, j) /\ JobRight(s, j, {}) /\ s.job = job /\ DOMAIN job = Job
      /\ enqueued' = enqueued /\ AllRight(s, 0, {}, Job \ enqueued)
  BY NowRight, NowFields DEF JobTimer, Whole, Sound
<1>2. /\ DOMAIN h = StateFields /\ h.cache = s.cache /\ h.tasks = s.tasks
      /\ h.digests = s.digests /\ h.status = s.status /\ h.timers = s.timers \ {j}
      /\ h.job = s.job
  BY NowFields DEF StateFields
<1>3. Become(h) \/ Become(p) \/ (job[j].st = "executing" /\ Become(t))
  BY DEF JobTimer
<1> HIDE DEF h, s
<1>4. /\ DOMAIN t = StateFields /\ t.cache = h.cache /\ t.tasks = h.tasks
      /\ t.digests = h.digests /\ t.status = h.status /\ t.timers = h.timers
      /\ t.job = [h.job EXCEPT ![j] = x]
  BY <1>1, <1>2 DEF StateFields
<1>5. /\ DOMAIN p = StateFields /\ p.cache = Cache!Panicked(h.cache) /\ p.tasks = h.tasks
      /\ p.digests = h.digests /\ p.status = h.status /\ p.timers = h.timers
      /\ p.job = h.job
  BY <1>2 DEF Panic, StateFields
<1> HIDE DEF p, t, x
<1>6. Whole(h) /\ \A i \in Job : Keeps(s, h, i)
  BY <1>1, <1>2 DEF Whole, Sound, TasksRight, Keeps, SameFor, ListedIn, OnceIn
<1>7. AllRight(h, 0, {}, Job \ enqueued)
  BY <1>1, <1>6, KeepsAllRight
<1>8. CASE Become(h)
  <2>1. AllRight(Now', 0, {}, Job \ enqueued)
    BY <1>7, <1>8, BecomeRight
  <2>2. QED
    BY <1>1, <2>1 DEF TrackersRight
<1>9. CASE Become(p)
  <2>1. CacheTyped(p.cache) /\ p.cache.entry = h.cache.entry
    BY <1>5, <1>6 DEF Whole, Sound, CacheTyped, Cache!Panicked
  <2>2. Whole(p) /\ \A i \in Job : Keeps(h, p, i)
    BY <1>5, <1>6, <2>1 DEF Whole, Sound, TasksRight, Keeps, SameFor, ListedIn, OnceIn
  <2>3. AllRight(p, 0, {}, Job \ enqueued)
    BY <1>7, <2>2, KeepsAllRight
  <2>4. AllRight(Now', 0, {}, Job \ enqueued)
    BY <2>3, <1>9, BecomeRight
  <2>5. QED
    BY <1>1, <2>4 DEF TrackersRight
<1>10. CASE job[j].st = "executing" /\ Become(t)
  <2>1. Runs(j, job[j]) /\ Runs(j, x)
    <3>1. Runs(j, job[j]) /\ job[j].st = "executing"
      BY <1>10, NowRight
    <3>2. Runs(j, x)
      BY <3>1 DEF Runs, x
    <3>3. QED
      BY <3>1, <3>2
  <2>2. Whole(t) /\ \A i \in Job : SameFor(h, t, i)
    BY <1>4, <1>6 DEF Whole, Sound, TasksRight, SameFor, ListedIn, OnceIn
  <2>3. \A i \in Job : Keeps(h, t, i)
    BY <1>1, <1>2, <1>4, <2>1, <2>2 DEF Keeps
  <2>4. AllRight(t, 0, {}, Job \ enqueued)
    BY <1>7, <2>2, <2>3, KeepsAllRight
  <2>5. AllRight(Now', 0, {}, Job \ enqueued)
    BY <2>4, <1>10, BecomeRight
  <2>6. QED
    BY <1>1, <2>5 DEF TrackersRight
<1>11. QED
  BY <1>3, <1>8, <1>9, <1>10

LEMMA CompletedRight ==
  ASSUME TrackersRight, NEW j \in Job, JobCompleted(j)
  PROVE  TrackersRight'
<1> DEFINE s == Now
           outcome == [nominal |-> "completed", timedOut |-> "timedOut"]
           mode == job[j].mode
           r == IF mode = "canceled" THEN Now ELSE Respond(Now, j, outcome[mode])
           h == [r EXCEPT !.job[j] = NoJob]
           keys == job[j].keys
           F == Job \ enqueued
<1>1. /\ Whole(s) /\ OnceIn(s, j) /\ AllRight(s, 0, {}, F) /\ s.job = job
      /\ enqueued' = enqueued /\ job[j] # NoJob
  BY NowRight, NowFields DEF JobCompleted, NoJob
<1>2. PICK ord \in KeyOrders :
        LET u == Release(h, keys, ord) IN
        IF CanStart(u) THEN \E k \in Best(u) : Become(Start(u, k)) ELSE Become(u)
  BY DEF JobCompleted
<1> DEFINE u == Release(h, keys, ord)
<1>3. IF CanStart(u) THEN \E k \in Best(u) : Become(Start(u, k)) ELSE Become(u)
  BY <1>2
<1>4. /\ DOMAIN h = StateFields /\ h.cache = s.cache /\ h.tasks = s.tasks
      /\ h.digests = s.digests /\ h.status = s.status /\ h.timers = s.timers
      /\ h.job = [s.job EXCEPT ![j] = NoJob]
  <2>1. CASE mode = "canceled"
    BY <2>1, NowFields DEF StateFields
  <2>2. CASE mode # "canceled"
    BY <2>2, NowFields DEF StateFields, Respond
  <2>3. QED
    BY <2>1, <2>2
<1>5. F \ {j} = F /\ F = Job \ enqueued'
  BY <1>1, NowRight
<1> HIDE DEF s, h, keys, F
<1>6. Puts(s, h, j, NoJob)
  BY <1>4 DEF Puts
<1>7. Leaves(s, h, j) /\ JobRight(h, j, {})
  BY <1>1, <1>6, PutsLeaves
<1>8. Leaves(s, u, j) /\ JobRight(u, j, {})
  BY <1>7, ReleaseLeaves
<1> HIDE DEF u
<1> DEFINE Y == {}
<1>9. Y = Y \ {j} /\ AllRight(s, 0, Y, F)
  BY <1>1
<1> HIDE DEF Y
<1>10. AllRight(u, 0, Y, F \ {j})
  BY <1>8, <1>9, LeavesRight
<1>11. AllRight(u, 0, {}, F)
  BY <1>5, <1>10 DEF Y
<1>12. PICK t : AllRight(t, 0, {}, F) /\ Become(t)
  <2>1. CASE ~CanStart(u)
    BY <1>3, <1>11, <2>1
  <2>2. CASE CanStart(u)
    <3>1. PICK k \in Best(u) : Become(Start(u, k))
      BY <1>3, <2>2
    <3>2. k \in Job /\ u.job[k].st = "available"
      BY DEF Best, InState
    <3>3. JobRight(u, k, {}) /\ Whole(u)
      BY <1>11, <3>2 DEF AllRight, Due
    <3>4. Runs(k, u.job[k])
      BY <3>2, <3>3, SettledIsRight
    <3> DEFINE t == Start(u, k)
    <3>5. Whole(t) /\ \A i \in Job : Keeps(u, t, i)
      BY <3>2, <3>3, <3>4, StartLeaves
    <3>6. Become(t)
      BY <3>1
    <3> HIDE DEF t
    <3>7. AllRight(t, 0, {}, F)
      BY <1>11, <3>5, KeepsAllRight
    <3>8. QED
      BY <3>6, <3>7
  <2>3. QED
    BY <2>1, <2>2
<1>13. AllRight(Now', 0, {}, F)
  BY <1>12, BecomeRight
<1>14. QED
  BY <1>5, <1>13 DEF TrackersRight

LEMMA SuccessRight ==
  ASSUME TrackersRight, NEW k \in Key, CacheFillSuccess(k)
  PROVE  TrackersRight'
<1> DEFINE s == Now
           F == Job \ enqueued
           got == Cache!GotArtifactSuccess(cache, k, TRUE)
           c == got.cache
           q == ToTell(s, k)
           e == EndOf(s, k, c)
           t == AllAdvance(e, k, q)
<1>1. AllRight(s, 0, {}, F) /\ CacheTyped(cache) /\ s.cache = cache /\ F = Job \ enqueued'
  <2>1. enqueued' = enqueued
    BY Zenon DEF CacheFillSuccess
  <2>2. Whole(Now) /\ AllRight(Now, 0, {}, Job \ enqueued)
    BY NowRight
  <2>3. QED
    BY <2>1, <2>2, NowFields DEF Whole, Sound
<1>2. Ends(s, k, c) /\ got.jobs = q
  BY <1>1, GotSuccessTyped DEF Ends, ToTell
<1>3. Become(t)
  BY <1>2, Zenon DEF CacheFillSuccess, AllAdvance, EndOf
<1> HIDE DEF s, F, c, q, e, t
<1>4. q \in Seq(Job) /\ IsInjective(q)
  BY <1>1, ToTellForms DEF q
<1>5. AllRight(e, k, ToSet(q), F)
  BY <1>1, <1>2, AllToBeTold DEF e, q
<1>6. AllRight(t, 0, {}, F)
  BY <1>4, <1>5, AllAdvanceRight DEF t
<1>7. AllRight(Now', 0, {}, F)
  BY <1>3, <1>6, BecomeRight
<1>8. QED
  BY <1>1, <1>7 DEF TrackersRight

LEMMA FailureRight ==
  ASSUME TrackersRight, NEW k \in Key, CacheFillFailure(k)
  PROVE  TrackersRight'
<1> DEFINE s == Now
           F == Job \ enqueued
           got == Cache!GotArtifactFailure(cache, k)
           c == got.cache
           q == ToTell(s, k)
           e == EndOf(s, k, c)
           t(ord) == AllAreFailed(e, ord, q)
<1>1. AllRight(s, 0, {}, F) /\ CacheTyped(cache) /\ s.cache = cache /\ F = Job \ enqueued'
  <2>1. enqueued' = enqueued
    BY Zenon DEF CacheFillFailure
  <2>2. Whole(Now) /\ AllRight(Now, 0, {}, Job \ enqueued)
    BY NowRight
  <2>3. QED
    BY <2>1, <2>2, NowFields DEF Whole, Sound
<1>2. Ends(s, k, c) /\ got.jobs = q
  <2>1. CacheTyped(c) /\ c.entry = [cache.entry EXCEPT ![k] = Cache!Absent]
    BY <1>1, GotFailureTyped
  <2>2. got.jobs = q
    BY <1>1 DEF Cache!GotArtifactFailure, ToTell
  <2> HIDE DEF c, s
  <2>3. c.entry[k] = Cache!Absent /\ \A x \in Key \ {k} : c.entry[x] = cache.entry[x]
    BY <1>1, <2>1 DEF CacheTyped
  <2>4. QED
    BY <1>1, <2>1, <2>2, <2>3 DEF Ends, Cache!Absent
<1>3. PICK ord \in KeyOrders : Become(t(ord))
  BY <1>2, Zenon DEF CacheFillFailure, AllAreFailed, EndOf
<1> HIDE DEF s, F, c, q, e
<1>4. q \in Seq(Job) /\ IsInjective(q)
  BY <1>1, ToTellForms DEF q
<1>5. AllRight(e, k, ToSet(q), F)
  BY <1>1, <1>2, AllToBeTold DEF e, q
<1>6. AllRight(t(ord), 0, {}, F)
  BY <1>4, <1>5, AllFailedRight
<1>7. AllRight(Now', 0, {}, F)
  BY <1>3, <1>6, BecomeRight
<1>8. QED
  BY <1>1, <1>7 DEF TrackersRight

LEMMA ManifestReadRight ==
  ASSUME TrackersRight, NEW m \in Manifest, NEW ok \in BOOLEAN, ManifestRead(m, ok)
  PROVE  TrackersRight'
<1> DEFINE s == Now
           g == Digests!FillCache(digests, m, ok)
           F == Job \ enqueued
<1>1. /\ Whole(s) /\ AllRight(s, 0, {}, F)
      /\ UNCHANGED <<cache, job, enqueued, tasks, timers, status>> /\ digests' = g
  BY NowRight DEF ManifestRead, dispatcherVars
<1>2. ReadsOnce(digests)
  BY <1>1, NowFields DEF Whole, Sound
<1>3. ReadsOnce(g) /\ \A i \in Job : ReadFor(g, i) = ReadFor(digests, i)
  BY <1>2, FilledReads
<1> HIDE DEF g, F
<1>4. PICK t : t = Now'
  OBVIOUS
<1>5. /\ DOMAIN t = StateFields /\ t.cache = s.cache /\ t.job = s.job /\ t.tasks = s.tasks
      /\ t.digests = g /\ t.timers = s.timers /\ t.status = s.status /\ s.digests = digests
  BY <1>1, <1>4 DEF Now, StateFields
<1> HIDE DEF s
<1>6. Whole(t)
  BY <1>1, <1>3, <1>5 DEF Whole, Sound, TasksRight
<1>7. \A i \in Job : Keeps(s, t, i)
  BY <1>3, <1>5 DEF Keeps, SameFor, ListedIn, OnceIn
<1>8. AllRight(t, 0, {}, F)
  BY <1>1, <1>6, <1>7, KeepsAllRight
<1>9. QED
  BY <1>1, <1>4, <1>8 DEF TrackersRight, F

LEMMA ReadDigestsRight ==
  ASSUME TrackersRight, NEW m \in Manifest, NEW j \in Job, ReadManifestDigests(m, j)
  PROVE  TrackersRight'
<1> DEFINE s == Now
           F == Job \ enqueued
           message == Well(m, j)
           h == ReadIsOver(s, message)
           k == Blob(m)
           told == GotManifestDigests(h, j, m)
           t == AdvanceJob(h, j, k, told)
<1>1. /\ AllRight(s, 0, {}, F) /\ message \in s.digests.sent
  BY NowRight, NowFields, Zenon DEF ReadManifestDigests, Well
<1>2. Become(t) /\ enqueued' = enqueued
  BY Zenon DEF ReadManifestDigests, ReadIsOver, Well
<1>a. message = Well(m, j) \/ message = Badly(m, j)
  OBVIOUS
<1> HIDE DEF s, F, message, h, told, t, k
<1>3. /\ Leaves(s, h, j) /\ j \notin F /\ OnceIn(h, j) /\ h.job = s.job
      /\ s.job[j].st # "awaiting" => Settled(h, j)
      /\ s.job[j].st = "awaiting" => Right(h, j, h, {}, {}, {m}, Entries[m])
  <2>1. HasEnded(s, F, m, j, h)
    BY <1>a, <1>1, ReadEnds DEF h
  <2>2. QED
    BY <2>1 DEF HasEnded
<1>4. h.job[j].st = "awaiting" => Right(h, j, told, {}, {}, {}, {})
  BY <1>3, RightManifestDigests DEF told
<1>5. k \in Key
  BY KeyForms, LayersAssumption DEF k
<1>6. \A i \in Job \ {j} : h.job[i].st = "available" => Runs(i, h.job[i])
  BY <1>3, NowRight, NowFields DEF s
<1>7. Whole(h) /\ (h.job[j].st # "awaiting" => Settled(h, j))
  BY <1>3 DEF Leaves
<1>8. Leaves(h, t, j) /\ JobRight(t, j, {})
  BY <1>4, <1>5, <1>6, <1>7, AdvanceLeaves DEF t
<1>9. Leaves(s, t, j)
  BY <1>3, <1>8, KeepsTrans DEF Leaves
<1>10. j \in enqueued
  BY <1>3 DEF F
<1>11. QED
  BY <1>2, <1>8, <1>9, <1>10, LeavesStep DEF s

LEMMA ReadFailureRight ==
  ASSUME TrackersRight, NEW m \in Manifest, NEW j \in Job, ReadManifestFailure(m, j)
  PROVE  TrackersRight'
<1> DEFINE s == Now
           F == Job \ enqueued
           message == Badly(m, j)
           h == ReadIsOver(s, message)
<1>1. /\ AllRight(s, 0, {}, F) /\ message \in s.digests.sent
  BY NowRight, NowFields, Zenon DEF ReadManifestFailure, Badly
<1>2. PICK ord \in KeyOrders : Become(JobFailure(h, j, ord))
  BY Zenon DEF ReadManifestFailure, ReadIsOver, Badly
<1> DEFINE t == JobFailure(h, j, ord)
<1>3. Become(t) /\ enqueued' = enqueued
  BY <1>2 DEF ReadManifestFailure
<1>a. message = Well(m, j) \/ message = Badly(m, j)
  OBVIOUS
<1> HIDE DEF s, F, message, h, t
<1>4. /\ Leaves(s, h, j) /\ j \notin F /\ OnceIn(h, j) /\ h.job = s.job
      /\ s.job[j].st # "awaiting" => Settled(h, j)
  <2>1. HasEnded(s, F, m, j, h)
    BY <1>a, <1>1, ReadEnds DEF h
  <2>2. QED
    BY <2>1 DEF HasEnded
<1>5. Whole(h) /\ (h.job[j].st # "awaiting" => Settled(h, j))
  BY <1>4 DEF Leaves
<1>6. Leaves(h, t, j) /\ JobRight(t, j, {})
  BY <1>4, <1>5, OneFails DEF t
<1>7. Leaves(s, t, j)
  BY <1>4, <1>6, KeepsTrans DEF Leaves
<1>8. j \in enqueued
  BY <1>4 DEF F
<1>9. QED
  BY <1>3, <1>6, <1>7, <1>8, LeavesStep DEF s

\* What still comes for the jobs that are dropped is received, and released.
LEMMA ShutDownRight ==
  ASSUME TrackersRight, ShutDown
  PROVE  TrackersRight'
<1> DEFINE s == Now
           F == Job \ enqueued
<1>1. /\ Whole(s) /\ AllRight(s, 0, {}, F) /\ s.job = job
      /\ \A i \in Job : OnceIn(s, i) /\ (job[i].st = "executing" => Runs(i, job[i]))
      /\ \A i \in F : job[i] = NoJob /\ Fresh(s, i)
      /\ UNCHANGED <<cache, enqueued, tasks, digests, timers, status>>
      /\ job' = [i \in Job |-> IF job[i].st = "executing"
                               THEN Executing("canceled", job[i].keys) ELSE NoJob]
  BY NowRight, NowFields DEF ShutDown, envVars
<1>2. PICK t : t = Now'
  OBVIOUS
<1>3. /\ DOMAIN t = StateFields /\ t.cache = s.cache /\ t.tasks = s.tasks
      /\ t.digests = s.digests /\ t.timers = s.timers /\ t.status = s.status /\ t.job = job'
  BY <1>1, <1>2 DEF Now, StateFields
<1> HIDE DEF s
<1>4. Whole(t)
  <2>1. DOMAIN t.job = Job
    BY <1>1, <1>3
  <2>2. QED
    BY <1>1, <1>3, <2>1 DEF Whole, Sound, TasksRight
<1>5. \A i \in Job : SameFor(s, t, i)
  BY <1>3 DEF SameFor, ListedIn, OnceIn
<1>6. ASSUME NEW i \in Job
      PROVE  JobRight(t, i, Due(i, {}, 0)) /\ (job[i] = NoJob => t.job[i] = NoJob)
  <2>1. CASE job[i].st = "executing"
    <3>1. t.job[i] = Executing("canceled", job[i].keys) /\ Runs(i, job[i]) /\ job[i] # NoJob
      BY <1>1, <1>3, <2>1 DEF NoJob
    <3>2. Runs(i, t.job[i])
      BY <3>1 DEF Runs, Executing
    <3>3. QED
      BY <1>1, <1>5, <3>1, <3>2 DEF JobRight, SameFor
  <2>2. CASE job[i].st # "executing"
    <3>1. t.job[i] = NoJob
      BY <1>1, <1>3, <2>2
    <3>2. QED
      BY <1>1, <1>5, <3>1 DEF JobRight, SameFor
  <2>3. QED
    BY <2>1, <2>2
<1>7. \A i \in F : t.job[i] = NoJob /\ Fresh(t, i)
  BY <1>1, <1>5, <1>6 DEF Fresh, SameFor
<1>8. AllRight(t, 0, {}, F)
  BY <1>4, <1>6, <1>7 DEF AllRight
<1>9. QED
  BY <1>1, <1>2, <1>8 DEF TrackersRight

LEMMA TrackersInit ==
  ASSUME Init
  PROVE  TrackersRight
<1>1. PICK s : s = Now
  OBVIOUS
<1>2. /\ DOMAIN s = StateFields /\ s.cache = Cache!EmptyCache /\ s.job = [j \in Job |-> NoJob]
      /\ s.tasks = {} /\ s.digests = Digests!EmptyDigestCache /\ s.timers = {}
      /\ s.status = [j \in Job |-> "none"] /\ enqueued = {}
  BY <1>1 DEF Init, Now, StateFields
<1>3. CacheTyped(s.cache) /\ \A k \in Key : s.cache.entry[k].st # "getting"
  BY <1>2 DEF CacheTyped, CacheEntry, Cache!EmptyCache, Cache!Absent
<1>4. ReadsOnce(s.digests) /\ \A i \in Job : ReadFor(s.digests, i) = {}
  BY <1>2 DEF ReadsOnce, ReadFor, Digests!EmptyDigestCache, IsInjective
<1>5. Whole(s)
  BY <1>2, <1>3, <1>4 DEF Whole, Sound, TasksRight
<1>6. ASSUME NEW i \in Job
      PROVE  OnceIn(s, i) /\ Fresh(s, i) /\ s.job[i] = NoJob
  BY <1>2, <1>3, <1>4 DEF OnceIn, Fresh, ListedIn
<1>7. QED
  BY <1>1, <1>5, <1>6 DEF TrackersRight, AllRight, JobRight

LEMMA TrackersStep ==
  ASSUME TrackersRight, [WorkerNext]_workerVars
  PROVE  TrackersRight'
<1>1. ASSUME NEW j \in Job, EnqueueJob(j)
      PROVE  TrackersRight'
  BY <1>1, EnqueueRight
<1>2. ASSUME NEW j \in Job, CancelJob(j)
      PROVE  TrackersRight'
  BY <1>2, CancelRight
<1>3. ASSUME NEW j \in Job, JobCompleted(j)
      PROVE  TrackersRight'
  BY <1>3, CompletedRight
<1>4. ASSUME NEW j \in Job, JobTimer(j)
      PROVE  TrackersRight'
  BY <1>4, TimerRight
<1>5. ASSUME NEW k \in Key, CacheFillSuccess(k)
      PROVE  TrackersRight'
  BY <1>5, SuccessRight
<1>6. ASSUME NEW k \in Key, CacheFillFailure(k)
      PROVE  TrackersRight'
  BY <1>6, FailureRight
<1>7. ASSUME NEW m \in Manifest, NEW j \in Job, ReadManifestDigests(m, j)
      PROVE  TrackersRight'
  BY <1>7, ReadDigestsRight
<1>8. ASSUME NEW m \in Manifest, NEW j \in Job, ReadManifestFailure(m, j)
      PROVE  TrackersRight'
  BY <1>8, ReadFailureRight
<1>9. ASSUME NEW m \in Manifest, NEW ok \in BOOLEAN, ManifestRead(m, ok)
      PROVE  TrackersRight'
  BY <1>9, ManifestReadRight
<1>10. CASE ShutDown
  BY <1>10, ShutDownRight
<1>11. CASE UNCHANGED workerVars
  BY <1>11 DEF workerVars, dispatcherVars, envVars, TrackersRight, Now
<1>12. QED
  BY <1>1, <1>2, <1>3, <1>4, <1>5, <1>6, <1>7, <1>8, <1>9, <1>10, <1>11 DEF WorkerNext

-----------------------------------------------------------------------------
\* What the invariant says of the properties.

LEMMA OnceListed ==
  ASSUME NEW q \in Seq(Job), NEW j, \A a, b \in DOMAIN q : q[a] = j /\ q[b] = j => a = b
  PROVE  LET n == Cardinality({i \in DOMAIN q : q[i] = j}) IN
         /\ j \in ToSet(q) => n = 1
         /\ j \notin ToSet(q) => n = 0
<1> DEFINE S == {i \in DOMAIN q : q[i] = j}
<1>1. CASE j \in ToSet(q)
  <2>1. PICK i \in DOMAIN q : q[i] = j
    BY <1>1 DEF ToSet
  <2>2. S = {i}
    BY <2>1
  <2>3. Cardinality(S) = 1
    BY <2>2, FS_Singleton
  <2> HIDE DEF S
  <2>4. QED
    BY <1>1, <2>3 DEF S
<1>2. CASE j \notin ToSet(q)
  <2>1. S = {}
    BY <1>2 DEF ToSet
  <2>2. Cardinality(S) = 0
    BY <2>1, FS_EmptySet
  <2> HIDE DEF S
  <2>3. QED
    BY <1>2, <2>2 DEF S
<1>3. QED
  BY <1>1, <1>2

LEMMA WaitsForWants ==
  ASSUME NEW j \in Job, TrackerTyped(j, job[j]), ~IsComplete(job[j], j)
  PROVE  WaitsFor(j) \subseteq Key /\ \A k \in Key : k \in WaitsFor(j) <=> Wants(j, job[j], k)
<1> DEFINE t == job[j]
           A == {Blob(d) : d \in {x \in DOMAIN t.bottom : t.bottom[x] = WaitingForArtifact}}
           B == {Blob(d) : d \in {x \in Digest : t.deps[x] # <<>>}}
           C == {Bottom(d) : d \in {x \in DOMAIN t.bottom : t.bottom[x] = WaitingForFsLayer}}
           D == IF AllReady(t) THEN {Upper(Prefix(j, t.stacked + 1))} ELSE {}
<1>1. WaitsFor(j) = A \cup B \cup C \cup D
  BY DEF WaitsFor
<1>2. /\ DOMAIN t.bottom = ToSet(Layers[j]) /\ DOMAIN t.bottom \subseteq Digest
      /\ \A d \in DOMAIN t.bottom : t.bottom[d] \in PendingBottomLayer
      /\ t.stacked \in 1 .. Len(Layers[j]) /\ Len(Layers[j]) \in Nat \ {0}
  BY LayersTyped DEF TrackerTyped
<1>3. AllReady(t) <=> \A d \in DOMAIN t.bottom : t.bottom[d].st = "ready"
  BY <1>2, BottomForms DEF AllReady
<1>4. AllReady(t) => t.stacked < Len(Layers[j]) /\ t.stacked + 1 \in 2 .. Len(Layers[j])
  BY <1>2 DEF IsComplete
<1>5. A \subseteq Key /\ B \subseteq Key /\ C \subseteq Key
  BY <1>2, KeyForms
<1>6. D \subseteq Key
  <2>1. AllReady(t) => Upper(Prefix(j, t.stacked + 1)) \in Key
    BY <1>4, KeyForms
  <2>2. QED
    BY <2>1
<1>7. ASSUME NEW k \in Key
      PROVE  k \in A \cup B \cup C \cup D <=> Wants(j, t, k)
  <2>1. CASE k[1] = "blob" /\ k[2] \in Digest /\ k = Blob(k[2])
    <3>1. k \in A <=> k[2] \in DOMAIN t.bottom /\ t.bottom[k[2]].st = "artifact"
      BY <1>2, <2>1, KeysDiffer, BottomForms
    <3>2. k \in B <=> t.deps[k[2]] # <<>>
      BY <2>1, KeysDiffer
    <3>3. k \notin C /\ k \notin D
      BY <2>1, KeysDiffer
    <3> HIDE DEF A, B, C, D
    <3>4. QED
      BY <2>1, <3>1, <3>2, <3>3 DEF Wants
  <2>2. CASE k[1] = "bottom" /\ k[2] \in Digest /\ k = Bottom(k[2])
    <3>1. k \in C <=> k[2] \in DOMAIN t.bottom /\ t.bottom[k[2]].st = "fsLayer"
      BY <1>2, <2>2, KeysDiffer, BottomForms
    <3>2. k \notin A /\ k \notin B /\ k \notin D
      BY <2>2, KeysDiffer
    <3> HIDE DEF A, B, C, D
    <3>3. QED
      BY <2>2, <3>1, <3>2 DEF Wants
  <2>3. CASE k[1] = "upper"
    <3>1. k \notin A /\ k \notin B /\ k \notin C
      BY <2>3, KeysDiffer
    <3>2. k \in D <=> AllReady(t) /\ k = Upper(Prefix(j, t.stacked + 1))
      OBVIOUS
    <3> HIDE DEF A, B, C, D
    <3>3. QED
      BY <1>3, <1>4, <2>3, <3>1, <3>2 DEF Wants
  <2>4. QED
    BY <2>1, <2>2, <2>3, KeyForms
<1> HIDE DEF A, B, C, D
<1>8. QED
  BY <1>1, <1>5, <1>6, <1>7 DEF t

LEMMA ReadsForJob ==
  ASSUME NEW d, ReadsOnce(d), NEW m \in Manifest, NEW j \in Job
  PROVE  <<m, j>> \in Digests!Reads(d) <=> m \in ReadFor(d, j)
<1> DEFINE x == <<m, j>>
<1>1. x \in Digests!Reads(d) <=>
        \/ \E n \in Manifest : \E i \in d.pending[n] : x = <<n, i>>
        \/ \E message \in d.sent : x = <<message[1], message[2]>>
  BY ReadsAre
<1>2. (\E n \in Manifest : \E i \in d.pending[n] : x = <<n, i>>) <=> j \in d.pending[m]
  OBVIOUS
<1>3. \A n, i : /\ Well(n, i)[1] = n /\ Well(n, i)[2] = i
                /\ Badly(n, i)[1] = n /\ Badly(n, i)[2] = i
  BY DEF Well, Badly
<1>4. ASSUME NEW message \in d.sent
      PROVE  message = Well(message[1], message[2]) \/ message = Badly(message[1], message[2])
  <2>1. message \in Manifest \X Job \X BOOLEAN
    BY DEF ReadsOnce
  <2>2. PICK n \in Manifest, i \in Job, ok \in BOOLEAN : message = <<n, i, ok>>
    BY <2>1
  <2>3. message = Well(n, i) \/ message = Badly(n, i)
    <3>1. CASE ok = TRUE
      BY <2>2, <3>1, Zenon DEF Well
    <3>2. CASE ok = FALSE
      BY <2>2, <3>2, Zenon DEF Badly
    <3>3. ok = TRUE \/ ok = FALSE
      BY Zenon
    <3>4. QED
      BY <3>1, <3>2, <3>3, Zenon
  <2>4. QED
    BY <1>3, <2>3
<1>5. (\E message \in d.sent : x = <<message[1], message[2]>>)
        <=> Well(m, j) \in d.sent \/ Badly(m, j) \in d.sent
  <2>1. ASSUME NEW message \in d.sent, x = <<message[1], message[2]>>
        PROVE  Well(m, j) \in d.sent \/ Badly(m, j) \in d.sent
    <3>1. message[1] = m /\ message[2] = j
      BY <2>1
    <3>2. QED
      BY <1>4, <3>1
  <2>2. ASSUME NEW message \in d.sent, message = Well(m, j) \/ message = Badly(m, j)
        PROVE  x = <<message[1], message[2]>>
    BY <1>3, <2>2
  <2>3. QED
    BY <2>1, <2>2
<1>6. QED
  BY <1>1, <1>2, <1>5, MessagesDiffer

LEMMA TypeFollows ==
  ASSUME Control, TrackersRight
  PROVE  TypeOK
<1>1. Whole(Now) /\ \A j \in Job : JobRight(Now, j, {})
  BY NowRight
<1>2. CacheTyped(cache) /\ ReadsOnce(digests) /\ tasks \subseteq Key /\ timers \subseteq Timeout
  BY <1>1, NowFields DEF Whole, Sound, TasksRight
<1>3. status \in [Job -> {"none", "layers", "waiting", "executing"}]
  BY <1>1, NowFields DEF Whole
<1>4. ASSUME NEW j \in Job
      PROVE  \/ job[j] = NoJob
             \/ job[j] \in Tracker(j)
             \/ job[j] \in [st : {"available"}, keys : SUBSET Key]
             \/ job[j] \in [st : {"executing"}, keys : SUBSET Key,
                            mode : {"nominal", "canceled", "timedOut"}]
  <2> DEFINE x == job[j]
  <2>1. Needed(j) \subseteq Key
    BY NeededKeys
  <2>2. CASE Runs(j, x)
    BY <2>1, <2>2 DEF Runs
  <2>3. CASE TrackerRight(j, x, ListedIn(Now, j), ReadFor(Now.digests, j), {}, {}, {}, {})
    <3>1. TrackerTyped(j, x) /\ x.keys \subseteq Key
      BY <2>1, <2>3 DEF TrackerRight, Has
    <3>2. x = [st |-> x.st, keys |-> x.keys, stacked |-> x.stacked, bottom |-> x.bottom,
               deps |-> x.deps]
      BY <3>1 DEF TrackerTyped, IsRecord
    <3>3. x \in Tracker(j)
      BY <3>1, <3>2 DEF TrackerTyped, Tracker
    <3>4. QED
      BY <3>3
  <2>4. QED
    BY <1>1, <2>2, <2>3, NowFields DEF JobRight
<1>5. responses \in [Job -> Seq({"completed", "timedOut", "error"})]
  BY NowFields DEF Control, Healthy
<1>6. shutDown \in BOOLEAN /\ cancelled \subseteq enqueued /\ enqueued \subseteq Job
  BY DEF Control
<1>7. /\ cache.entry \in [Key -> CacheEntry] /\ cache.heap \in Seq(Key)
      /\ digests.pending \in [Manifest -> SUBSET Job]
      /\ digests.cached \in Seq(Manifest) /\ IsInjective(digests.cached)
      /\ digests.sent \subseteq Manifest \X Job \X BOOLEAN
  BY <1>2 DEF CacheTyped, ReadsOnce
<1>8. QED
  BY <1>2, <1>3, <1>4, <1>5, <1>6, <1>7 DEF TypeOK

LEMMA AwaitingFollows ==
  ASSUME TrackersRight
  PROVE  AwaitingIsWaiting
<1> SUFFICES ASSUME NEW j \in InState(job, "awaiting")
             PROVE
    LET t == job[j]
        Times(k) == Cardinality({i \in DOMAIN cache.entry[k].jobs :
                                   cache.entry[k].jobs[i] = j})
        awaited == {k \in Key : cache.entry[k].st = "getting" /\ Times(k) > 0}
    IN
    /\ awaited = WaitsFor(j) /\ awaited \subseteq tasks
    /\ \A k \in awaited : Times(k) = 1
    /\ {d \in DOMAIN t.bottom : t.bottom[d] = WaitingForDigests} =
         {m \in Manifest : <<m, j>> \in Digests!Reads(digests)}
    /\ \A m \in DOMAIN t.bottom : t.bottom[m].st = "artifacts" =>
         t.bottom[m].left = Cardinality({d \in Digest : m \in ToSet(t.deps[d])})
    /\ ~IsComplete(t, j)
  BY DEF AwaitingIsWaiting
<1> DEFINE t == job[j]
           Times(k) == Cardinality({i \in DOMAIN cache.entry[k].jobs :
                                      cache.entry[k].jobs[i] = j})
           awaited == {k \in Key : cache.entry[k].st = "getting" /\ Times(k) > 0}
           L == ListedIn(Now, j)
           R == ReadFor(digests, j)
<1>1. j \in Job /\ t.st = "awaiting" /\ Whole(Now) /\ OnceIn(Now, j) /\ JobRight(Now, j, {})
  BY NowRight DEF InState
<1>2. /\ CacheTyped(cache) /\ ReadsOnce(digests) /\ TasksRight(Now)
      /\ Now.cache = cache /\ Now.tasks = tasks /\ Now.job = job /\ Now.digests = digests
  BY <1>1, NowFields DEF Whole, Sound
<1>3. TrackerRight(j, t, L, R, {}, {}, {}, {}) /\ ~IsComplete(t, j)
  <2>1. ~Runs(j, t) /\ t # NoJob
    BY <1>1 DEF Runs, NoJob
  <2>2. QED
    BY <1>1, <1>2, <2>1 DEF JobRight
<1>4. /\ TrackerTyped(j, t) /\ Listens(j, t, L, {}) /\ Reads(t, R, {}) /\ Depends(t, {}, {})
      /\ Counts(t, {})
  BY <1>3 DEF TrackerRight
<1>5. DOMAIN t.bottom \subseteq Digest /\ Manifest \subseteq Digest
      /\ \A d \in DOMAIN t.bottom : t.bottom[d] \in PendingBottomLayer
  BY <1>1, <1>4, LayersTyped, LayersAssumption DEF TrackerTyped
<1>6. ASSUME NEW k \in Key, cache.entry[k].st = "getting"
      PROVE  (k \in L => Times(k) = 1) /\ (k \notin L => Times(k) = 0)
  <2> DEFINE q == cache.entry[k].jobs
  <2>1. q \in Seq(Job)
    BY <1>2, <1>6 DEF CacheTyped, CacheEntry, Cache!Absent, Cache!InHeap
  <2>2. \A a, b \in DOMAIN q : q[a] = j /\ q[b] = j => a = b
    BY <1>1, <1>2, <1>6 DEF OnceIn
  <2>3. k \in L <=> j \in ToSet(q)
    BY <1>2, <1>6 DEF ListedIn
  <2> HIDE DEF q, L
  <2>4. LET n == Cardinality({i \in DOMAIN q : q[i] = j}) IN
        (j \in ToSet(q) => n = 1) /\ (j \notin ToSet(q) => n = 0)
    BY <2>1, <2>2, OnceListed
  <2>5. QED
    BY <2>3, <2>4 DEF q
<1>7. L \subseteq Key /\ (\A k \in L : cache.entry[k].st = "getting") /\ L \subseteq tasks
  BY <1>2 DEF ListedIn, TasksRight
<1> HIDE DEF Times, L, R, t
<1>8. awaited = L /\ \A k \in awaited : Times(k) = 1
  BY <1>6, <1>7
<1> HIDE DEF awaited
<1>9. L = WaitsFor(j)
  <2>1. \A k \in Key : k \in L <=> Wants(j, t, k)
    BY <1>4 DEF Listens
  <2>2. WaitsFor(j) \subseteq Key /\ \A k \in Key : k \in WaitsFor(j) <=> Wants(j, t, k)
    BY <1>1, <1>3, <1>4, WaitsForWants DEF t
  <2>3. QED
    BY <1>7, <2>1, <2>2
<1>10. {d \in DOMAIN t.bottom : t.bottom[d] = WaitingForDigests} =
         {m \in Manifest : <<m, j>> \in Digests!Reads(digests)}
  <2> DEFINE A == {d \in DOMAIN t.bottom : t.bottom[d] = WaitingForDigests}
             B == {m \in Manifest : <<m, j>> \in Digests!Reads(digests)}
  <2>1. A \subseteq Digest /\ \A d \in Digest : d \in A <=> d \in R
    BY <1>4, <1>5, BottomForms DEF Reads
  <2>2. B \subseteq Digest /\ \A m \in Manifest : m \in B <=> m \in R
    BY <1>1, <1>2, <1>5, ReadsForJob DEF R
  <2>3. R \subseteq Manifest /\ B \subseteq Manifest
    BY MessagesDiffer DEF R
  <2> HIDE DEF A, B
  <2>4. A = B
    BY <1>5, <2>1, <2>2, <2>3
  <2>5. QED
    BY <2>4 DEF A, B
<1>11. ASSUME NEW m \in DOMAIN t.bottom, t.bottom[m].st = "artifacts"
       PROVE  t.bottom[m].left = Cardinality({d \in Digest : m \in ToSet(t.deps[d])})
  <2> DEFINE n == Cardinality(Dependent(t, m))
  <2>1. m \in Manifest /\ t.bottom[m].left = n + IF m \in {} THEN 1 ELSE 0
    BY <1>4, <1>11 DEF Counts
  <2>2. Dependent(t, m) \subseteq Entries[m] /\ IsFiniteSet(Entries[m])
    BY <1>4, <2>1, LayersAssumption DEF Dependent, Depends
  <2>3. n \in Nat
    BY <2>2, FS_Subset, FS_CardinalityType
  <2> HIDE DEF n
  <2>4. t.bottom[m].left = n
    BY <2>1, <2>3
  <2>5. QED
    BY <2>4 DEF n, Dependent
<1>12. QED
  BY <1>3, <1>7, <1>8, <1>9, <1>10, <1>11 DEF t, Times, awaited

-----------------------------------------------------------------------------
\* What the cache lists a job for, the reads made for it, what its tracker
\* says and what it has got belong together, whatever was received since.
THEOREM TrackersStayRight == Spec => []TrackersRight
<1>1. Init => TrackersRight
  BY TrackersInit
<1>2. TrackersRight /\ [Next]_vars => TrackersRight'
  BY TrackersStep, WorkerSteps
<1>3. QED
  BY <1>1, <1>2, PTL DEF Spec

\* Every variable has its type: each job is in one of the states of the code,
\* with a tracker of its own layers while it awaits them, and no key, job or
\* manifest appears that there is none of.
THEOREM DispatcherTyped == Spec => []TypeOK
<1>1. Control /\ TrackersRight => TypeOK
  BY TypeFollows
<1>2. QED
  BY <1>1, DispatcherControl, TrackersStayRight, PTL

\* A job is made available only with all of the layers it needs, and starts and
\* runs with exactly these (make_job_available, possibly_start_job).
THEOREM RunsWithItsLayers == Spec => []CompleteWhenAvailable
<1>1. TrackersRight => CompleteWhenAvailable
  <2>1. ASSUME TrackersRight, NEW j \in InState(job, "available") \cup InState(job, "executing")
        PROVE  job[j].keys = Needed(j)
    <3>1. Runs(j, job[j])
      BY <2>1, NowRight DEF InState
    <3>2. QED
      BY <3>1 DEF Runs
  <2>2. QED
    BY <2>1 DEF CompleteWhenAvailable
<1>2. QED
  BY <1>1, TrackersStayRight, PTL

\* No awaiting job is forgotten: the cache lists it, once, for exactly the keys
\* it waits for, a task is under way for each, and its manifests are read, or
\* wait for as many artifacts as they count (the layer tracker and the fetcher).
THEOREM NoJobIsForgotten == Spec => []AwaitingIsWaiting
<1>1. TrackersRight => AwaitingIsWaiting
  BY AwaitingFollows
<1>2. QED
  BY <1>1, TrackersStayRight, PTL
=============================================================================
