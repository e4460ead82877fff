-------------------------- MODULE DispatcherProofs --------------------------
(***************************************************************************)
(* Proofs about the control of a worker's dispatcher (Dispatcher), for any *)
(* jobs, layers, manifests, slots, failures and orders of keys.            *)
(*                                                                         *)
(* What the trackers do is summed up by OnlyTracks: they change the cache, *)
(* the reads, the tasks and the trackers of their own job, and neither a   *)
(* job's state nor what the broker has been told.  The rest is about jobs  *)
(* that go on (Going: awaiting, available, executing) and jobs that end    *)
(* (Failing).  The inductive invariant is Control; the refinement of       *)
(* JobService and ShutDownIsFinal follow from it, step by step.            *)
(***************************************************************************)
EXTENDS Dispatcher, FiniteSetTheorems, SequenceTheorems, WellFoundedInduction, TLAPS

-----------------------------------------------------------------------------
\* What FoldTheorems needs of the naturals: a set of them has a least element.
LEMMA LeastOf ==
  \A D \in SUBSET Nat : D # {} => \E m \in D : \A k \in D : ~(k < m)
<1> SUFFICES ASSUME NEW D \in SUBSET Nat, D # {}
             PROVE  \E m \in D : \A k \in D : ~(k < m)
  OBVIOUS
<1>1. PICK m \in D : \A k \in D : ~(<<k, m>> \in OpToRel(<, Nat))
  <2>1. IsWellFoundedOn(OpToRel(<, Nat), Nat)
    BY NatLessThanWellFounded
  <2>2. QED
    BY <2>1, WFMin
<1>2. ASSUME NEW k \in D, k < m PROVE FALSE
  <2>1. <<k, m>> \in OpToRel(<, Nat)
    BY <1>2 DEF OpToRel
  <2>2. QED
    BY <1>1, <2>1
<1>3. QED
  BY <1>2

-----------------------------------------------------------------------------
\* The cache.

CacheTyped(c) ==
  /\ DOMAIN c = {"entry", "heap", "bytes", "panicked", "lost", "left", "stopped"}
  /\ c.entry \in [Key -> CacheEntry]
  /\ c.heap \in Seq(Key)

\* The same keys are being got, for the same jobs.
SameWaits(c, d) ==
  \A k \in Key :
    c.entry[k].st = "getting" \/ d.entry[k].st = "getting"
    => d.entry[k] = c.entry[k]

LEMMA SameWaitsTrans ==
  ASSUME NEW c, NEW d, NEW e, SameWaits(c, d), SameWaits(d, e)
  PROVE  SameWaits(c, e)
<1>1. ASSUME NEW k \in Key, c.entry[k].st = "getting" \/ e.entry[k].st = "getting"
      PROVE  e.entry[k] = c.entry[k]
  <2>1. CASE c.entry[k].st = "getting"
    BY <2>1 DEF SameWaits
  <2>2. CASE e.entry[k].st = "getting"
    BY <2>2 DEF SameWaits
  <2>3. QED
    BY <1>1, <2>1, <2>2
<1>2. QED
  BY <1>1 DEF SameWaits

EvictStep(p, o, c, k) == Cache!RemoveOne(c, k)
EvictInv(r, n, c) ==
  CacheTyped(c) /\ SameWaits(r, c) /\ Len(c.heap) >= Len(r.heap) - n
Evictions == INSTANCE FoldTheorems WITH Op <- EvictStep, Inv <- EvictInv

LEMMA EvictedIsFold ==
  ASSUME NEW c
  PROVE  Cache!Evicted(c) = Evictions!Fold(0, 0, [c EXCEPT !.stopped = FALSE], c.heap)
BY DEF Cache!Evicted, Evictions!Fold, EvictStep, Cache!FoldLeft,
       Cache!MapThenFoldSet, Cache!Max, Evictions!Greatest

LEMMA EvictedTyped ==
  ASSUME NEW c, CacheTyped(c)
  PROVE  CacheTyped(Cache!Evicted(c)) /\ SameWaits(c, Cache!Evicted(c))
<1> DEFINE q == c.heap
           start == [c EXCEPT !.stopped = FALSE]
<1>1. q \in Seq(Key)
  BY DEF CacheTyped
<1>2. EvictInv(c, 0, start)
  <2>1. start.entry = c.entry /\ start.heap = c.heap /\ DOMAIN start = DOMAIN c
    BY DEF CacheTyped
  <2>2. QED
    BY <1>1, <2>1 DEF EvictInv, SameWaits, CacheTyped
<1> HIDE DEF start
<1>3. ASSUME NEW a, NEW n \in 1 .. Len(q), q[n] \in Key, EvictInv(c, n - 1, a)
      PROVE  EvictInv(c, n, EvictStep(0, 0, a, q[n]))
  <2> DEFINE k == q[n]
             b == [a EXCEPT !.entry[k] = Cache!Absent, !.heap = Tail(@),
                            !.bytes = @ - [x \in Key |-> Size][k]]
             b3 == [a EXCEPT !.entry[k] = Cache!Absent, !.heap = Tail(@),
                             !.lost = @ + [x \in Key |-> Size][k],
                             !.left = @ \cup {k}, !.stopped = TRUE]
             b2 == [a EXCEPT !.panicked = TRUE]
  <2>1. /\ CacheTyped(a) /\ SameWaits(c, a) /\ a.heap \in Seq(Key)
        /\ Len(a.heap) >= Len(q) - (n - 1)
    BY <1>3 DEF EvictInv, CacheTyped
  <2>2. CASE EvictStep(0, 0, a, k) = a
    BY <2>1, <2>2, <1>1 DEF EvictInv
  <2>3. CASE EvictStep(0, 0, a, k) = b2
    <3>1. b2.entry = a.entry /\ b2.heap = a.heap /\ DOMAIN b2 = DOMAIN a
      BY <2>1 DEF CacheTyped
    <3>2. CacheTyped(b2) /\ SameWaits(c, b2)
      BY <2>1, <3>1 DEF CacheTyped, SameWaits
    <3>3. Len(b2.heap) >= Len(c.heap) - n
      BY <2>1, <3>1, <1>1
    <3>4. QED
      BY <2>3, <3>2, <3>3 DEF EvictInv
  <2>4. ASSUME NEW d \in {b, b3}, EvictStep(0, 0, a, k) = d, a.entry[k].st = "inHeap"
        PROVE  EvictInv(c, n, EvictStep(0, 0, a, k))
    <3>1. /\ d.entry = [a.entry EXCEPT ![k] = Cache!Absent] /\ d.heap = Tail(a.heap)
          /\ DOMAIN d = DOMAIN a
      BY <2>1 DEF CacheTyped
    <3>2. /\ Len(a.heap) >= 1 /\ Tail(a.heap) \in Seq(Key)
          /\ Len(Tail(a.heap)) = Len(a.heap) - 1
      BY <2>1, <1>1
    <3>3. d.entry \in [Key -> CacheEntry]
      BY <3>1, <2>1 DEF CacheTyped, CacheEntry
    <3>4. CacheTyped(d)
      BY <2>1, <3>1, <3>2, <3>3 DEF CacheTyped
    <3>5. SameWaits(a, d)
      BY <2>1, <2>4, <3>1 DEF SameWaits, CacheTyped, Cache!Absent
    <3>6. SameWaits(c, d)
      BY <2>1, <3>5, SameWaitsTrans
    <3>7. Len(d.heap) >= Len(c.heap) - n
      BY <2>1, <3>1, <3>2, <1>1
    <3>8. QED
      BY <2>4, <3>4, <3>6, <3>7 DEF EvictInv
  <2>5. \/ EvictStep(0, 0, a, k) = a
        \/ EvictStep(0, 0, a, k) = b2
        \/ EvictStep(0, 0, a, k) \in {b, b3} /\ a.entry[k].st = "inHeap"
    BY DEF EvictStep, Cache!RemoveOne, Cache!Panicked
  <2> HIDE DEF b, b2, b3
  <2>6. QED
    BY <2>2, <2>3, <2>4, <2>5
<1>4. EvictInv(c, Len(q), Evictions!Fold(0, 0, start, q))
  BY <1>1, <1>2, <1>3, LeastOf, Evictions!FoldKeeps
<1>5. QED
  BY <1>4, EvictedIsFold DEF EvictInv, start
LEMMA DecrementedTyped ==
  ASSUME NEW c, NEW k \in Key, CacheTyped(c)
  PROVE  CacheTyped(Cache!Decremented(c, k)) /\ SameWaits(c, Cache!Decremented(c, k))
<1> DEFINE d1 == [c EXCEPT !.panicked = TRUE]
           d2 == [c EXCEPT !.entry[k] = Cache!InUse(c.entry[k].refs - 1)]
           d3 == [c EXCEPT !.entry[k] = Cache!InHeap, !.heap = Append(@, k)]
<1>1. c.entry[k] \in CacheEntry /\ c.heap \in Seq(Key)
  BY DEF CacheTyped
<1>2. CacheTyped(d1) /\ SameWaits(c, d1)
  BY DEF CacheTyped, SameWaits
<1>3. CASE c.entry[k].st # "inUse"
  BY <1>2, <1>3 DEF Cache!Decremented, Cache!Panicked
<1>4. CASE c.entry[k].st = "inUse" /\ c.entry[k].refs > 1
  <2>1. c.entry[k].refs - 1 \in Nat \ {0}
    BY <1>1, <1>4 DEF CacheEntry, Cache!Absent, Cache!InHeap
  <2>2. Cache!InUse(c.entry[k].refs - 1) \in CacheEntry
    BY <2>1 DEF CacheEntry, Cache!InUse
  <2>3. /\ d2.entry = [c.entry EXCEPT ![k] = Cache!InUse(c.entry[k].refs - 1)]
        /\ d2.heap = c.heap /\ DOMAIN d2 = DOMAIN c
    BY DEF CacheTyped
  <2>4. CacheTyped(d2)
    BY <2>2, <2>3 DEF CacheTyped
  <2>5. SameWaits(c, d2)
    BY <1>4, <2>3 DEF CacheTyped, SameWaits, Cache!InUse
  <2>6. QED
    BY <1>4, <2>4, <2>5 DEF Cache!Decremented
<1>5. CASE c.entry[k].st = "inUse" /\ ~(c.entry[k].refs > 1)
  <2>1. /\ d3.entry = [c.entry EXCEPT ![k] = Cache!InHeap]
        /\ d3.heap = Append(c.heap, k) /\ DOMAIN d3 = DOMAIN c
    BY DEF CacheTyped
  <2>2. Cache!InHeap \in CacheEntry /\ Append(c.heap, k) \in Seq(Key)
    BY <1>1 DEF CacheEntry
  <2>3. CacheTyped(d3)
    BY <2>1, <2>2 DEF CacheTyped
  <2>4. SameWaits(c, d3)
    BY <1>5, <2>1 DEF CacheTyped, SameWaits, Cache!InHeap
  <2>5. CacheTyped(Cache!Evicted(d3)) /\ SameWaits(c, Cache!Evicted(d3))
    BY <2>3, <2>4, EvictedTyped, SameWaitsTrans
  <2>6. QED
    BY <1>5, <2>5 DEF Cache!Decremented
<1>6. QED
  BY <1>3, <1>4, <1>5

\* The code removes from the heap by an index, the model by the element.
LEMMA RemoveFirstInSeq ==
  ASSUME NEW S, NEW q \in Seq(S), NEW d
  PROVE  Cache!RemoveFirst(q, d) \in Seq(S)
<1> DEFINE I == {i \in 1 .. Len(q) : q[i] = d}
<1>1. CASE I # {}
  <2>1. PICK m \in I : \A k \in I : ~(k < m)
    <3>1. I \in SUBSET Nat
      OBVIOUS
    <3>2. QED
      BY <1>1, <3>1, LeastOf
  <2>2. Cache!Min(I) \in I
    <3>1. m \in I /\ \A k \in I : m <= k
      BY <2>1
    <3>2. QED
      BY <3>1 DEF Cache!Min
  <2>3. Cache!RemoveFirst(q, d) = SubSeq(q, 1, Cache!Min(I) - 1) \o SubSeq(q, Cache!Min(I) + 1, Len(q))
    BY <1>1 DEF Cache!RemoveFirst, Cache!SelectInSeq, Cache!RemoveAt
  <2>4. ASSUME NEW i \in 1 .. Len(q)
        PROVE  SubSeq(q, 1, i - 1) \o SubSeq(q, i + 1, Len(q)) \in Seq(S)
    <3>1. \A x \in 1 .. i - 1 : x \in 1 .. Len(q)
      OBVIOUS
    <3>2. \A x \in i + 1 .. Len(q) : x \in 1 .. Len(q)
      OBVIOUS
    <3>3. SubSeq(q, 1, i - 1) \in Seq(S)
      BY <3>1, SubSeqProperties
    <3>4. SubSeq(q, i + 1, Len(q)) \in Seq(S)
      BY <3>2, SubSeqProperties
    <3>5. QED
      BY <3>3, <3>4, ConcatProperties
  <2>5. QED
    BY <2>2, <2>3, <2>4
<1>2. CASE I = {}
  BY <1>2 DEF Cache!RemoveFirst
<1>3. QED
  BY <1>1, <1>2

\* What Fetch does to the cache.
LEMMA GetArtifactTyped ==
  ASSUME NEW c, NEW k \in Key, NEW j \in Job, CacheTyped(c)
  PROVE  LET got == Cache!GetArtifact(c, k, j) IN
         /\ CacheTyped(got.cache)
         /\ got.result \in {"get", "wait", "success"}
         /\ \A x \in Key \ {k} : got.cache.entry[x] = c.entry[x]
         /\ got.result = "success" =>
              /\ got.cache.entry[k].st = "inUse"
              /\ c.entry[k].st \in {"inUse", "inHeap"}
         /\ got.result = "get" => c.entry[k].st = "absent"
                                 /\ got.cache.entry[k] = Cache!Getting(<<j>>, {"worker"})
         /\ got.result = "wait" =>
              /\ c.entry[k].st = "getting"
              /\ got.cache.entry[k] = Cache!Getting(Append(c.entry[k].jobs, j), {"worker"})
<1> DEFINE e == c.entry[k]
           rest == Cache!RemoveFirst(c.heap, k)
           Reply(entry, heap, result) ==
             [cache |-> [c EXCEPT !.entry[k] = entry, !.heap = heap], result |-> result]
<1>1. e \in CacheEntry /\ c.heap \in Seq(Key)
  BY DEF CacheTyped
<1>2. rest \in Seq(Key)
  BY <1>1, RemoveFirstInSeq
<1>3. ASSUME NEW entry \in CacheEntry, NEW heap \in Seq(Key), NEW result
      PROVE  /\ CacheTyped(Reply(entry, heap, result).cache)
             /\ Reply(entry, heap, result).result = result
             /\ Reply(entry, heap, result).cache.entry[k] = entry
             /\ \A x \in Key \ {k} : Reply(entry, heap, result).cache.entry[x] = c.entry[x]
  BY DEF CacheTyped
<1> HIDE DEF Reply
<1>4. CASE e = Cache!Absent
  <2>1. Cache!Getting(<<j>>, {"worker"}) \in CacheEntry
    BY DEF CacheEntry, Cache!Getting
  <2>2. Cache!GetArtifact(c, k, j) = Reply(Cache!Getting(<<j>>, {"worker"}), c.heap, "get")
    BY <1>4 DEF Cache!GetArtifact, Cache!Absent, Reply
  <2>3. QED
    BY <1>1, <1>3, <1>4, <2>1, <2>2 DEF Cache!Absent
<1>5. CASE e.st = "getting"
  <2>1. e.jobs \in Seq(Job) /\ e.getters = {"worker"}
    BY <1>1, <1>5 DEF CacheEntry, Cache!Absent, Cache!InHeap
  <2>2. Append(e.jobs, j) \in Seq(Job) \ {<<>>} /\ {"worker"} \cup {"worker"} = {"worker"}
    BY <2>1
  <2>3. Cache!Getting(Append(e.jobs, j), {"worker"}) \in CacheEntry
    BY <2>2 DEF CacheEntry, Cache!Getting
  <2>4. Cache!GetArtifact(c, k, j)
          = Reply(Cache!Getting(Append(e.jobs, j), {"worker"}), c.heap, "wait")
    BY <1>5, <2>1, <2>2 DEF Cache!GetArtifact, Reply
  <2>5. QED
    BY <1>1, <1>3, <1>5, <2>3, <2>4
<1>6. CASE e.st = "inUse"
  <2>1. e.refs + 1 \in Nat \ {0}
    BY <1>1, <1>6 DEF CacheEntry, Cache!Absent, Cache!InHeap
  <2>2. Cache!InUse(e.refs + 1) \in CacheEntry
    BY <2>1 DEF CacheEntry, Cache!InUse
  <2>3. Cache!GetArtifact(c, k, j) = Reply(Cache!InUse(e.refs + 1), c.heap, "success")
    BY <1>6 DEF Cache!GetArtifact, Reply
  <2>4. QED
    BY <1>1, <1>3, <1>6, <2>2, <2>3 DEF Cache!InUse
<1>7. CASE e = Cache!InHeap
  <2>1. Cache!InUse(1) \in CacheEntry
    BY DEF CacheEntry, Cache!InUse
  <2>2. Cache!GetArtifact(c, k, j) = Reply(Cache!InUse(1), rest, "success")
    BY <1>7 DEF Cache!GetArtifact, Reply, Cache!InHeap
  <2>3. /\ CacheTyped(Reply(Cache!InUse(1), rest, "success").cache)
        /\ Reply(Cache!InUse(1), rest, "success").result = "success"
        /\ Reply(Cache!InUse(1), rest, "success").cache.entry[k] = Cache!InUse(1)
        /\ \A x \in Key \ {k} :
             Reply(Cache!InUse(1), rest, "success").cache.entry[x] = c.entry[x]
    BY <1>2, <1>3, <2>1
  <2>4. QED
    BY <1>7, <2>2, <2>3 DEF Cache!InUse, Cache!InHeap
<1>8. QED
  BY <1>1, <1>4, <1>5, <1>6, <1>7 DEF CacheEntry
LEMMA GotSuccessTyped ==
  ASSUME NEW c, NEW k \in Key, CacheTyped(c)
  PROVE  LET got == Cache!GotArtifactSuccess(c, k, TRUE) IN
         /\ CacheTyped(got.cache) /\ got.jobs \in Seq(Job)
         /\ got.cache.entry[k].st # "getting"
         /\ \A x \in Key \ {k} :
              c.entry[x].st = "getting" \/ got.cache.entry[x].st = "getting"
              => got.cache.entry[x] = c.entry[x]
         /\ got.jobs = IF c.entry[k].st = "getting" THEN c.entry[k].jobs ELSE <<>>
<1> DEFINE e == c.entry[k]
           d == [c EXCEPT !.entry[k] = Cache!InUse(Len(e.jobs)),
                          !.bytes = @ + [x \in Key |-> Size][k],
                          !.left = @ \ {k}]
           got == Cache!GotArtifactSuccess(c, k, TRUE)
<1>1. e \in CacheEntry
  BY DEF CacheTyped
<1>2. CASE e.st # "getting"
  <2>1. got.cache = c /\ got.jobs = <<>>
    BY <1>2 DEF Cache!GotArtifactSuccess
  <2>2. <<>> \in Seq(Job)
    OBVIOUS
  <2> HIDE DEF got
  <2>3. /\ CacheTyped(got.cache) /\ got.jobs \in Seq(Job)
        /\ got.cache.entry[k].st # "getting"
        /\ \A x \in Key \ {k} : got.cache.entry[x] = c.entry[x]
    BY <1>2, <2>1, <2>2
  <2>4. QED
    BY <1>2, <2>1, <2>3 DEF got
<1>3. CASE e.st = "getting"
  <2>1. e.jobs \in Seq(Job) \ {<<>>}
    BY <1>1, <1>3 DEF CacheEntry, Cache!Absent, Cache!InHeap
  <2>2. Len(e.jobs) \in Nat \ {0}
    BY <2>1
  <2>3. Cache!InUse(Len(e.jobs)) \in CacheEntry /\ Cache!InUse(Len(e.jobs)).st = "inUse"
    BY <2>2 DEF CacheEntry, Cache!InUse
  <2>4. /\ d.entry = [c.entry EXCEPT ![k] = Cache!InUse(Len(e.jobs))]
        /\ d.heap = c.heap /\ DOMAIN d = DOMAIN c
    BY DEF CacheTyped
  <2>5. got.cache = Cache!Evicted(d) /\ got.jobs = e.jobs
    BY <1>3, <2>1 DEF Cache!GotArtifactSuccess
  <2> HIDE DEF d
  <2>6. CacheTyped(d)
    BY <2>3, <2>4 DEF CacheTyped
  <2>7. CacheTyped(Cache!Evicted(d)) /\ SameWaits(d, Cache!Evicted(d))
    BY <2>6, EvictedTyped
  <2>8. d.entry[k].st = "inUse" /\ \A x \in Key \ {k} : d.entry[x] = c.entry[x]
    BY <2>3, <2>4 DEF CacheTyped
  <2>9. Cache!Evicted(d).entry[k].st # "getting"
    BY <2>7, <2>8 DEF SameWaits
  <2> HIDE DEF got
  <2>10. \A x \in Key \ {k} :
           c.entry[x].st = "getting" \/ got.cache.entry[x].st = "getting"
           => got.cache.entry[x] = c.entry[x]
    BY <2>5, <2>7, <2>8 DEF SameWaits
  <2>11. QED
    BY <1>3, <2>1, <2>5, <2>7, <2>9, <2>10 DEF got
<1>4. QED
  BY <1>2, <1>3

LEMMA GotFailureTyped ==
  ASSUME NEW c, NEW k \in Key, CacheTyped(c)
  PROVE  LET got == Cache!GotArtifactFailure(c, k) IN
         /\ CacheTyped(got.cache) /\ got.jobs \in Seq(Job)
         /\ got.cache.entry = [c.entry EXCEPT ![k] = Cache!Absent]
<1> DEFINE d == [c EXCEPT !.entry[k] = Cache!Absent]
<1>1. c.entry[k] \in CacheEntry
  BY DEF CacheTyped
<1>2. c.entry[k].st = "getting" => c.entry[k].jobs \in Seq(Job)
  BY <1>1 DEF CacheEntry, Cache!Absent, Cache!InHeap
<1>3. CacheTyped(d) /\ d.entry = [c.entry EXCEPT ![k] = Cache!Absent]
  BY DEF CacheTyped, CacheEntry
<1> HIDE DEF d
<1>4. Cache!GotArtifactFailure(c, k)
        = [cache |-> d, ok |-> FALSE,
           jobs |-> IF c.entry[k].st = "getting" THEN c.entry[k].jobs ELSE <<>>]
  BY DEF Cache!GotArtifactFailure, d
<1>5. QED
  BY <1>2, <1>3, <1>4

-----------------------------------------------------------------------------
\* Keys and sequences.

LEMMA KeyForms ==
  /\ \A d \in Digest : Blob(d) \in Key /\ Bottom(d) \in Key
  /\ \A j \in Job : \A n \in 2 .. Len(Layers[j]) : Upper(Prefix(j, n)) \in Key
  /\ \A k \in Key :
       \/ k[1] = "blob" /\ k[2] \in Digest /\ k = Blob(k[2])
       \/ k[1] = "bottom" /\ k[2] \in Digest /\ k = Bottom(k[2])
       \/ k[1] = "upper"
<1>1. \A d \in Digest : Blob(d) \in Key /\ Bottom(d) \in Key
  BY DEF Key
<1>2. \A j \in Job : \A n \in 2 .. Len(Layers[j]) : Upper(Prefix(j, n)) \in Key
  BY DEF Key
<1>3. ASSUME NEW k \in Key
      PROVE  \/ k[1] = "blob" /\ k[2] \in Digest /\ k = Blob(k[2])
             \/ k[1] = "bottom" /\ k[2] \in Digest /\ k = Bottom(k[2])
             \/ k[1] = "upper"
  <2>1. CASE \E d \in Digest : k = Blob(d)
    BY <2>1 DEF Blob
  <2>2. CASE \E d \in Digest : k = Bottom(d)
    BY <2>2 DEF Bottom
  <2>3. CASE \E j \in Job : \E n \in 2 .. Len(Layers[j]) : k = Upper(Prefix(j, n))
    BY <2>3 DEF Upper
  <2>4. QED
    BY <2>1, <2>2, <2>3 DEF Key
<1>4. QED
  BY <1>1, <1>2, <1>3

LEMMA LayersTyped ==
  ASSUME NEW j \in Job
  PROVE  /\ Layers[j] \in Seq(Digest) /\ Len(Layers[j]) \in Nat \ {0}
         /\ ToSet(Layers[j]) \subseteq Digest /\ IsFiniteSet(ToSet(Layers[j]))
<1>1. Layers[j] \in Seq(Digest) /\ Layers[j] # <<>>
  BY LayersAssumption
<1>2. Len(Layers[j]) \in Nat \ {0} /\ DOMAIN Layers[j] = 1 .. Len(Layers[j])
  BY <1>1
<1>3. ToSet(Layers[j]) \subseteq Digest
  BY <1>1 DEF ToSet
<1>4. IsFiniteSet(ToSet(Layers[j]))
  <2>1. IsFiniteSet(1 .. Len(Layers[j]))
    BY <1>2, FS_Interval
  <2>2. Layers[j] \in Surjection(1 .. Len(Layers[j]), ToSet(Layers[j]))
    BY <1>1, <1>2 DEF Surjection, ToSet
  <2>3. QED
    BY <2>1, <2>2, FS_Surjection
<1>5. QED
  BY <1>1, <1>2, <1>3, <1>4

LEMMA SetToSeqOfFinite ==
  ASSUME NEW D, IsFiniteSet(D)
  PROVE  /\ SetToSeq(D) \in Seq(D) /\ IsInjective(SetToSeq(D))
         /\ ToSet(SetToSeq(D)) = D
<1> DEFINE n == Cardinality(D)
           Is(f) == f \in [1 .. n -> D] /\ IsInjective(f)
<1>1. n \in Nat /\ ExistsBijection(1 .. n, D)
  BY FS_CardinalityType
<1>2. PICK g : g \in Bijection(1 .. n, D)
  BY <1>1 DEF ExistsBijection
<1>3. Is(g)
  BY <1>2 DEF Bijection, Injection, IsInjective
<1>4. Is(SetToSeq(D))
  BY <1>3 DEF SetToSeq
<1>5. SetToSeq(D) \in Seq(D)
  BY <1>1, <1>4
<1>6. SetToSeq(D) \in Injection(1 .. n, D)
  BY <1>4 DEF Injection, IsInjective
<1>7. SetToSeq(D) \in Surjection(1 .. n, D)
  <2>1. IsFiniteSet(1 .. n) /\ Cardinality(1 .. n) = n
    BY <1>1, FS_Interval
  <2>2. QED
    BY <1>6, <2>1, FS_Injection
<1>8. DOMAIN SetToSeq(D) = 1 .. n
  BY <1>4
<1>9. ToSet(SetToSeq(D)) = D
  BY <1>7, <1>8 DEF Surjection, ToSet
<1>10. QED
  BY <1>4, <1>5, <1>9
-----------------------------------------------------------------------------
\* What the trackers do to the dispatcher.

StateFields == {"cache", "job", "tasks", "digests", "timers", "status", "responses", "closed"}

Awaits(x) ==
  /\ {"st", "deps"} \subseteq DOMAIN x /\ x.st = "awaiting"
  /\ x.deps \in [Digest -> Seq(Manifest)]

DigestsTyped(d) ==
  DOMAIN d = {"pending", "cached", "sent"} /\ DOMAIN d.pending = Manifest

\* From d to g only jobs of J start to read, or are told of a read, one that has
\* gone well.
ReadsStart(d, g, J) ==
  /\ \A message \in g.sent : message \in d.sent \/ (message[2] \in J /\ message[3] = TRUE)
  /\ \A m \in Manifest : g.pending[m] \subseteq d.pending[m] \cup J

\* t is s after what the tracker of the awaiting job j has done.
OnlyTracks(s, j, t) ==
  /\ DOMAIN t = StateFields
  /\ CacheTyped(t.cache) /\ DigestsTyped(t.digests)
  /\ ReadsStart(s.digests, t.digests, {j})
  /\ DOMAIN t.job = Job /\ \A i \in Job \ {j} : t.job[i] = s.job[i]
  /\ Awaits(t.job[j])
  /\ t.timers = s.timers /\ t.status = s.status
  /\ t.responses = s.responses /\ t.closed = s.closed

LEMMA TracksCache ==
  ASSUME NEW s, NEW j \in Job, NEW t, OnlyTracks(s, j, t), NEW c, CacheTyped(c)
  PROVE  OnlyTracks(s, j, [t EXCEPT !.cache = c])
BY DEF OnlyTracks, StateFields

LEMMA TracksPanic ==
  ASSUME NEW s, NEW j \in Job, NEW t, OnlyTracks(s, j, t)
  PROVE  OnlyTracks(s, j, Panic(t))
<1>1. CacheTyped(Cache!Panicked(t.cache))
  BY DEF OnlyTracks, CacheTyped, Cache!Panicked
<1>2. QED
  BY <1>1, TracksCache DEF Panic

LEMMA TracksJob ==
  ASSUME NEW s, NEW j \in Job, NEW t, OnlyTracks(s, j, t), NEW x, Awaits(x)
  PROVE  OnlyTracks(s, j, [t EXCEPT !.job[j] = x])
BY DEF OnlyTracks, StateFields

LEMMA TracksFields ==
  ASSUME NEW s, NEW j \in Job, NEW t, OnlyTracks(s, j, t), NEW v
  PROVE  /\ OnlyTracks(s, j, [t EXCEPT !.job[j].keys = v])
         /\ OnlyTracks(s, j, [t EXCEPT !.job[j].stacked = v])
         /\ OnlyTracks(s, j, [t EXCEPT !.job[j].bottom = v])
         /\ v \in [Digest -> Seq(Manifest)] =>
              OnlyTracks(s, j, [t EXCEPT !.job[j].deps = v])
<1>1. Awaits(t.job[j])
  BY DEF OnlyTracks
<1>2. /\ Awaits([t.job[j] EXCEPT !.keys = v])
      /\ Awaits([t.job[j] EXCEPT !.stacked = v])
      /\ Awaits([t.job[j] EXCEPT !.bottom = v])
      /\ v \in [Digest -> Seq(Manifest)] => Awaits([t.job[j] EXCEPT !.deps = v])
  BY <1>1 DEF Awaits
<1>3. /\ OnlyTracks(s, j, [t EXCEPT !.job[j] = [t.job[j] EXCEPT !.keys = v]])
      /\ OnlyTracks(s, j, [t EXCEPT !.job[j] = [t.job[j] EXCEPT !.stacked = v]])
      /\ OnlyTracks(s, j, [t EXCEPT !.job[j] = [t.job[j] EXCEPT !.bottom = v]])
      /\ v \in [Digest -> Seq(Manifest)] =>
           OnlyTracks(s, j, [t EXCEPT !.job[j] = [t.job[j] EXCEPT !.deps = v]])
  BY <1>2, TracksJob
<1>4. DOMAIN t = StateFields /\ DOMAIN t.job = Job
  BY DEF OnlyTracks
<1>5. QED
  BY <1>3, <1>4 DEF StateFields

LEMMA GetStarts ==
  ASSUME NEW v, DigestsTyped(v), NEW m, NEW j
  PROVE  DigestsTyped(Digests!Get(v, m, j)) /\ ReadsStart(v, Digests!Get(v, m, j), {j})
<1> DEFINE g == Digests!Get(v, m, j)
           message == <<m, j, TRUE>>
<1>1. /\ DigestsTyped(g)
      /\ g.sent = v.sent \/ g.sent = v.sent \cup {message}
      /\ \A n \in Manifest : g.pending[n] \subseteq v.pending[n] \cup {j}
  BY DEF DigestsTyped, Digests!Get
<1>2. message[2] = j /\ message[3] = TRUE
  OBVIOUS
<1> HIDE DEF g, message
<1>3. QED
  BY <1>1, <1>2 DEF ReadsStart, g

LEMMA TracksDigests ==
  ASSUME NEW s, NEW j \in Job, NEW t, OnlyTracks(s, j, t), NEW v, DigestsTyped(v),
         ReadsStart(t.digests, v, {j})
  PROVE  OnlyTracks(s, j, [t EXCEPT !.digests = v])
<1>1. ReadsStart(s.digests, v, {j})
  BY DEF OnlyTracks, ReadsStart
<1>2. QED
  BY <1>1 DEF OnlyTracks, StateFields

LEMMA TracksFetch ==
  ASSUME NEW s, NEW j \in Job, NEW t, OnlyTracks(s, j, t), NEW k \in Key
  PROVE  OnlyTracks(s, j, Fetch(t, j, k))
<1> DEFINE got == Cache!GetArtifact(t.cache, k, j)
<1>1. CacheTyped(got.cache)
  BY GetArtifactTyped DEF OnlyTracks
<1> HIDE DEF got
<1>2. QED
  BY <1>1 DEF Fetch, OnlyTracks, StateFields, got

LEMMA TracksKeep ==
  ASSUME NEW s, NEW j \in Job, NEW t, OnlyTracks(s, j, t), NEW k
  PROVE  OnlyTracks(s, j, Keep(t, j, k))
BY TracksFields DEF Keep

LEMMA TracksStackUpper ==
  ASSUME NEW s, NEW j \in Job, NEW t, OnlyTracks(s, j, t), NEW n \in 2 .. Len(Layers[j])
  PROVE  OnlyTracks(s, j, StackUpper(t, j, n))
<1> DEFINE k == Upper(Prefix(j, n))
           u == Fetch(t, j, k)
<1>1. OnlyTracks(s, j, u)
  BY KeyForms, TracksFetch
<1>2. OnlyTracks(s, j, [u EXCEPT !.job[j].stacked = n])
  BY <1>1, TracksFields
<1>3. OnlyTracks(s, j, Keep([u EXCEPT !.job[j].stacked = n], j, k))
  BY <1>2, TracksKeep
<1>4. QED
  BY <1>1, <1>3 DEF StackUpper

Tracks(r, n, t) == OnlyTracks(r.s, r.j, t)

StackStep(j, o, s, n) == StackUpper(s, j, n)
Stackings == INSTANCE FoldTheorems WITH Op <- StackStep, Inv <- Tracks

LEMMA TracksFetchUpper ==
  ASSUME NEW s, NEW j \in Job, NEW t, OnlyTracks(s, j, t)
  PROVE  OnlyTracks(s, j, FetchUpperLayers(t, j))
<1> DEFINE q == [i \in 1 .. Len(Layers[j]) - 1 |-> i + 1]
           r == [s |-> s, j |-> j]
<1>1. q \in Seq(2 .. Len(Layers[j]))
  <2>1. Len(Layers[j]) - 1 \in Nat /\ Len(Layers[j]) \in Nat
    BY LayersTyped
  <2>2. QED
    BY <2>1
<1>2. Tracks(r, 0, t)
  BY DEF Tracks
<1>3. ASSUME NEW a, NEW n \in 1 .. Len(q), q[n] \in 2 .. Len(Layers[j]), Tracks(r, n - 1, a)
      PROVE  Tracks(r, n, StackStep(j, 0, a, q[n]))
  BY <1>3, TracksStackUpper DEF Tracks, StackStep
<1> HIDE DEF q
<1>4. Tracks(r, Len(q), Stackings!Fold(j, 0, t, q))
  BY <1>1, <1>2, <1>3, LeastOf, Stackings!FoldKeeps
<1>5. Stackings!Fold(j, 0, t, q) = FoldLeft(LAMBDA h, n : StackUpper(h, j, n), t, q)
  BY DEF Stackings!Fold, StackStep, FoldLeft, MapThenFoldSet, Max,
         Stackings!Greatest
<1>6. QED
  BY <1>4, <1>5 DEF FetchUpperLayers, Tracks, q

LEMMA TracksGotBottom ==
  ASSUME NEW s, NEW j \in Job, NEW t, OnlyTracks(s, j, t), NEW d
  PROVE  OnlyTracks(s, j, GotBottomFsLayer(t, j, d))
<1> DEFINE h == [t EXCEPT !.job[j].bottom[d] = Ready]
           g == Keep(h, j, Bottom(d))
<1>1. h = [t EXCEPT !.job[j].bottom = [@ EXCEPT ![d] = Ready]]
  OBVIOUS
<1>2. OnlyTracks(s, j, h)
  BY <1>1, TracksFields
<1> HIDE DEF h
<1>3. OnlyTracks(s, j, g)
  BY <1>2, TracksKeep
<1>4. OnlyTracks(s, j, Panic(t)) /\ OnlyTracks(s, j, FetchUpperLayers(g, j))
  BY <1>3, TracksPanic, TracksFetchUpper
<1>5. QED
  BY <1>3, <1>4 DEF GotBottomFsLayer, h

LEMMA TracksGotUpper ==
  ASSUME NEW s, NEW j \in Job, NEW t, OnlyTracks(s, j, t), NEW k
  PROVE  OnlyTracks(s, j, GotUpperFsLayer(t, j, k))
BY TracksFields, TracksKeep, TracksFetchUpper DEF GotUpperFsLayer

LEMMA TracksFetchBottom ==
  ASSUME NEW s, NEW j \in Job, NEW t, OnlyTracks(s, j, t), NEW d \in Digest
  PROVE  OnlyTracks(s, j, FetchBottomFsLayer(t, j, d))
<1> DEFINE u == Fetch(t, j, Bottom(d))
           h == [u EXCEPT !.job[j].bottom[d] = WaitingForFsLayer]
<1>1. OnlyTracks(s, j, u)
  BY KeyForms, TracksFetch
<1>2. h = [u EXCEPT !.job[j].bottom = [@ EXCEPT ![d] = WaitingForFsLayer]]
  OBVIOUS
<1>3. OnlyTracks(s, j, h)
  BY <1>1, <1>2, TracksFields
<1> HIDE DEF h
<1>4. OnlyTracks(s, j, GotBottomFsLayer(h, j, d))
  BY <1>3, TracksGotBottom
<1>5. QED
  BY <1>3, <1>4 DEF FetchBottomFsLayer, h

LEMMA TracksOneLess ==
  ASSUME NEW s, NEW j \in Job, NEW t, OnlyTracks(s, j, t), NEW m \in Digest
  PROVE  OnlyTracks(s, j, OneLess(t, j, m))
<1> DEFINE v == WaitingForArtifacts(t.job[j].bottom[m].left - 1)
           h == [t EXCEPT !.job[j].bottom[m] = v]
<1>1. h = [t EXCEPT !.job[j].bottom = [@ EXCEPT ![m] = v]]
  OBVIOUS
<1>2. OnlyTracks(s, j, h)
  BY <1>1, TracksFields
<1>3. QED
  BY <1>2, TracksPanic, TracksFetchBottom DEF OneLess

LessStep(j, o, s, m) == OneLess(s, j, m)
Lessenings == INSTANCE FoldTheorems WITH Op <- LessStep, Inv <- Tracks

LEMMA TracksManifestArtifact ==
  ASSUME NEW s, NEW j \in Job, NEW t, OnlyTracks(s, j, t), NEW d \in Digest
  PROVE  OnlyTracks(s, j, GotManifestArtifact(t, j, d))
<1> DEFINE q == t.job[j].deps[d]
           r == [s |-> s, j |-> j]
           h == [t EXCEPT !.job[j].deps[d] = <<>>]
<1>1. t.job[j].deps \in [Digest -> Seq(Manifest)] /\ q \in Seq(Manifest)
  BY DEF OnlyTracks, Awaits
<1>2. h = [t EXCEPT !.job[j].deps = [@ EXCEPT ![d] = <<>>]]
  OBVIOUS
<1>3. [t.job[j].deps EXCEPT ![d] = <<>>] \in [Digest -> Seq(Manifest)]
  BY <1>1
<1>4. OnlyTracks(s, j, h)
  BY <1>2, <1>3, TracksFields
<1> HIDE DEF h
<1>5. Tracks(r, 0, h)
  BY <1>4 DEF Tracks
<1>6. ASSUME NEW a, NEW n \in 1 .. Len(q), q[n] \in Manifest, Tracks(r, n - 1, a)
      PROVE  Tracks(r, n, LessStep(j, 0, a, q[n]))
  BY <1>6, TracksOneLess, LayersAssumption DEF Tracks, LessStep
<1> HIDE DEF q
<1>7. Tracks(r, Len(q), Lessenings!Fold(j, 0, h, q))
  BY <1>1, <1>5, <1>6, LeastOf, Lessenings!FoldKeeps
<1>8. Lessenings!Fold(j, 0, h, q) = FoldLeft(LAMBDA g, m : OneLess(g, j, m), h, q)
  BY DEF Lessenings!Fold, LessStep, FoldLeft, MapThenFoldSet, Max,
         Lessenings!Greatest
<1>9. QED
  BY <1>7, <1>8 DEF GotManifestArtifact, Tracks, q, h

LEMMA TracksGotArtifact ==
  ASSUME NEW s, NEW j \in Job, NEW t, OnlyTracks(s, j, t), NEW d \in Digest
  PROVE  OnlyTracks(s, j, GotArtifact(t, j, d))
<1> DEFINE h == GotManifestArtifact(Keep(t, j, Blob(d)), j, d)
           get == Digests!Get(h.digests, d, j)
           g == [h EXCEPT !.digests = get]
           w == [h EXCEPT !.digests = get, !.job[j].bottom[d] = WaitingForDigests]
<1>1. OnlyTracks(s, j, h)
  BY TracksKeep, TracksManifestArtifact
<1> HIDE DEF h
<1>2. OnlyTracks(s, j, w)
  <2>1. OnlyTracks(s, j, g)
    <3>1. DigestsTyped(h.digests)
      BY <1>1 DEF OnlyTracks
    <3>2. DigestsTyped(get) /\ ReadsStart(h.digests, get, {j})
      BY <3>1, GetStarts
    <3> HIDE DEF get
    <3>3. QED
      BY <1>1, <3>2, TracksDigests
  <2>2. OnlyTracks(s, j, [g EXCEPT !.job[j].bottom = [@ EXCEPT ![d] = WaitingForDigests]])
    BY <2>1, TracksFields
  <2>3. w = [g EXCEPT !.job[j].bottom = [@ EXCEPT ![d] = WaitingForDigests]]
    BY <1>1 DEF OnlyTracks, StateFields
  <2>4. QED
    BY <2>2, <2>3
<1>3. OnlyTracks(s, j, Panic(h)) /\ OnlyTracks(s, j, FetchBottomFsLayer(h, j, d))
  BY <1>1, TracksPanic, TracksFetchBottom
<1>4. QED
  BY <1>1, <1>2, <1>3 DEF GotArtifact, h

LEMMA TracksNeedEntry ==
  ASSUME NEW s, NEW j \in Job, NEW t, OnlyTracks(s, j, t),
         NEW m \in Manifest, NEW d \in Digest
  PROVE  OnlyTracks(s, j, NeedEntry(t, j, m, d))
<1>1. ASSUME NEW u, OnlyTracks(s, j, u)
      PROVE  OnlyTracks(s, j, Depend(u, j, m, d))
  <2> DEFINE v == [u.job[j].deps EXCEPT ![d] = Append(@, m)]
  <2>1. u.job[j].deps \in [Digest -> Seq(Manifest)]
    BY <1>1 DEF OnlyTracks, Awaits
  <2>2. v \in [Digest -> Seq(Manifest)]
    BY <2>1
  <2>3. OnlyTracks(s, j, [u EXCEPT !.job[j].deps = v])
    BY <1>1, <2>2, TracksFields
  <2>4. QED
    BY <2>3 DEF Depend
<1>2. OnlyTracks(s, j, Fetch(t, j, Blob(d)))
  BY KeyForms, TracksFetch
<1>3. OnlyTracks(s, j, FetchEntry(t, j, m, d))
  BY <1>1, <1>2, TracksKeep DEF FetchEntry
<1>4. QED
  BY <1>1, <1>3 DEF NeedEntry

NeedStep(j, m, s, d) == NeedEntry(s, j, m, d)
Needs == INSTANCE FoldTheorems WITH Op <- NeedStep, Inv <- Tracks

LEMMA TracksManifestDigests ==
  ASSUME NEW s, NEW j \in Job, NEW t, OnlyTracks(s, j, t), NEW m \in Manifest
  PROVE  OnlyTracks(s, j, GotManifestDigests(t, j, m))
<1> DEFINE q == SetToSeq(Entries[m])
           r == [s |-> s, j |-> j]
           g == FoldLeft(LAMBDA h, d : NeedEntry(h, j, m, d), t, q)
           left == Cardinality({d \in Entries[m] : m \in ToSet(g.job[j].deps[d])})
           w == [g EXCEPT !.job[j].bottom[m] = WaitingForArtifacts(left)]
<1>1. q \in Seq(Entries[m]) /\ Entries[m] \subseteq Digest /\ m \in Digest
  BY LayersAssumption, SetToSeqOfFinite
<1>2. Tracks(r, 0, t)
  BY DEF Tracks
<1>3. ASSUME NEW a, NEW n \in 1 .. Len(q), q[n] \in Entries[m], Tracks(r, n - 1, a)
      PROVE  Tracks(r, n, NeedStep(j, m, a, q[n]))
  BY <1>1, <1>3, TracksNeedEntry DEF Tracks, NeedStep
<1> HIDE DEF q
<1>4. Tracks(r, Len(q), Needs!Fold(j, m, t, q))
  BY <1>1, <1>2, <1>3, LeastOf, Needs!FoldKeeps
<1>5. Needs!Fold(j, m, t, q) = g
  BY DEF Needs!Fold, NeedStep, FoldLeft, MapThenFoldSet, Max,
         Needs!Greatest
<1>6. OnlyTracks(s, j, g)
  BY <1>4, <1>5 DEF Tracks
<1> HIDE DEF g
<1>7. OnlyTracks(s, j, w)
  <2> HIDE DEF left
  <2>1. w = [g EXCEPT !.job[j].bottom = [@ EXCEPT ![m] = WaitingForArtifacts(left)]]
    OBVIOUS
  <2>2. QED
    BY <1>6, <2>1, TracksFields
<1>8. OnlyTracks(s, j, Panic(t)) /\ OnlyTracks(s, j, FetchBottomFsLayer(g, j, m))
  BY <1>1, <1>6, TracksPanic, TracksFetchBottom
<1> HIDE DEF left
<1>9. QED
  BY <1>7, <1>8 DEF GotManifestDigests, g, q, left

LEMMA TracksFetchBlob ==
  ASSUME NEW s, NEW j \in Job, NEW t, OnlyTracks(s, j, t), NEW d \in Digest
  PROVE  OnlyTracks(s, j, FetchBlob(t, j, d))
<1>1. OnlyTracks(s, j, Fetch(t, j, Blob(d)))
  BY KeyForms, TracksFetch
<1>2. QED
  BY <1>1, TracksGotArtifact DEF FetchBlob

BlobStep(j, o, s, d) == FetchBlob(s, j, d)
Fetches == INSTANCE FoldTheorems WITH Op <- BlobStep, Inv <- Tracks

LEMMA TracksNew ==
  ASSUME NEW s, NEW j \in Job, DOMAIN s = StateFields, DOMAIN s.job = Job,
         CacheTyped(s.cache), DigestsTyped(s.digests)
  PROVE  OnlyTracks(s, j, NewTracker(s, j))
<1> DEFINE q == SetToSeq(ToSet(Layers[j]))
           r == [s |-> s, j |-> j]
           h == [s EXCEPT !.job[j] = EmptyTracker(j)]
<1>1. q \in Seq(ToSet(Layers[j])) /\ ToSet(Layers[j]) \subseteq Digest
  BY LayersTyped, SetToSeqOfFinite
<1>2. Awaits(EmptyTracker(j))
  BY DEF Awaits, EmptyTracker
<1>3. Tracks(r, 0, h)
  BY <1>2 DEF Tracks, OnlyTracks, ReadsStart, StateFields
<1>4. ASSUME NEW a, NEW n \in 1 .. Len(q), q[n] \in ToSet(Layers[j]), Tracks(r, n - 1, a)
      PROVE  Tracks(r, n, BlobStep(j, 0, a, q[n]))
  BY <1>1, <1>4, TracksFetchBlob DEF Tracks, BlobStep
<1> HIDE DEF q, h
<1>5. Tracks(r, Len(q), Fetches!Fold(j, 0, h, q))
  BY <1>1, <1>3, <1>4, LeastOf, Fetches!FoldKeeps
<1>6. Fetches!Fold(j, 0, h, q) = FoldLeft(LAMBDA a, d : FetchBlob(a, j, d), h, q)
  BY DEF Fetches!Fold, BlobStep, FoldLeft, MapThenFoldSet, Max,
         Fetches!Greatest
<1>7. QED
  BY <1>5, <1>6 DEF NewTracker, Tracks, q, h

LEMMA TracksTold ==
  ASSUME NEW s, NEW j \in Job, NEW t, OnlyTracks(s, j, t), NEW k \in Key
  PROVE  OnlyTracks(s, j, Told(t, j, k))
<1>1. CASE k[1] = "blob" /\ k[2] \in Digest
  BY <1>1, TracksGotArtifact DEF Told
<1>2. CASE k[1] = "bottom"
  BY <1>2, TracksGotBottom DEF Told
<1>3. CASE k[1] = "upper"
  BY <1>3, TracksGotUpper DEF Told
<1>4. QED
  BY <1>1, <1>2, <1>3, KeyForms
-----------------------------------------------------------------------------
\* Jobs that may run, and the slots.

IsJob(x) ==
  \/ x = NoJob
  \/ Awaits(x)
  \/ "st" \in DOMAIN x /\ x.st = "available"
  \/ /\ {"st", "mode"} \subseteq DOMAIN x /\ x.st = "executing"
     /\ x.mode \in {"nominal", "canceled", "timedOut"}

IsOpen(x) == x # NoJob /\ ~(x.st = "executing" /\ x.mode = "canceled")

Healthy(s) ==
  /\ DOMAIN s = StateFields
  /\ CacheTyped(s.cache) /\ DigestsTyped(s.digests)
  /\ DOMAIN s.job = Job /\ \A j \in Job : IsJob(s.job[j])
  /\ DOMAIN s.status = Job
  /\ s.responses \in [Job -> Seq({"completed", "timedOut", "error"})]
  /\ IsFiniteSet(InState(s.job, "executing")) /\ IsFiniteSet(InState(s.job, "available"))

\* SlotsUsed, of a state inside a step
SlotsRight(s) ==
  LET executing == Cardinality(InState(s.job, "executing")) IN
  /\ executing <= Slots
  /\ InState(s.job, "available") # {} => executing = Slots

\* From s to t jobs may have gone on, of which the broker may have been told.
Living(jobs) == {j \in Job : jobs[j] # NoJob}

Going(s, t) ==
  /\ Healthy(t)
  /\ t.closed = s.closed /\ t.responses = s.responses
  /\ \A j \in Job : IsOpen(t.job[j]) <=> IsOpen(s.job[j])
  /\ \A j \in Job : t.job[j] = NoJob <=> s.job[j] = NoJob
  /\ \A j \in Job : t.status[j] # s.status[j] => IsOpen(t.job[j])
  /\ ReadsStart(s.digests, t.digests, Living(t.job))

LEMMA GoingTrans ==
  ASSUME NEW s, NEW t, NEW u, Going(s, t), Going(t, u)
  PROVE  Going(s, u)
<1>1. Living(t.job) = Living(u.job)
  BY DEF Going, Living
<1>2. ReadsStart(s.digests, u.digests, Living(u.job))
  BY <1>1 DEF Going, ReadsStart
<1>3. QED
  BY <1>2 DEF Going

LEMMA StatesDiffer ==
  ASSUME NEW x
  PROVE  /\ Awaits(x) => x # NoJob /\ x.st = "awaiting" /\ IsOpen(x)
         /\ x.st = "available" => x # NoJob /\ IsOpen(x)
         /\ x.st = "executing" => x # NoJob
         /\ IsJob(x) /\ x.st = "awaiting" => Awaits(x)
BY DEF Awaits, NoJob, IsOpen, IsJob

LEMMA SendStatusGoing ==
  ASSUME NEW s, NEW j \in Job, NEW st, Healthy(s), IsOpen(s.job[j])
  PROVE  /\ Going(s, SendStatus(s, j, st))
         /\ SendStatus(s, j, st).job = s.job
         /\ SendStatus(s, j, st).cache = s.cache
         /\ SendStatus(s, j, st).tasks = s.tasks
         /\ SendStatus(s, j, st).digests = s.digests
         /\ SendStatus(s, j, st).timers = s.timers
<1> DEFINE t == [s EXCEPT !.status[j] = st]
<1>1. /\ DOMAIN t = StateFields /\ t.cache = s.cache /\ t.job = s.job /\ t.closed = s.closed
      /\ t.responses = s.responses /\ t.tasks = s.tasks /\ t.digests = s.digests
      /\ t.timers = s.timers
      /\ t.status = [s.status EXCEPT ![j] = st]
  BY DEF Healthy, StateFields
<1>2. Healthy(t)
  BY <1>1 DEF Healthy
<1>3. Going(s, t)
  BY <1>1, <1>2 DEF Going, Healthy, ReadsStart
<1>4. Going(s, s)
  BY DEF Going, Healthy, ReadsStart
<1> HIDE DEF t
<1>5. CASE s.closed
  BY <1>4, <1>5 DEF SendStatus
<1>6. CASE ~s.closed
  BY <1>1, <1>3, <1>6 DEF SendStatus, t
<1>7. QED
  BY <1>5, <1>6

\* possibly_start_job
LEMMA StartGoing ==
  ASSUME NEW s, NEW j \in Job, Healthy(s), s.job[j].st = "available"
  PROVE  LET t == Start(s, j) IN
         /\ Going(s, t)
         /\ InState(t.job, "executing") = InState(s.job, "executing") \cup {j}
         /\ InState(t.job, "available") = InState(s.job, "available") \ {j}
         /\ \A i \in Job : s.job[i].st = "awaiting" => t.job[i] = s.job[i]
<1> DEFINE e == Executing("nominal", s.job[j].keys)
           h == [s EXCEPT !.job[j] = e, !.timers = IF j \in Timeout THEN @ \cup {j} ELSE @]
<1>1. /\ DOMAIN h = StateFields /\ h.cache = s.cache /\ h.digests = s.digests /\ h.closed = s.closed
      /\ h.responses = s.responses /\ h.status = s.status
      /\ h.job = [s.job EXCEPT ![j] = e]
  BY DEF Healthy, StateFields
<1> HIDE DEF h
<1>2. IsJob(e) /\ IsOpen(e) /\ e # NoJob /\ e.st = "executing"
  BY DEF IsJob, IsOpen, Executing, NoJob
<1> HIDE DEF e
<1>3. /\ InState(h.job, "executing") = InState(s.job, "executing") \cup {j}
      /\ InState(h.job, "available") = InState(s.job, "available") \ {j}
      /\ \A i \in Job : s.job[i].st = "awaiting" => h.job[i] = s.job[i]
  BY <1>1, <1>2 DEF InState, Healthy
<1>4. /\ IsFiniteSet(InState(h.job, "executing")) /\ IsFiniteSet(InState(h.job, "available"))
  <2>1. IsFiniteSet(InState(s.job, "executing") \cup {j})
    BY FS_AddElement DEF Healthy
  <2>2. IsFiniteSet(InState(s.job, "available") \ {j})
    BY FS_RemoveElement DEF Healthy
  <2>3. QED
    BY <1>3, <2>1, <2>2
<1>5. Healthy(h)
  BY <1>1, <1>2, <1>4 DEF Healthy
<1>6. Going(s, h)
  BY <1>1, <1>2, <1>5, StatesDiffer DEF Going, Healthy, ReadsStart
<1>7. /\ Going(h, SendStatus(h, j, "executing"))
      /\ SendStatus(h, j, "executing").job = h.job
  <2>1. IsOpen(h.job[j])
    BY <1>1, <1>2 DEF Healthy
  <2>2. QED
    BY <1>5, <2>1, SendStatusGoing
<1>8. QED
  BY <1>3, <1>6, <1>7, GoingTrans DEF Start, h, e

\* make_job_available: the job starts, or all slots are taken.
LEMMA MakeAvailableGoing ==
  ASSUME NEW s, NEW j \in Job, Healthy(s), SlotsRight(s), s.job[j].st = "awaiting"
  PROVE  LET t == MakeAvailable(s, j) IN
         /\ Going(s, t) /\ SlotsRight(t)
         /\ \A i \in Job \ {j} : s.job[i].st = "awaiting" => t.job[i] = s.job[i]
<1> DEFINE a == Available(s.job[j].keys)
           h == [s EXCEPT !.job[j] = a]
<1>1. /\ DOMAIN h = StateFields /\ h.cache = s.cache /\ h.digests = s.digests /\ h.closed = s.closed
      /\ h.responses = s.responses /\ h.status = s.status
      /\ h.job = [s.job EXCEPT ![j] = a]
  BY DEF Healthy, StateFields
<1> HIDE DEF h
<1>2. IsJob(a) /\ IsOpen(a) /\ a # NoJob /\ a.st = "available"
  BY DEF IsJob, IsOpen, Available, NoJob
<1> HIDE DEF a
<1> DEFINE executing == InState(s.job, "executing")
<1>3. /\ InState(h.job, "executing") = executing
      /\ InState(h.job, "available") = InState(s.job, "available") \cup {j}
      /\ \A i \in Job \ {j} : s.job[i].st = "awaiting" => h.job[i] = s.job[i]
  BY <1>1, <1>2 DEF InState, Healthy
<1>4. /\ IsFiniteSet(InState(h.job, "executing")) /\ IsFiniteSet(InState(h.job, "available"))
  BY <1>3, FS_AddElement DEF Healthy
<1>5. Healthy(h)
  BY <1>1, <1>2, <1>4 DEF Healthy
<1>6. Going(s, h)
  <2>1. Awaits(s.job[j])
    BY StatesDiffer DEF Healthy
  <2>2. QED
    BY <1>1, <1>2, <1>5, <2>1, StatesDiffer DEF Going, Healthy, ReadsStart
<1>7. Cardinality(executing) \in Nat /\ Slots \in Nat \ {0} /\ Cardinality(executing) <= Slots
  BY FS_CardinalityType, DispatcherAssumption DEF Healthy, SlotsRight
<1>8. CASE Cardinality(executing) < Slots
  <2>1. InState(h.job, "available") = {j}
    BY <1>3, <1>7, <1>8 DEF SlotsRight
  <2>2. Best(h) = {j}
    BY <2>1, DispatcherAssumption DEF Best
  <2>3. MakeAvailable(s, j) = Start(h, j)
    <3>1. CanStart(h)
      BY <1>3, <1>8, <2>2 DEF CanStart
    <3>2. (CHOOSE k \in Best(h) : TRUE) = j
      BY <2>2
    <3>3. QED
      BY <3>1, <3>2 DEF MakeAvailable, h, a
  <2> DEFINE t == Start(h, j)
  <2>4. /\ Going(h, t)
        /\ InState(t.job, "executing") = executing \cup {j}
        /\ InState(t.job, "available") = {}
        /\ \A i \in Job : h.job[i].st = "awaiting" => t.job[i] = h.job[i]
    <3>1. h.job[j].st = "available"
      BY <1>1, <1>2 DEF Healthy
    <3>2. /\ Going(h, t)
          /\ InState(t.job, "executing") = InState(h.job, "executing") \cup {j}
          /\ InState(t.job, "available") = InState(h.job, "available") \ {j}
          /\ \A i \in Job : h.job[i].st = "awaiting" => t.job[i] = h.job[i]
      BY <1>5, <3>1, StartGoing
    <3>3. QED
      BY <1>3, <2>1, <3>2
  <2> HIDE DEF t
  <2>5. Cardinality(executing \cup {j}) = Cardinality(executing) + 1
    <3>1. j \notin executing
      BY DEF InState
    <3>2. QED
      BY <3>1, FS_AddElement DEF Healthy
  <2>6. SlotsRight(t)
    <3>1. Cardinality(InState(t.job, "executing")) = Cardinality(executing) + 1
      BY <2>4, <2>5
    <3>2. InState(t.job, "available") = {}
      BY <2>4
    <3> HIDE DEF executing
    <3>3. Cardinality(executing) + 1 <= Slots
      BY <1>7, <1>8
    <3>4. QED
      BY <3>1, <3>2, <3>3 DEF SlotsRight
  <2>7. Going(s, t)
    BY <1>6, <2>4, GoingTrans
  <2>8. \A i \in Job \ {j} : s.job[i].st = "awaiting" => t.job[i] = s.job[i]
    BY <1>3, <2>4
  <2>9. QED
    BY <2>3, <2>6, <2>7, <2>8 DEF t
<1>9. CASE Cardinality(executing) = Slots
  <2> DEFINE t == SendStatus(h, j, "waiting")
  <2>1. MakeAvailable(s, j) = t
    <3>1. ~CanStart(h)
      BY <1>3, <1>7, <1>9 DEF CanStart
    <3>2. QED
      BY <3>1 DEF MakeAvailable, h, a
  <2>2. Going(h, t) /\ t.job = h.job
    <3>1. IsOpen(h.job[j])
      BY <1>1, <1>2 DEF Healthy
    <3>2. QED
      BY <1>5, <3>1, SendStatusGoing
  <2> HIDE DEF t
  <2>3. SlotsRight(t)
    BY <1>3, <1>7, <1>9, <2>2 DEF SlotsRight
  <2>4. QED
    BY <1>3, <1>6, <2>1, <2>2, <2>3, GoingTrans
<1>10. QED
  BY <1>7, <1>8, <1>9

\* Nothing but the cache has changed, and no key is got for other jobs.
OnlyCache(s, t) ==
  /\ DOMAIN t = StateFields /\ CacheTyped(t.cache) /\ SameWaits(s.cache, t.cache)
  /\ t.job = s.job /\ t.tasks = s.tasks /\ t.digests = s.digests
  /\ t.timers = s.timers /\ t.status = s.status /\ t.responses = s.responses
  /\ t.closed = s.closed

LEMMA OnlyCacheGoing ==
  ASSUME NEW s, NEW t, Healthy(s), OnlyCache(s, t)
  PROVE  Going(s, t) /\ (SlotsRight(s) => SlotsRight(t))
BY DEF Healthy, OnlyCache, Going, SlotsRight, ReadsStart

LEMMA OnlyTracksGoing ==
  ASSUME NEW s, NEW j \in Job, NEW t, Healthy(s), Awaits(s.job[j]), OnlyTracks(s, j, t)
  PROVE  /\ Going(s, t) /\ (SlotsRight(s) => SlotsRight(t))
         /\ InState(t.job, "executing") = InState(s.job, "executing")
         /\ InState(t.job, "available") = InState(s.job, "available")
<1>1. /\ InState(t.job, "executing") = InState(s.job, "executing")
      /\ InState(t.job, "available") = InState(s.job, "available")
  BY DEF InState, OnlyTracks, Awaits
<1>2. \A i \in Job : IsJob(t.job[i])
  BY DEF OnlyTracks, Healthy, IsJob
<1>3. Healthy(t)
  BY <1>1, <1>2 DEF Healthy, OnlyTracks
<1>4. \A i \in Job : /\ IsOpen(t.job[i]) <=> IsOpen(s.job[i])
                     /\ t.job[i] = NoJob <=> s.job[i] = NoJob
  <2>1. IsOpen(t.job[j]) /\ IsOpen(s.job[j]) /\ t.job[j] # NoJob /\ s.job[j] # NoJob
    BY StatesDiffer DEF OnlyTracks
  <2>2. QED
    BY <2>1 DEF OnlyTracks
<1>5. ReadsStart(s.digests, t.digests, Living(t.job))
  <2>1. t.job[j] # NoJob
    BY StatesDiffer DEF OnlyTracks
  <2>2. {j} \subseteq Living(t.job)
    BY <2>1 DEF Living
  <2>3. QED
    BY <2>2 DEF OnlyTracks, ReadsStart
<1>6. QED
  BY <1>1, <1>3, <1>4, <1>5 DEF Going, OnlyTracks, SlotsRight

\* advance_job, for whatever the tracker was told
LEMMA AdvanceGoing ==
  ASSUME NEW s, NEW j \in Job, NEW k \in Key, NEW told, Healthy(s), SlotsRight(s),
         Awaits(s.job[j]) => OnlyTracks(s, j, told)
  PROVE  LET t == AdvanceJob(s, j, k, told) IN
         /\ Going(s, t) /\ SlotsRight(t)
         /\ s.job[j].st # "awaiting" => OnlyCache(s, t)
         /\ \A i \in Job \ {j} : s.job[i].st = "awaiting" => t.job[i] = s.job[i]
<1> DEFINE t == AdvanceJob(s, j, k, told)
<1>1. CASE s.job[j].st # "awaiting"
  <2>1. /\ CacheTyped(Cache!Decremented(s.cache, k))
        /\ SameWaits(s.cache, Cache!Decremented(s.cache, k))
    BY DecrementedTyped DEF Healthy
  <2>2. t = [s EXCEPT !.cache = Cache!Decremented(@, k)]
    BY <1>1 DEF AdvanceJob
  <2>3. OnlyCache(s, t)
    BY <2>1, <2>2 DEF OnlyCache, Healthy, StateFields
  <2> HIDE DEF t
  <2>4. QED
    BY <2>3, OnlyCacheGoing DEF OnlyCache, t
<1>2. CASE s.job[j].st = "awaiting"
  <2>1. Awaits(s.job[j]) /\ OnlyTracks(s, j, told)
    BY <1>2, StatesDiffer DEF Healthy
  <2>2. Going(s, told) /\ SlotsRight(told) /\ Healthy(told)
    BY <2>1, OnlyTracksGoing DEF Going
  <2>3. told.job[j].st = "awaiting"
        /\ \A i \in Job \ {j} : told.job[i] = s.job[i]
    BY <2>1 DEF OnlyTracks, Awaits
  <2>4. /\ Going(told, MakeAvailable(told, j)) /\ SlotsRight(MakeAvailable(told, j))
        /\ \A i \in Job \ {j} : told.job[i].st = "awaiting"
             => MakeAvailable(told, j).job[i] = told.job[i]
    BY <2>2, <2>3, MakeAvailableGoing
  <2>5. t \in {told, MakeAvailable(told, j)}
    BY <1>2 DEF AdvanceJob
  <2> HIDE DEF t
  <2>6. QED
    BY <1>2, <2>2, <2>3, <2>4, <2>5, GoingTrans DEF t
<1>3. QED
  BY <1>1, <1>2

Advances(s, n, t) ==
  /\ Going(s, t) /\ SlotsRight(t)
  /\ (\A j \in Job : s.job[j].st # "awaiting") => OnlyCache(s, t)

AdvanceStep(k, o, s, j) == AdvanceJob(s, j, k, Told(s, j, k))
Advancing == INSTANCE FoldTheorems WITH Op <- AdvanceStep, Inv <- Advances

\* cache_fill_success, after the cache has changed
LEMMA AdvanceAllGoing ==
  ASSUME NEW s, NEW k \in Key, NEW q \in Seq(Job), Healthy(s), SlotsRight(s)
  PROVE  Advances(s, 0, FoldLeft(LAMBDA h, j : AdvanceJob(h, j, k, Told(h, j, k)), s, q))
<1>1. Advances(s, 0, s)
  BY DEF Advances, Going, OnlyCache, Healthy, SameWaits, ReadsStart
<1>2. ASSUME NEW a, NEW n \in 1 .. Len(q), q[n] \in Job, Advances(s, n - 1, a)
      PROVE  Advances(s, n, AdvanceStep(k, 0, a, q[n]))
  <2> DEFINE t == AdvanceStep(k, 0, a, q[n])
  <2>1. Healthy(a) /\ SlotsRight(a) /\ Going(s, a)
    BY <1>2 DEF Advances, Going
  <2>2. Awaits(a.job[q[n]]) => OnlyTracks(a, q[n], Told(a, q[n], k))
    <3>1. Awaits(a.job[q[n]]) => OnlyTracks(a, q[n], a)
      BY <2>1 DEF OnlyTracks, Healthy, ReadsStart
    <3>2. QED
      BY <1>2, <3>1, TracksTold
  <2>3. /\ Going(a, t) /\ SlotsRight(t)
        /\ a.job[q[n]].st # "awaiting" => OnlyCache(a, t)
    BY <1>2, <2>1, <2>2, AdvanceGoing DEF AdvanceStep
  <2> HIDE DEF t
  <2>4. Going(s, t)
    BY <2>1, <2>3, GoingTrans
  <2>5. ASSUME \A j \in Job : s.job[j].st # "awaiting"
        PROVE  OnlyCache(s, t)
    <3>1. OnlyCache(s, a) /\ a.job[q[n]].st # "awaiting"
      BY <1>2, <2>5 DEF Advances, OnlyCache
    <3>2. OnlyCache(a, t)
      BY <2>3, <3>1
    <3>3. SameWaits(s.cache, t.cache)
      BY <3>1, <3>2, SameWaitsTrans DEF OnlyCache
    <3>4. QED
      BY <3>1, <3>2, <3>3 DEF OnlyCache
  <2>6. QED
    BY <2>3, <2>4, <2>5 DEF Advances, t
<1>3. Advances(s, Len(q), Advancing!Fold(k, 0, s, q))
  BY <1>1, <1>2, LeastOf, Advancing!FoldKeeps
<1>4. Advancing!Fold(k, 0, s, q)
        = FoldLeft(LAMBDA h, j : AdvanceJob(h, j, k, Told(h, j, k)), s, q)
  BY DEF Advancing!Fold, AdvanceStep, FoldLeft, MapThenFoldSet, Max,
         Advancing!Greatest
<1>5. QED
  BY <1>3, <1>4 DEF Advances

-----------------------------------------------------------------------------
\* Jobs that end.

LetStep(keys, o, c, k) == IF k \in keys THEN Cache!Decremented(c, k) ELSE c
LetInv(r, n, c) == CacheTyped(c) /\ SameWaits(r, c)
Letting == INSTANCE FoldTheorems WITH Op <- LetStep, Inv <- LetInv

LEMMA ReleaseOnlyCache ==
  ASSUME NEW s, NEW keys, NEW ord \in KeyOrders, DOMAIN s = StateFields, CacheTyped(s.cache)
  PROVE  OnlyCache(s, Release(s, keys, ord))
<1>1. ord \in Seq(Key)
  BY DispatcherAssumption
<1>2. LetInv(s.cache, 0, s.cache)
  BY DEF LetInv, SameWaits
<1>3. ASSUME NEW a, NEW n \in 1 .. Len(ord), ord[n] \in Key, LetInv(s.cache, n - 1, a)
      PROVE  LetInv(s.cache, n, LetStep(keys, 0, a, ord[n]))
  <2>1. CacheTyped(a) /\ SameWaits(s.cache, a)
    BY <1>3 DEF LetInv
  <2>2. /\ CacheTyped(Cache!Decremented(a, ord[n]))
        /\ SameWaits(a, Cache!Decremented(a, ord[n]))
    BY <1>3, <2>1, DecrementedTyped
  <2>3. SameWaits(s.cache, Cache!Decremented(a, ord[n]))
    BY <2>1, <2>2, SameWaitsTrans
  <2>4. QED
    BY <2>1, <2>2, <2>3 DEF LetInv, LetStep
<1> DEFINE c == Letting!Fold(keys, 0, s.cache, ord)
<1>4. LetInv(s.cache, Len(ord), c)
  BY <1>1, <1>2, <1>3, LeastOf, Letting!FoldKeeps
<1>5. Release(s, keys, ord) = [s EXCEPT !.cache = c]
  BY DEF Release, Letting!Fold, LetStep, FoldLeft, MapThenFoldSet, Max,
         Letting!Greatest
<1> HIDE DEF c
<1>6. QED
  BY <1>4, <1>5 DEF OnlyCache, LetInv, StateFields

\* From s to t jobs that awaited their layers may have failed.
Failing(s, t) ==
  /\ Healthy(t)
  /\ t.tasks = s.tasks /\ t.digests = s.digests /\ t.timers = s.timers
  /\ t.status = s.status /\ t.closed = s.closed
  /\ SameWaits(s.cache, t.cache)
  /\ \A j \in Job :
       \/ t.job[j] = s.job[j] /\ t.responses[j] = s.responses[j]
       \/ /\ Awaits(s.job[j]) /\ t.job[j] = NoJob
          /\ t.responses[j] = IF s.closed THEN s.responses[j]
                              ELSE Append(s.responses[j], "error")

LEMMA FailingTrans ==
  ASSUME NEW s, NEW t, NEW u, Failing(s, t), Failing(t, u)
  PROVE  Failing(s, u)
<1>1. SameWaits(s.cache, u.cache)
  BY SameWaitsTrans DEF Failing
<1>2. ASSUME NEW j \in Job
      PROVE \/ u.job[j] = s.job[j] /\ u.responses[j] = s.responses[j]
            \/ /\ Awaits(s.job[j]) /\ u.job[j] = NoJob
               /\ u.responses[j] = IF s.closed THEN s.responses[j]
                                   ELSE Append(s.responses[j], "error")
  BY StatesDiffer DEF Failing
<1>3. QED
  BY <1>1, <1>2 DEF Failing

LEMMA FailingSlots ==
  ASSUME NEW s, NEW t, DOMAIN s.job = Job, Failing(s, t)
  PROVE  /\ InState(t.job, "executing") = InState(s.job, "executing")
         /\ InState(t.job, "available") = InState(s.job, "available")
         /\ SlotsRight(s) => SlotsRight(t)
<1>1. \A j \in Job : \/ t.job[j] = s.job[j]
                     \/ s.job[j].st = "awaiting" /\ t.job[j].st = "none"
  BY DEF Failing, Awaits, NoJob
<1>2. /\ InState(t.job, "executing") = InState(s.job, "executing")
      /\ InState(t.job, "available") = InState(s.job, "available")
  BY <1>1 DEF InState
<1>3. QED
  BY <1>2 DEF SlotsRight

\* job_failure
LEMMA JobFails ==
  ASSUME NEW s, NEW j \in Job, NEW ord \in KeyOrders, Healthy(s)
  PROVE  /\ Failing(s, JobFailure(s, j, ord))
         /\ JobFailure(s, j, ord).job[j].st # "awaiting"
         /\ \A i \in Job \ {j} : JobFailure(s, j, ord).job[i] = s.job[i]
<1> DEFINE r == Respond(s, j, "error")
           h == [r EXCEPT !.job[j] = NoJob]
           t == Release(h, s.job[j].keys, ord)
           err == IF s.closed THEN s.responses
                  ELSE [s.responses EXCEPT ![j] = Append(@, "error")]
<1>1. CASE s.job[j].st # "awaiting"
  <2>1. JobFailure(s, j, ord) = s
    BY <1>1 DEF JobFailure
  <2>2. Failing(s, s)
    BY DEF Failing, SameWaits
  <2>3. QED
    BY <1>1, <2>1, <2>2
<1>2. CASE s.job[j].st = "awaiting"
  <2>1. Awaits(s.job[j])
    BY <1>2, StatesDiffer DEF Healthy
  <2>2. /\ DOMAIN h = StateFields /\ h.cache = s.cache /\ h.tasks = s.tasks
        /\ h.digests = s.digests /\ h.timers = s.timers /\ h.status = s.status
        /\ h.closed = s.closed /\ h.job = [s.job EXCEPT ![j] = NoJob]
        /\ h.responses = err
    BY DEF Respond, Healthy, StateFields
  <2> HIDE DEF h
  <2>3. /\ err \in [Job -> Seq({"completed", "timedOut", "error"})]
        /\ \A i \in Job \ {j} : err[i] = s.responses[i]
        /\ err[j] = IF s.closed THEN s.responses[j] ELSE Append(s.responses[j], "error")
    BY DEF Healthy
  <2> HIDE DEF err
  <2>4. OnlyCache(h, t)
    BY <2>2, ReleaseOnlyCache DEF Healthy
  <2> HIDE DEF t
  <2>5. /\ InState(h.job, "executing") = InState(s.job, "executing")
        /\ InState(h.job, "available") = InState(s.job, "available")
    BY <1>2, <2>2 DEF InState, NoJob, Healthy
  <2>6. Healthy(h)
    BY <2>2, <2>3, <2>5 DEF Healthy, IsJob
  <2>7. Healthy(t)
    BY <2>4, <2>6, OnlyCacheGoing DEF Going
  <2>8. t.job[j] = NoJob /\ \A i \in Job \ {j} : t.job[i] = s.job[i]
    BY <2>2, <2>4 DEF OnlyCache, Healthy
  <2>9. Failing(s, t)
    BY <2>1, <2>2, <2>3, <2>4, <2>7, <2>8 DEF Failing, OnlyCache
  <2>10. JobFailure(s, j, ord) = t
    BY <1>2 DEF JobFailure, t, h
  <2>11. t.job[j].st # "awaiting"
    BY <2>8 DEF NoJob
  <2>12. QED
    BY <2>8, <2>9, <2>10, <2>11
<1>3. QED
  BY <1>1, <1>2

\* r has the state s before and the jobs q that fail.
Fails(r, n, t) == Failing(r.s, t) /\ \A i \in Job \ ToSet(r.q) : t.job[i] = r.s.job[i]

FailStep(ord, o, s, j) == JobFailure(s, j, ord)
Failures == INSTANCE FoldTheorems WITH Op <- FailStep, Inv <- Fails

LEMMA AllFail ==
  ASSUME NEW s, NEW ord \in KeyOrders, NEW q \in Seq(Job), Healthy(s)
  PROVE  LET t == FoldLeft(LAMBDA h, j : JobFailure(h, j, ord), s, q) IN
         Failing(s, t) /\ \A i \in Job \ ToSet(q) : t.job[i] = s.job[i]
<1> DEFINE r == [s |-> s, q |-> q]
<1>1. Fails(r, 0, s)
  BY DEF Fails, Failing, SameWaits
<1>2. ASSUME NEW a, NEW n \in 1 .. Len(q), q[n] \in Job, Fails(r, n - 1, a)
      PROVE  Fails(r, n, FailStep(ord, 0, a, q[n]))
  <2>1. Failing(s, a) /\ Healthy(a) /\ \A i \in Job \ ToSet(q) : a.job[i] = s.job[i]
    BY <1>2 DEF Fails, Failing
  <2>2. /\ Failing(a, JobFailure(a, q[n], ord))
        /\ \A i \in Job \ {q[n]} : JobFailure(a, q[n], ord).job[i] = a.job[i]
    BY <1>2, <2>1, JobFails
  <2>3. q[n] \in ToSet(q)
    BY DEF ToSet
  <2>4. Failing(s, JobFailure(a, q[n], ord))
    BY <2>1, <2>2, FailingTrans
  <2>5. QED
    BY <2>1, <2>2, <2>3, <2>4 DEF Fails, FailStep
<1>3. Fails(r, Len(q), Failures!Fold(ord, 0, s, q))
  BY <1>1, <1>2, LeastOf, Failures!FoldKeeps
<1>4. Failures!Fold(ord, 0, s, q) = FoldLeft(LAMBDA h, j : JobFailure(h, j, ord), s, q)
  BY DEF Failures!Fold, FailStep, FoldLeft, MapThenFoldSet, Max,
         Failures!Greatest
<1>5. QED
  BY <1>3, <1>4 DEF Fails

\* Of finitely many available jobs one is best.
LEMMA SomeBest ==
  ASSUME NEW s, IsFiniteSet(InState(s.job, "available")), InState(s.job, "available") # {}
  PROVE  Best(s) # {}
<1> DEFINE D == InState(s.job, "available")
           Above(j) == {k \in D : ~(Rank[k] <= Rank[j])}
           counts == {Cardinality(Above(j)) : j \in D}
<1>1. D \subseteq Job /\ \A j \in D : Rank[j] \in Nat
  BY DispatcherAssumption DEF InState
<1> HIDE DEF D
<1>2. ASSUME NEW j \in D
      PROVE  IsFiniteSet(Above(j)) /\ Cardinality(Above(j)) \in Nat
  <2>1. IsFiniteSet(D) /\ Above(j) \subseteq D
    BY DEF D
  <2>2. QED
    BY <2>1, FS_Subset, FS_CardinalityType
<1>3. counts \in SUBSET Nat /\ counts # {}
  BY <1>2 DEF D
<1>4. PICK m \in counts : \A n \in counts : ~(n < m)
  BY <1>3, LeastOf
<1>5. PICK j \in D : m = Cardinality(Above(j))
  BY <1>4
<1>6. ASSUME NEW k \in D, ~(Rank[k] <= Rank[j])
      PROVE  FALSE
  <2>1. Above(k) \subseteq Above(j)
    BY <1>1, <1>6
  <2>2. k \in Above(j) /\ k \notin Above(k)
    BY <1>1, <1>6
  <2>3. Cardinality(Above(k)) <= Cardinality(Above(j)) /\ Cardinality(Above(k)) # Cardinality(Above(j))
    BY <1>2, <2>1, <2>2, FS_Subset
  <2>4. Cardinality(Above(k)) \in counts
    OBVIOUS
  <2> HIDE DEF Above
  <2>5. Cardinality(Above(k)) < m
    BY <1>2, <1>5, <2>3
  <2>6. QED
    BY <1>4, <2>4, <2>5
<1>7. QED
  BY <1>5, <1>6 DEF Best, D

-----------------------------------------------------------------------------
\* The steps.

\* What the step does to the reads, and which jobs it may end.
Ending(J) ==
  /\ ReadsStart(digests, digests', Living(job'))
  /\ \A j \in Job \ J : job'[j] = NoJob => job[j] = NoJob

Control ==
  /\ Healthy(Now) /\ SlotsRight(Now)
  /\ shutDown \in BOOLEAN
  /\ shutDown => \A j \in Job : ~IsOpen(job[j])
  /\ enqueued \subseteq Job /\ cancelled \subseteq enqueued
  /\ \A j \in Job \ enqueued : job[j] = NoJob /\ responses[j] = <<>>

LEMMA ControlInit ==
  ASSUME Init
  PROVE  Control /\ Service!Init
<1>1. \A j \in Job : job[j] = NoJob /\ responses[j] = <<>> /\ status[j] = "none"
  BY DEF Init
<1>2. InState(job, "executing") = {} /\ InState(job, "available") = {}
  BY <1>1 DEF InState, NoJob
<1>3. CacheTyped(cache) /\ DigestsTyped(digests)
  BY DEF Init, CacheTyped, Cache!EmptyCache, CacheEntry, DigestsTyped, Digests!EmptyDigestCache
<1>4. Healthy(Now)
  <2>1. IsFiniteSet({})
    BY FS_EmptySet
  <2>2. DOMAIN Now = StateFields
    BY DEF Now, StateFields
  <2>3. responses \in [Job -> Seq({"completed", "timedOut", "error"})]
    BY DEF Init
  <2>4. /\ DOMAIN job = Job /\ (\A j \in Job : IsJob(job[j])) /\ DOMAIN status = Job
    BY <1>1 DEF Init, IsJob
  <2>5. QED
    BY <1>2, <1>3, <2>1, <2>2, <2>3, <2>4 DEF Healthy, Now
<1>5. SlotsRight(Now)
  <2>1. Cardinality({}) = 0
    BY FS_EmptySet
  <2>2. Now.job = job
    BY DEF Now
  <2>3. Cardinality(InState(Now.job, "executing")) = 0 /\ InState(Now.job, "available") = {}
    BY <1>2, <2>1, <2>2
  <2>4. Slots \in Nat
    BY DispatcherAssumption
  <2>5. QED
    BY <2>3, <2>4 DEF SlotsRight
<1>6. Open = {}
  BY <1>1 DEF Open
<1>7. Service!Init
  <2>1. [j \in Job |-> Len(responses[j])] = [j \in Job |-> 0]
    BY <1>1
  <2>2. (IF shutDown THEN Job ELSE cancelled) = {} /\ status = [j \in Job |-> "none"]
    BY DEF Init
  <2>3. QED
    BY <1>6, <2>1, <2>2 DEF Service!Init
<1>8. Control
  BY <1>1, <1>4, <1>5 DEF Control, Init
<1>9. QED
  BY <1>7, <1>8

LEMMA NowHealthy ==
  ASSUME NEW t, Healthy(t), Become(t)
  PROVE  Healthy(Now)' /\ (SlotsRight(t) => SlotsRight(Now)')
BY DEF Healthy, Become, Now, SlotsRight, StateFields

LEMMA OpenIsOpen ==
  \A j \in Job : j \in Open <=> IsOpen(job[j])
BY DEF Open, IsOpen

LEMMA GoingStep ==
  ASSUME Control, NEW t, Going(Now, t), SlotsRight(t), Become(t),
         UNCHANGED <<shutDown, enqueued, cancelled>>
  PROVE  Control' /\ Service!Tell /\ Ending({})
<1>1. Healthy(Now)' /\ SlotsRight(Now)'
  BY NowHealthy DEF Going
<1>2. /\ responses' = responses
      /\ \A j \in Job : /\ IsOpen(job'[j]) <=> IsOpen(job[j])
                        /\ job'[j] = NoJob <=> job[j] = NoJob
                        /\ status'[j] # status[j] => IsOpen(job'[j])
  BY DEF Going, Become, Now
<1>3. Control' /\ Ending({})
  <2>1. Control'
    BY <1>1, <1>2 DEF Control
  <2>2. ReadsStart(digests, digests', Living(job'))
    BY DEF Going, Become, Now
  <2>3. QED
    BY <1>2, <2>1, <2>2 DEF Ending
<1>4. Open' = Open /\ \A j \in Job : IsOpen(job'[j]) => j \in Open'
  BY <1>2 DEF Open, IsOpen
<1>5. Service!TellOpen
  BY <1>2, <1>4 DEF Service!TellOpen
<1>6. Service!Tell
  BY <1>2, <1>4, <1>5 DEF Service!Tell
<1>7. QED
  BY <1>3, <1>6

\* Jobs fail together.
LEMMA FailingStep ==
  ASSUME Control, NEW s, s.job = job, s.responses = responses, s.status = status,
         s.closed = shutDown, NEW t, Failing(s, t), Become(t),
         UNCHANGED <<shutDown, enqueued, cancelled>>
  PROVE  /\ Control' /\ Service!Next
         /\ InState(job', "executing") = InState(job, "executing")
         /\ status' = status /\ (shutDown => responses' = responses)
<1> DEFINE J == {j \in Job : Awaits(job[j]) /\ job'[j] = NoJob}
           abandoned == IF shutDown THEN Job ELSE cancelled
           answers == [j \in Job |-> Len(responses[j])]
<1>1. /\ DOMAIN job = Job /\ DOMAIN job' = Job /\ Healthy(Now)' /\ SlotsRight(Now)'
      /\ responses \in [Job -> Seq({"completed", "timedOut", "error"})]
      /\ responses' \in [Job -> Seq({"completed", "timedOut", "error"})]
  <2>1. DOMAIN job = Job /\ SlotsRight(s) /\ Healthy(t)
        /\ responses \in [Job -> Seq({"completed", "timedOut", "error"})]
    BY DEF Control, Healthy, Now, SlotsRight, Failing
  <2>2. SlotsRight(t)
    BY <2>1, FailingSlots
  <2>3. Healthy(Now)' /\ SlotsRight(Now)'
    BY <2>1, <2>2, NowHealthy
  <2>4. QED
    BY <2>1, <2>3 DEF Healthy, Now
<1>2. /\ status' = status
      /\ \A j \in Job \ J : job'[j] = job[j] /\ responses'[j] = responses[j]
      /\ \A j \in J : /\ Awaits(job[j]) /\ job'[j] = NoJob
                      /\ responses'[j] = IF shutDown THEN responses[j]
                                         ELSE Append(responses[j], "error")
  <2>1. \A j \in Job :
          \/ job'[j] = job[j] /\ responses'[j] = responses[j]
          \/ /\ Awaits(job[j]) /\ job'[j] = NoJob
             /\ responses'[j] = IF shutDown THEN responses[j]
                                ELSE Append(responses[j], "error")
    BY DEF Failing, Become
  <2>2. status' = status
    BY DEF Failing, Become
  <2>3. QED
    BY <2>1, <2>2, StatesDiffer
<1>3. shutDown => J = {}
  BY StatesDiffer DEF Control
<1>4. J \subseteq Open /\ Open' = Open \ J
  BY <1>2, StatesDiffer DEF Open, IsOpen
<1>5. Control'
  BY <1>1, <1>2, <1>4, StatesDiffer DEF Control, IsOpen
<1>6. InState(job', "executing") = InState(job, "executing")
  BY <1>1, FailingSlots DEF Become
<1>7. CASE J = {}
  <2>1. responses' = responses
    BY <1>1, <1>2, <1>7
  <2>2. Open' = Open
    BY <1>4, <1>7
  <2>3. Service!Tell
    BY <1>2, <2>1, <2>2 DEF Service!Tell, Service!TellOpen
  <2>4. QED
    BY <1>2, <1>5, <1>6, <2>1, <2>3 DEF Service!Next
<1>8. CASE J # {}
  <2>1. ~shutDown
    BY <1>3, <1>8
  <2>2. \A j \in Job : Len(responses'[j]) = Len(responses[j]) + (IF j \in J THEN 1 ELSE 0)
    <3>1. \A j \in J : responses'[j] = Append(responses[j], "error")
      BY <1>2, <2>1
    <3> HIDE DEF J
    <3>2. QED
      BY <1>1, <1>2, <3>1
  <2>3. PICK K \in SUBSET Job : K = J
    OBVIOUS
  <2>4. Service!Answer(K)
    BY <1>2, <1>4, <1>8, <2>2, <2>3 DEF Service!Answer, Service!TellOpen
  <2>5. Service!Next
    BY <2>4 DEF Service!Next
  <2>6. QED
    BY <1>2, <1>5, <1>6, <2>1, <2>5
<1>9. QED
  BY <1>7, <1>8

LEMMA NowFields ==
  /\ DOMAIN Now = StateFields /\ Now.cache = cache /\ Now.job = job /\ Now.tasks = tasks
  /\ Now.digests = digests /\ Now.timers = timers /\ Now.status = status
  /\ Now.responses = responses /\ Now.closed = shutDown
BY DEF Now, StateFields

LEMMA EnqueueStep ==
  ASSUME Control, NEW j \in Job, EnqueueJob(j)
  PROVE  Control' /\ Service!Next /\ Ending({})
<1>1. /\ j \notin enqueued /\ enqueued' = enqueued \cup {j}
      /\ UNCHANGED <<shutDown, cancelled>>
      /\ job[j] = NoJob /\ responses[j] = <<>> /\ j \notin cancelled
  BY DEF EnqueueJob, Control
<1>2. CASE shutDown
  <2>1. Become(Now)
    BY <1>2 DEF EnqueueJob
  <2>2. UNCHANGED <<cache, job, tasks, digests, timers, status, responses, shutDown, cancelled>>
    BY <1>1, <2>1, NowFields DEF Become
  <2>3. Control'
    BY <1>1, <2>2 DEF Control, Now, Healthy, SlotsRight
  <2>4. Open' = Open
    BY <2>2 DEF Open
  <2>5. Service!Tell
    BY <2>2, <2>4 DEF Service!Tell, Service!TellOpen
  <2>6. QED
    BY <2>2, <2>3, <2>5 DEF Service!Next, Ending, ReadsStart
<1>3. CASE ~shutDown
  <2> DEFINE e == EmptyTracker(j)
             b == [Now EXCEPT !.job[j] = e]
             s == NewTracker(Now, j)
  <2>1. Healthy(Now) /\ SlotsRight(Now)
    BY DEF Control
  <2>2. Awaits(e)
    BY DEF Awaits, EmptyTracker
  <2> HIDE DEF e
  <2>3. /\ DOMAIN b = StateFields /\ b.cache = cache /\ b.job = [job EXCEPT ![j] = e]
        /\ b.status = status /\ b.responses = responses /\ b.closed = shutDown
        /\ b.timers = timers /\ b.digests = digests
    BY NowFields DEF StateFields
  <2> HIDE DEF b
  <2>4. OnlyTracks(Now, j, s)
    BY <2>1, NowFields, TracksNew DEF Healthy
  <2> HIDE DEF s
  <2>5. DOMAIN job = Job /\ DOMAIN b.job = Job /\ b.job[j] = e
        /\ \A i \in Job \ {j} : b.job[i] = job[i]
    BY <2>1, <2>3, NowFields DEF Healthy
  <2>6. OnlyTracks(b, j, s)
    BY <2>3, <2>4, <2>5, NowFields DEF OnlyTracks
  <2>7. /\ InState(b.job, "executing") = InState(job, "executing")
        /\ InState(b.job, "available") = InState(job, "available")
    BY <1>1, <2>2, <2>5 DEF InState, Awaits, NoJob
  <2>8. \A i \in Job : IsJob(b.job[i])
    BY <2>1, <2>2, <2>5, NowFields DEF IsJob, Healthy
  <2>9. Healthy(b) /\ SlotsRight(b)
    BY <2>1, <2>3, <2>5, <2>7, <2>8, NowFields DEF Healthy, SlotsRight
  <2>10. Going(b, s) /\ SlotsRight(s) /\ Healthy(s) /\ IsOpen(s.job[j])
         /\ s.job[j].st = "awaiting"
    BY <2>2, <2>5, <2>6, <2>9, OnlyTracksGoing, StatesDiffer DEF Going, OnlyTracks
  <2>11. Going(s, MakeAvailable(s, j)) /\ SlotsRight(MakeAvailable(s, j))
    BY <2>10, MakeAvailableGoing
  <2>12. Going(s, SendStatus(s, j, "layers")) /\ SlotsRight(SendStatus(s, j, "layers"))
    BY <2>10, SendStatusGoing DEF SlotsRight
  <2>13. PICK t : Become(t) /\ t \in {MakeAvailable(s, j), SendStatus(s, j, "layers")}
    BY <1>3 DEF EnqueueJob, s
  <2>14. Going(b, t) /\ SlotsRight(t)
    BY <2>10, <2>11, <2>12, <2>13, GoingTrans
  <2>15. Healthy(Now)' /\ SlotsRight(Now)'
    BY <2>13, <2>14, NowHealthy DEF Going
  <2>16. /\ responses' = responses
         /\ \A i \in Job \ {j} : /\ IsOpen(job'[i]) <=> IsOpen(job[i])
                                 /\ job'[i] = NoJob <=> job[i] = NoJob
         /\ IsOpen(job'[j])
         /\ \A i \in Job : status'[i] # status[i] => IsOpen(job'[i])
    BY <2>2, <2>3, <2>5, <2>13, <2>14, StatesDiffer DEF Going, Become
  <2>17. Control'
    BY <1>1, <1>3, <2>15, <2>16 DEF Control
  <2>18. Open' = Open \cup {j} /\ j \notin Open
    BY <1>1, <2>16 DEF Open, IsOpen
  <2>19. Service!TellOpen
    BY <2>16, <2>18 DEF Service!TellOpen, Open, IsOpen
  <2>20. Service!Request(j)
    BY <1>1, <1>3, <2>16, <2>18, <2>19 DEF Service!Request
  <2>21. Ending({})
    <3>1. ReadsStart(digests, digests', Living(job'))
      BY <2>3, <2>13, <2>14 DEF Going, Become
    <3>2. QED
      BY <1>1, <2>16, <3>1 DEF Ending
  <2>22. QED
    BY <2>17, <2>20, <2>21 DEF Service!Next
<1>4. QED
  BY <1>2, <1>3

LEMMA AbandonStep ==
  ASSUME Control, NEW j \in enqueued, NEW t, Healthy(t), SlotsRight(t), Become(t),
         t.responses = responses, t.status = status,
         ~IsOpen(t.job[j]), \A i \in Job \ {j} : t.job[i] = job[i],
         cancelled' = cancelled \cup {j}, UNCHANGED <<shutDown, enqueued>>
  PROVE  Control' /\ Service!Next
<1>1. Healthy(Now)' /\ SlotsRight(Now)'
  BY NowHealthy
<1>2. /\ responses' = responses /\ status' = status
      /\ ~IsOpen(job'[j]) /\ \A i \in Job \ {j} : job'[i] = job[i]
      /\ j \in Job
  BY DEF Become, Control
<1>3. Control'
  BY <1>1, <1>2 DEF Control
<1>4. Open' = Open \ {j}
  BY <1>2 DEF Open, IsOpen
<1>5. Service!Abandon({j})
  BY <1>2, <1>4 DEF Service!Abandon
<1>6. QED
  BY <1>2, <1>3, <1>5 DEF Service!Next

LEMMA CancelStep ==
  ASSUME Control, NEW j \in Job, CancelJob(j)
  PROVE  Control' /\ Service!Next /\ Ending({j}) /\ digests' = digests
<1>1. /\ j \in enqueued /\ cancelled' = cancelled \cup {j} /\ UNCHANGED <<shutDown, enqueued>>
  BY DEF CancelJob
<1>2. /\ Healthy(Now) /\ SlotsRight(Now) /\ DOMAIN job = Job /\ IsJob(job[j])
  BY NowFields DEF Control, Healthy
<1>3. CASE job[j].st = "none"
  <2>1. Become(Now)
    BY <1>3 DEF CancelJob
  <2>2. job[j] = NoJob
    BY <1>2, <1>3 DEF IsJob, Awaits
  <2>3. ~IsOpen(Now.job[j]) /\ \A i \in Job \ {j} : Now.job[i] = job[i]
    BY <2>2, NowFields DEF IsOpen
  <2>4. QED
    BY <1>1, <1>2, <2>1, <2>3, NowFields, AbandonStep DEF Become, Ending, ReadsStart
<1>4. CASE job[j].st = "executing"
  <2> DEFINE x == [job[j] EXCEPT !.mode = "canceled"]
             t == [Now EXCEPT !.job[j].mode = "canceled"]
  <2>1. Become(t)
    BY <1>4 DEF CancelJob
  <2>2. /\ DOMAIN t = StateFields /\ t.cache = cache /\ t.digests = digests /\ t.status = status
        /\ t.responses = responses /\ t.job = [job EXCEPT ![j] = x]
    BY NowFields DEF StateFields
  <2> HIDE DEF t
  <2>3. IsJob(x) /\ ~IsOpen(x) /\ x.st = "executing"
    BY <1>2, <1>4 DEF IsJob, IsOpen, Awaits, NoJob
  <2> HIDE DEF x
  <2>4. /\ InState(t.job, "executing") = InState(job, "executing")
        /\ InState(t.job, "available") = InState(job, "available")
    BY <1>2, <1>4, <2>2, <2>3 DEF InState
  <2>5. t.job[j] = x /\ \A i \in Job \ {j} : t.job[i] = job[i]
    BY <1>2, <2>2
  <2>6. \A i \in Job : IsJob(t.job[i])
    BY <1>2, <2>3, <2>5, NowFields DEF Healthy
  <2>7. Healthy(t) /\ SlotsRight(t)
    BY <1>2, <2>2, <2>4, <2>6, NowFields DEF Healthy, SlotsRight
  <2>8. QED
    BY <1>1, <2>1, <2>2, <2>3, <2>5, <2>7, AbandonStep DEF Become, Ending, ReadsStart
<1>5. CASE job[j].st \notin {"none", "executing"}
  <2> DEFINE s == [Now EXCEPT !.job[j] = NoJob]
  <2>1. PICK ord \in KeyOrders : Become(Release(s, job[j].keys, ord))
    BY <1>5 DEF CancelJob
  <2> DEFINE t == Release(s, job[j].keys, ord)
  <2>2. /\ DOMAIN s = StateFields /\ s.cache = cache /\ s.digests = digests /\ s.status = status
        /\ s.responses = responses /\ s.job = [job EXCEPT ![j] = NoJob]
    BY NowFields DEF StateFields
  <2> HIDE DEF s
  <2>3. /\ InState(s.job, "executing") = InState(job, "executing")
        /\ InState(s.job, "available") = InState(job, "available") \ {j}
    BY <1>2, <1>5, <2>2 DEF InState, NoJob
  <2>4. s.job[j] = NoJob /\ \A i \in Job \ {j} : s.job[i] = job[i]
    BY <1>2, <2>2
  <2>5. IsFiniteSet(InState(job, "available") \ {j})
    BY <1>2, NowFields, FS_RemoveElement DEF Healthy
  <2>6. Healthy(s) /\ SlotsRight(s)
    <3>1. \A i \in Job : IsJob(s.job[i])
      BY <1>2, <2>4, NowFields DEF Healthy, IsJob
    <3>2. Healthy(s)
      BY <1>2, <2>2, <2>3, <2>5, <3>1, NowFields DEF Healthy
    <3>3. SlotsRight(s)
      BY <1>2, <2>3, NowFields DEF SlotsRight
    <3>4. QED
      BY <3>2, <3>3
  <2>7. OnlyCache(s, t)
    BY <2>6, ReleaseOnlyCache DEF Healthy
  <2>8. Healthy(t) /\ SlotsRight(t)
    BY <2>6, <2>7, OnlyCacheGoing DEF Going
  <2>9. /\ t.responses = responses /\ t.status = status /\ t.digests = digests
        /\ ~IsOpen(t.job[j]) /\ \A i \in Job \ {j} : t.job[i] = job[i]
    BY <2>2, <2>4, <2>7 DEF OnlyCache, IsOpen
  <2>10. Become(t)
    BY <2>1
  <2> HIDE DEF t
  <2>11. QED
    BY <1>1, <2>8, <2>9, <2>10, AbandonStep DEF Become, Ending, ReadsStart
<1>6. QED
  BY <1>3, <1>4, <1>5

\* The job that has completed makes room for one of those that wait.
LEMMA CompletedStep ==
  ASSUME Control, NEW j \in Job, JobCompleted(j)
  PROVE  /\ Control' /\ Service!Next /\ Ending({j})
         /\ shutDown => /\ tasks' = tasks /\ digests' = digests
                        /\ InState(job', "executing") \subseteq InState(job, "executing")
                        /\ responses' = responses /\ status' = status
<1> DEFINE executing == InState(job, "executing")
           available == InState(job, "available")
           mode == job[j].mode
           outcome == [nominal |-> "completed", timedOut |-> "timedOut"]
           r == IF mode = "canceled" THEN Now ELSE Respond(Now, j, outcome[mode])
           s == [r EXCEPT !.job[j] = NoJob]
           answered == IF mode = "canceled" \/ shutDown THEN responses
                       ELSE [responses EXCEPT ![j] = Append(@, outcome[mode])]
<1>1. /\ Healthy(Now) /\ SlotsRight(Now) /\ DOMAIN job = Job /\ IsJob(job[j])
      /\ job[j].st = "executing" /\ j \in executing
      /\ UNCHANGED <<shutDown, enqueued, cancelled>>
      /\ responses \in [Job -> Seq({"completed", "timedOut", "error"})]
  BY NowFields DEF Control, Healthy, JobCompleted, InState
<1>2. mode \in {"nominal", "canceled", "timedOut"}
  BY <1>1 DEF IsJob, Awaits, NoJob
<1>3. PICK ord \in KeyOrders :
        LET h == Release(s, job[j].keys, ord) IN
        IF CanStart(h) THEN \E k \in Best(h) : Become(Start(h, k)) ELSE Become(h)
  BY DEF JobCompleted
<1> DEFINE h == Release(s, job[j].keys, ord)
<1>4. IF CanStart(h) THEN \E k \in Best(h) : Become(Start(h, k)) ELSE Become(h)
  BY <1>3
<1>5. /\ DOMAIN s = StateFields /\ s.cache = cache /\ s.status = status
      /\ s.tasks = tasks /\ s.digests = digests /\ s.closed = shutDown
      /\ s.job = [job EXCEPT ![j] = NoJob] /\ s.responses = answered
  <2>1. CASE mode = "canceled"
    BY <2>1, NowFields DEF StateFields
  <2>2. CASE mode # "canceled"
    BY <2>2, NowFields DEF StateFields, Respond
  <2>3. QED
    BY <2>1, <2>2
<1>6. /\ answered \in [Job -> Seq({"completed", "timedOut", "error"})]
      /\ \A i \in Job : Len(answered[i]) = Len(responses[i])
           + (IF i = j /\ mode # "canceled" /\ ~shutDown THEN 1 ELSE 0)
  <2>1. CASE mode = "canceled" \/ shutDown
    BY <1>1, <2>1
  <2>2. CASE ~(mode = "canceled" \/ shutDown)
    <3>1. outcome[mode] \in {"completed", "timedOut", "error"}
      BY <1>2, <2>2
    <3> HIDE DEF outcome
    <3>2. QED
      BY <1>1, <2>2, <3>1
  <2>3. QED
    BY <2>1, <2>2
<1> HIDE DEF s, answered, outcome
<1>7. s.job[j] = NoJob /\ \A i \in Job \ {j} : s.job[i] = job[i]
  BY <1>1, <1>5
<1>8. /\ InState(s.job, "executing") = executing \ {j}
      /\ InState(s.job, "available") = available
  BY <1>1, <1>5, <1>7 DEF InState, NoJob
<1>9. Healthy(s)
  <2>1. IsFiniteSet(executing \ {j}) /\ IsFiniteSet(available)
    BY <1>1, NowFields, FS_RemoveElement DEF Healthy
  <2>2. \A i \in Job : IsJob(s.job[i])
    BY <1>1, <1>7, NowFields DEF Healthy, IsJob
  <2>3. QED
    BY <1>1, <1>5, <1>6, <1>8, <2>1, <2>2, NowFields DEF Healthy
<1>10. OnlyCache(s, h)
  BY <1>9, ReleaseOnlyCache DEF Healthy
<1>11. Going(s, h) /\ Healthy(h)
  BY <1>9, <1>10, OnlyCacheGoing DEF Going
<1> HIDE DEF h
<1>12. /\ InState(h.job, "executing") = executing \ {j}
       /\ InState(h.job, "available") = available
  BY <1>8, <1>10 DEF OnlyCache
<1>13. /\ Cardinality(executing) \in Nat /\ Cardinality(executing) <= Slots
       /\ Cardinality(executing \ {j}) = Cardinality(executing) - 1
       /\ available # {} => Cardinality(executing) = Slots
       /\ IsFiniteSet(available) /\ IsFiniteSet(executing) /\ Slots \in Nat \ {0}
  BY <1>1, NowFields, FS_CardinalityType, FS_RemoveElement, DispatcherAssumption
     DEF Healthy, SlotsRight
<1>14. PICK t : /\ Become(t) /\ Going(h, t) /\ SlotsRight(t)
                /\ t = h \/ available # {}
  <2>1. CASE available = {}
    <3>1. ~CanStart(h)
      BY <1>12, <2>1 DEF CanStart, Best
    <3>2. Become(h)
      BY <1>4, <3>1
    <3>3. Cardinality(InState(h.job, "executing")) <= Slots
      <4>1. Cardinality(InState(h.job, "executing")) = Cardinality(executing) - 1
        BY <1>12, <1>13
      <4> HIDE DEF executing
      <4>2. QED
        BY <1>13, <4>1
    <3>4. SlotsRight(h) /\ Going(h, h)
      BY <1>11, <1>12, <2>1, <3>3 DEF SlotsRight, Going, Healthy, ReadsStart
    <3>5. QED
      BY <3>2, <3>4
  <2>2. CASE available # {}
    <3>1. Best(h) # {}
      BY <1>12, <1>13, <2>2, SomeBest
    <3>2. Cardinality(InState(h.job, "executing")) < Slots
      BY <1>12, <1>13, <2>2
    <3>3. CanStart(h)
      BY <3>1, <3>2 DEF CanStart
    <3>4. PICK k \in Best(h) : Become(Start(h, k))
      BY <1>4, <3>3
    <3> DEFINE t == Start(h, k)
    <3>5. k \in Job /\ h.job[k].st = "available" /\ k \in available
      BY <1>12 DEF Best, InState
    <3>6. /\ Going(h, t)
          /\ InState(t.job, "executing") = (executing \ {j}) \cup {k}
      BY <1>11, <1>12, <3>5, StartGoing
    <3>7. k \notin executing
      BY <3>5 DEF InState
    <3> DEFINE rest == executing \ {j}
    <3>8. IsFiniteSet(rest) /\ k \notin rest /\ Cardinality(rest) = Slots - 1
      BY <1>13, <2>2, <3>7, FS_RemoveElement
    <3>9. Cardinality(InState(t.job, "executing")) = Slots
      <4>1. InState(t.job, "executing") = rest \cup {k}
        BY <3>6
      <4> HIDE DEF rest, t
      <4>2. Cardinality(rest \cup {k}) = Cardinality(rest) + 1
        BY <3>8, FS_AddElement
      <4>3. QED
        BY <1>13, <3>8, <4>1, <4>2
    <3>10. Become(t)
      BY <3>4
    <3>11. k \in InState(t.job, "executing")
      BY <3>6
    <3> HIDE DEF t
    <3>12. SlotsRight(t)
      BY <1>13, <3>9 DEF SlotsRight
    <3>13. QED
      BY <2>2, <3>6, <3>7, <3>10, <3>11, <3>12
  <2>3. QED
    BY <2>1, <2>2
<1>15. Going(s, t)
  BY <1>11, <1>14, GoingTrans
<1>16. Healthy(Now)' /\ SlotsRight(Now)'
  BY <1>14, <1>15, NowHealthy DEF Going
<1>17. /\ responses' = answered
       /\ \A i \in Job \ {j} : /\ IsOpen(job'[i]) <=> IsOpen(job[i])
                               /\ job'[i] = NoJob <=> job[i] = NoJob
       /\ job'[j] = NoJob /\ ~IsOpen(job'[j])
       /\ \A i \in Job : status'[i] # status[i] => IsOpen(job'[i])
  BY <1>5, <1>7, <1>14, <1>15 DEF Going, Become, IsOpen
<1>18. Open' = Open \ {j} /\ \A i \in Job : IsOpen(job'[i]) => i \in Open'
  BY <1>17 DEF Open, IsOpen
<1>19. IsOpen(job[j]) <=> mode # "canceled"
  BY <1>1, StatesDiffer DEF IsOpen
<1>20. Control'
  <2>1. j \in enqueued
    BY <1>1 DEF Control, NoJob
  <2>2. answered = responses \/ \A i \in Job \ {j} : answered[i] = responses[i]
    BY <1>1 DEF answered
  <2>3. QED
    BY <1>1, <1>16, <1>17, <2>1, <2>2 DEF Control
<1>21. shutDown => mode = "canceled"
  BY <1>19 DEF Control
<1>22. Service!TellOpen
  BY <1>17, <1>18 DEF Service!TellOpen
<1>23. Service!Next
  <2>1. CASE mode = "canceled"
    <3>1. Open' = Open /\ responses' = responses
      BY <1>17, <1>18, <1>19, <2>1, OpenIsOpen DEF answered
    <3>2. Service!Tell
      BY <1>1, <1>22, <3>1 DEF Service!Tell
    <3>3. QED
      BY <3>2 DEF Service!Next
  <2>2. CASE mode # "canceled"
    <3>1. {j} \subseteq Open /\ ~shutDown
      BY <1>19, <1>21, <2>2, OpenIsOpen
    <3>2. \A i \in Job : Len(responses'[i]) = Len(responses[i]) + (IF i \in {j} THEN 1 ELSE 0)
      BY <1>6, <1>17, <2>2, <3>1
    <3>3. Service!Answer({j})
      BY <1>1, <1>18, <1>22, <3>1, <3>2 DEF Service!Answer
    <3>4. QED
      BY <3>3 DEF Service!Next
  <2>3. QED
    BY <2>1, <2>2
<1>24. ASSUME shutDown
       PROVE  /\ tasks' = tasks /\ digests' = digests
              /\ InState(job', "executing") \subseteq InState(job, "executing")
              /\ responses' = responses /\ status' = status
  <2>1. available = {}
    BY <1>1, <1>24, StatesDiffer DEF Control, InState
  <2>2. t = h
    BY <1>14, <2>1
  <2>3. QED
    BY <1>5, <1>10, <1>12, <1>14, <1>17, <1>24, <2>2 DEF OnlyCache, Become, answered
<1>25. Ending({j})
  <2>1. ReadsStart(digests, digests', Living(job'))
    BY <1>5, <1>14, <1>15 DEF Going, Become
  <2>2. QED
    BY <1>17, <2>1 DEF Ending
<1>26. QED
  BY <1>20, <1>23, <1>24, <1>25

LEMMA TimerStep ==
  ASSUME Control, NEW j \in Job, JobTimer(j)
  PROVE  /\ Control' /\ Service!Next /\ Ending({})
         /\ InState(job', "executing") = InState(job, "executing")
         /\ UNCHANGED <<tasks, digests, status, responses>>
<1> DEFINE s == [Now EXCEPT !.timers = @ \ {j}]
           x == [job[j] EXCEPT !.mode = "timedOut"]
           t == [s EXCEPT !.job[j].mode = "timedOut"]
<1>1. /\ Healthy(Now) /\ SlotsRight(Now) /\ DOMAIN job = Job /\ IsJob(job[j])
      /\ UNCHANGED <<shutDown, enqueued, cancelled>>
  BY NowFields DEF Control, Healthy, JobTimer
<1>2. /\ DOMAIN s = StateFields /\ s.cache = cache /\ s.job = job /\ s.tasks = tasks
      /\ s.digests = digests /\ s.status = status /\ s.responses = responses
      /\ s.closed = shutDown
  BY NowFields DEF StateFields
<1>3. \/ Become(s)
      \/ Become(Panic(s))
      \/ job[j].st = "executing" /\ job[j].mode = "nominal" /\ Become(t)
  BY <1>1 DEF JobTimer, IsJob, Awaits, NoJob
<1>4. /\ DOMAIN t = StateFields /\ t.cache = cache /\ t.job = [job EXCEPT ![j] = x]
      /\ t.tasks = tasks /\ t.digests = digests /\ t.status = status
      /\ t.responses = responses /\ t.closed = shutDown
  BY <1>2 DEF StateFields
<1> HIDE DEF t
<1>5. /\ Healthy(s) /\ SlotsRight(s) /\ Going(Now, s)
  BY <1>1, <1>2, NowFields DEF Healthy, SlotsRight, Going, ReadsStart
<1>6. CASE Become(s)
  BY <1>1, <1>2, <1>5, <1>6, GoingStep DEF Service!Next, Become
<1>7. CASE Become(Panic(s))
  <2> DEFINE p == Panic(s)
  <2>1. /\ DOMAIN p = StateFields /\ p.job = job /\ p.tasks = tasks
        /\ p.digests = digests /\ p.status = status /\ p.responses = responses
        /\ p.closed = shutDown /\ p.cache = Cache!Panicked(cache)
    BY <1>2 DEF Panic, StateFields
  <2>2. CacheTyped(Cache!Panicked(cache))
    BY <1>1, NowFields DEF Healthy, CacheTyped, Cache!Panicked
  <2>3. Become(p)
    BY <1>7
  <2> HIDE DEF p
  <2>4. SlotsRight(p) /\ Going(Now, p)
    BY <1>1, <2>1, <2>2, NowFields DEF Healthy, SlotsRight, Going, ReadsStart
  <2>5. QED
    BY <1>1, <2>1, <2>3, <2>4, GoingStep DEF Service!Next, Become
<1>8. CASE job[j].st = "executing" /\ job[j].mode = "nominal" /\ Become(t)
  <2>1. /\ IsJob(x) /\ IsOpen(x) /\ x.st = "executing" /\ x # NoJob
        /\ IsOpen(job[j]) /\ job[j] # NoJob
    BY <1>1, <1>8 DEF IsJob, IsOpen, Awaits, NoJob
  <2> HIDE DEF x
  <2>2. /\ InState(t.job, "executing") = InState(job, "executing")
        /\ InState(t.job, "available") = InState(job, "available")
    BY <1>1, <1>4, <1>8, <2>1 DEF InState
  <2>3. t.job[j] = x /\ \A i \in Job \ {j} : t.job[i] = job[i]
    BY <1>1, <1>4
  <2>4. \A i \in Job : IsJob(t.job[i])
    BY <1>1, <2>1, <2>3, NowFields DEF Healthy
  <2>5. Healthy(t) /\ SlotsRight(t)
    BY <1>1, <1>4, <2>2, <2>4, NowFields DEF Healthy, SlotsRight
  <2>6. Going(Now, t)
    BY <1>4, <2>1, <2>3, <2>5, NowFields DEF Going, Healthy, ReadsStart
  <2>7. QED
    BY <1>1, <1>4, <1>8, <2>2, <2>5, <2>6, GoingStep DEF Service!Next, Become
<1>9. QED
  BY <1>3, <1>6, <1>7, <1>8

LEMMA SuccessStep ==
  ASSUME Control, NEW k \in Key, CacheFillSuccess(k)
  PROVE  /\ Control' /\ Service!Next /\ Ending({})
         /\ shutDown => /\ tasks' \subseteq tasks /\ digests' = digests /\ job' = job
                        /\ responses' = responses /\ status' = status
<1> DEFINE got == Cache!GotArtifactSuccess(cache, k, TRUE)
           s == [Now EXCEPT !.cache = got.cache, !.tasks = @ \ {k}]
           t == FoldLeft(LAMBDA h, j : AdvanceJob(h, j, k, Told(h, j, k)), s, got.jobs)
<1>1. /\ Healthy(Now) /\ SlotsRight(Now) /\ CacheTyped(cache)
      /\ UNCHANGED <<shutDown, enqueued, cancelled>> /\ Become(t)
  BY NowFields DEF Control, Healthy, CacheFillSuccess
<1>2. CacheTyped(got.cache) /\ got.jobs \in Seq(Job)
  BY <1>1, GotSuccessTyped
<1> HIDE DEF got
<1>3. /\ DOMAIN s = StateFields /\ s.cache = got.cache /\ s.job = job
      /\ s.tasks = tasks \ {k} /\ s.digests = digests /\ s.status = status
      /\ s.responses = responses /\ s.closed = shutDown
  BY NowFields DEF StateFields
<1> HIDE DEF s
<1>4. Healthy(s) /\ SlotsRight(s) /\ Going(Now, s)
  BY <1>1, <1>2, <1>3, NowFields DEF Healthy, SlotsRight, Going, ReadsStart
<1>5. Advances(s, 0, t)
  BY <1>2, <1>4, AdvanceAllGoing
<1> HIDE DEF t
<1>6. Going(Now, t) /\ SlotsRight(t)
  BY <1>4, <1>5, GoingTrans DEF Advances
<1>7. Control' /\ Service!Next /\ Ending({})
  BY <1>1, <1>6, GoingStep DEF Service!Next
<1>8. ASSUME shutDown
      PROVE  /\ tasks' \subseteq tasks /\ digests' = digests /\ job' = job
             /\ responses' = responses /\ status' = status
  <2>1. \A j \in Job : s.job[j].st # "awaiting"
    <3>1. ASSUME NEW j \in Job, job[j].st = "awaiting"
          PROVE  FALSE
      <4>1. IsJob(job[j])
        BY <1>1, NowFields DEF Healthy
      <4>2. IsOpen(job[j])
        BY <3>1, <4>1, StatesDiffer
      <4>3. QED
        BY <1>8, <4>2 DEF Control
    <3>2. QED
      BY <1>3, <3>1
  <2>2. OnlyCache(s, t)
    BY <1>5, <2>1 DEF Advances
  <2>3. QED
    BY <1>1, <1>3, <2>2 DEF OnlyCache, Become
<1>9. QED
  BY <1>7, <1>8

LEMMA FailureStep ==
  ASSUME Control, NEW k \in Key, CacheFillFailure(k)
  PROVE  /\ Control' /\ Service!Next /\ Ending(ToSet(Cache!GotArtifactFailure(cache, k).jobs))
         /\ digests' = digests
         /\ shutDown => /\ tasks' \subseteq tasks /\ digests' = digests
                        /\ InState(job', "executing") \subseteq InState(job, "executing")
                        /\ responses' = responses /\ status' = status
<1> DEFINE got == Cache!GotArtifactFailure(cache, k)
           s == [Now EXCEPT !.cache = got.cache, !.tasks = @ \ {k}]
           t(ord) == FoldLeft(LAMBDA h, j : JobFailure(h, j, ord), s, got.jobs)
<1>1. /\ Healthy(Now) /\ SlotsRight(Now) /\ CacheTyped(cache)
      /\ UNCHANGED <<shutDown, enqueued, cancelled>>
  BY NowFields DEF Control, Healthy, CacheFillFailure
<1>2. PICK ord \in KeyOrders : Become(t(ord))
  BY DEF CacheFillFailure
<1>3. CacheTyped(got.cache) /\ got.jobs \in Seq(Job)
  BY <1>1, GotFailureTyped
<1> HIDE DEF got
<1>4. /\ DOMAIN s = StateFields /\ s.cache = got.cache /\ s.job = job
      /\ s.tasks = tasks \ {k} /\ s.digests = digests /\ s.status = status
      /\ s.responses = responses /\ s.closed = shutDown
  BY NowFields DEF StateFields
<1> HIDE DEF s
<1>5. Healthy(s)
  BY <1>1, <1>3, <1>4, NowFields DEF Healthy
<1>6. Failing(s, t(ord)) /\ \A i \in Job \ ToSet(got.jobs) : t(ord).job[i] = s.job[i]
  BY <1>3, <1>5, AllFail
<1>7. PICK u : u = t(ord)
  OBVIOUS
<1> HIDE DEF t
<1>8. /\ Control' /\ Service!Next
      /\ InState(job', "executing") = InState(job, "executing")
      /\ status' = status /\ (shutDown => responses' = responses)
  BY <1>1, <1>2, <1>4, <1>6, <1>7, FailingStep
<1>9. tasks' = tasks \ {k} /\ digests' = digests
  BY <1>2, <1>4, <1>6 DEF Become, Failing
<1>10. Ending(ToSet(got.jobs))
  <2>1. \A i \in Job \ ToSet(got.jobs) : job'[i] = job[i]
    BY <1>2, <1>4, <1>6 DEF Become
  <2>2. QED
    BY <1>9, <2>1 DEF Ending, ReadsStart
<1>11. QED
  BY <1>8, <1>9, <1>10 DEF got

LEMMA DigestsTypedNow ==
  ASSUME Control
  PROVE  DigestsTyped(digests)
BY NowFields DEF Control, Healthy

LEMMA ReadsAre ==
  ASSUME NEW d, NEW x
  PROVE  x \in Digests!Reads(d) <=>
           \/ \E n \in Manifest : \E j \in d.pending[n] : x = <<n, j>>
           \/ \E message \in d.sent : x = <<message[1], message[2]>>
<1> DEFINE P(n) == {<<n, j>> : j \in d.pending[n]}
           A == UNION {P(n) : n \in Manifest}
           B == {<<message[1], message[2]>> : message \in d.sent}
<1>1. Digests!Reads(d) = A \cup B
  BY DEF Digests!Reads
<1>2. x \in A <=> \E n \in Manifest : x \in P(n)
  <2> HIDE DEF P
  <2>1. QED
    OBVIOUS
<1>3. \A n : x \in P(n) <=> \E j \in d.pending[n] : x = <<n, j>>
  OBVIOUS
<1>4. x \in B <=> \E message \in d.sent : x = <<message[1], message[2]>>
  OBVIOUS
<1> HIDE DEF A, B, P
<1>5. QED
  BY <1>1, <1>2, <1>3, <1>4

\* The end of a read is no news for the broker.
LEMMA ManifestReadStep ==
  ASSUME Control, NEW m \in Manifest, NEW ok \in BOOLEAN, ManifestRead(m, ok)
  PROVE  /\ Control' /\ Service!Next
         /\ UNCHANGED <<tasks, job, status, responses>>
         /\ Digests!Reads(digests') \subseteq Digests!Reads(digests)
<1>1. /\ digests' = Digests!FillCache(digests, m, ok) /\ DigestsTyped(digests)
      /\ UNCHANGED <<cache, job, shutDown, enqueued, cancelled, tasks, timers, status, responses>>
  BY DigestsTypedNow DEF ManifestRead, dispatcherVars
<1>2. /\ DigestsTyped(digests')
      /\ digests'.pending = [digests.pending EXCEPT ![m] = {}]
      /\ digests'.sent = digests.sent \cup {<<m, j, ok>> : j \in digests.pending[m]}
  BY <1>1 DEF DigestsTyped, Digests!FillCache
<1>3. Control'
  BY <1>1, <1>2 DEF Control, Healthy, SlotsRight, Now, StateFields
<1>4. Open' = Open
  BY <1>1 DEF Open
<1>5. Service!Tell
  BY <1>1, <1>4 DEF Service!Tell, Service!TellOpen
<1>6. ASSUME NEW x \in Digests!Reads(digests')
      PROVE  x \in Digests!Reads(digests)
  <2>1. CASE \E n \in Manifest : \E j \in digests'.pending[n] : x = <<n, j>>
    <3>1. \A n \in Manifest : digests'.pending[n] \subseteq digests.pending[n]
      BY <1>1, <1>2 DEF DigestsTyped
    <3>2. QED
      BY <2>1, <3>1, ReadsAre
  <2>2. CASE \E message \in digests'.sent : x = <<message[1], message[2]>>
    <3>1. PICK message \in digests'.sent : x = <<message[1], message[2]>>
      BY <2>2
    <3>2. CASE message \in digests.sent
      BY <3>1, <3>2, ReadsAre
    <3>3. CASE \E j \in digests.pending[m] : message = <<m, j, ok>>
      <4>1. \E j \in digests.pending[m] : x = <<m, j>>
        BY <3>1, <3>3
      <4>2. QED
        BY <4>1, ReadsAre
    <3>4. QED
      BY <1>2, <3>2, <3>3
  <2>3. QED
    BY <2>1, <2>2, ReadsAre
<1>7. QED
  BY <1>1, <1>3, <1>5, <1>6 DEF Service!Next

LEMMA ReceivedTyped ==
  ASSUME NEW message, DigestsTyped(digests)
  PROVE  LET d == Digests!Received(digests, message) IN
         /\ DigestsTyped(d) /\ Digests!Reads(d) \subseteq Digests!Reads(digests)
         /\ \A J : ReadsStart(digests, d, J)
<1> DEFINE d == Digests!Received(digests, message)
<1>1. /\ DigestsTyped(d) /\ d.pending = digests.pending /\ d.sent = digests.sent \ {message}
  BY DEF DigestsTyped, Digests!Received
<1> HIDE DEF d
<1>2. Digests!Reads(d) \subseteq Digests!Reads(digests)
  BY <1>1 DEF Digests!Reads
<1>3. QED
  BY <1>1, <1>2 DEF d, ReadsStart

LEMMA ReadDigestsStep ==
  ASSUME Control, NEW m \in Manifest, NEW j \in Job, ReadManifestDigests(m, j)
  PROVE  /\ Control' /\ Service!Next /\ Ending({})
         /\ shutDown => /\ UNCHANGED <<tasks, job, status, responses>>
                        /\ Digests!Reads(digests') \subseteq Digests!Reads(digests)
<1> DEFINE d == Digests!Received(digests, <<m, j, TRUE>>)
           s == [Now EXCEPT !.digests = Digests!Received(@, <<m, j, TRUE>>)]
           told == GotManifestDigests(s, j, m)
           t == AdvanceJob(s, j, Blob(m), told)
<1>1. /\ Healthy(Now) /\ SlotsRight(Now) /\ DigestsTyped(digests)
      /\ UNCHANGED <<shutDown, enqueued, cancelled>> /\ Become(t)
  BY DigestsTypedNow DEF Control, ReadManifestDigests
<1>2. /\ DigestsTyped(d) /\ Digests!Reads(d) \subseteq Digests!Reads(digests)
      /\ \A J : ReadsStart(digests, d, J)
  BY <1>1, ReceivedTyped
<1>3. /\ DOMAIN s = StateFields /\ s.cache = cache /\ s.job = job
      /\ s.tasks = tasks /\ s.digests = d /\ s.status = status
      /\ s.responses = responses /\ s.closed = shutDown
  BY NowFields DEF StateFields
<1> HIDE DEF s, d
<1>4. Healthy(s) /\ SlotsRight(s) /\ Going(Now, s)
  BY <1>1, <1>2, <1>3, NowFields DEF Healthy, SlotsRight, Going
<1>5. Awaits(s.job[j]) => OnlyTracks(s, j, told)
  <2>1. Awaits(s.job[j]) => OnlyTracks(s, j, s)
    BY <1>4 DEF OnlyTracks, Healthy, ReadsStart
  <2>2. QED
    BY <2>1, TracksManifestDigests
<1> HIDE DEF told
<1>6. /\ Going(s, t) /\ SlotsRight(t)
      /\ s.job[j].st # "awaiting" => OnlyCache(s, t)
  <2>1. Blob(m) \in Key
    BY KeyForms, LayersAssumption
  <2>2. QED
    BY <1>4, <1>5, <2>1, AdvanceGoing
<1> HIDE DEF t
<1>7. Going(Now, t)
  BY <1>4, <1>6, GoingTrans
<1>8. Control' /\ Service!Next /\ Ending({})
  BY <1>1, <1>6, <1>7, GoingStep DEF Service!Next
<1>9. ASSUME shutDown
      PROVE  /\ UNCHANGED <<tasks, job, status, responses>>
             /\ Digests!Reads(digests') \subseteq Digests!Reads(digests)
  <2>1. s.job[j].st # "awaiting"
    <3>1. IsJob(job[j]) /\ ~IsOpen(job[j])
      BY <1>1, <1>9, NowFields DEF Healthy, Control
    <3>2. QED
      BY <1>3, <3>1, StatesDiffer
  <2>2. OnlyCache(s, t)
    BY <1>6, <2>1
  <2>3. QED
    BY <1>1, <1>2, <1>3, <2>2 DEF OnlyCache, Become
<1>10. QED
  BY <1>8, <1>9

LEMMA ReadFailureStep ==
  ASSUME Control, NEW m \in Manifest, NEW j \in Job, ReadManifestFailure(m, j)
  PROVE  /\ Control' /\ Service!Next /\ Ending({j})
         /\ digests' = Digests!Received(digests, <<m, j, FALSE>>)
         /\ shutDown => /\ tasks' = tasks /\ status' = status /\ responses' = responses
                        /\ InState(job', "executing") = InState(job, "executing")
                        /\ Digests!Reads(digests') \subseteq Digests!Reads(digests)
<1> DEFINE d == Digests!Received(digests, <<m, j, FALSE>>)
           s == [Now EXCEPT !.digests = Digests!Received(@, <<m, j, FALSE>>)]
<1>1. /\ Healthy(Now) /\ DigestsTyped(digests)
      /\ UNCHANGED <<shutDown, enqueued, cancelled>>
  BY DigestsTypedNow DEF Control, ReadManifestFailure
<1>2. PICK ord \in KeyOrders : Become(JobFailure(s, j, ord))
  BY DEF ReadManifestFailure
<1>3. /\ DigestsTyped(d) /\ Digests!Reads(d) \subseteq Digests!Reads(digests)
      /\ \A J : ReadsStart(digests, d, J)
  BY <1>1, ReceivedTyped
<1>4. /\ DOMAIN s = StateFields /\ s.cache = cache /\ s.job = job
      /\ s.tasks = tasks /\ s.digests = d /\ s.status = status
      /\ s.responses = responses /\ s.closed = shutDown
  BY NowFields DEF StateFields
<1> HIDE DEF s, d
<1>5. Healthy(s)
  BY <1>1, <1>3, <1>4, NowFields DEF Healthy
<1>6. /\ Failing(s, JobFailure(s, j, ord))
      /\ \A i \in Job \ {j} : JobFailure(s, j, ord).job[i] = s.job[i]
  BY <1>5, JobFails
<1>7. PICK t : t = JobFailure(s, j, ord)
  OBVIOUS
<1>8. Failing(s, t) /\ Become(t) /\ \A i \in Job \ {j} : t.job[i] = s.job[i]
  BY <1>2, <1>6, <1>7
<1>9. /\ Control' /\ Service!Next
      /\ InState(job', "executing") = InState(job, "executing")
      /\ status' = status /\ (shutDown => responses' = responses)
  BY <1>1, <1>4, <1>8, FailingStep
<1>10. tasks' = tasks /\ digests' = d
  BY <1>4, <1>8 DEF Become, Failing
<1>11. Ending({j})
  <2>1. \A i \in Job \ {j} : job'[i] = job[i]
    BY <1>4, <1>8 DEF Become
  <2>2. QED
    BY <1>3, <1>10, <2>1 DEF Ending
<1>12. QED
  BY <1>3, <1>9, <1>10, <1>11 DEF d

\* Every job is abandoned, and those that execute are canceled.
LEMMA ShutDownStep ==
  ASSUME Control, ShutDown
  PROVE  Control' /\ Service!Next
<1>1. /\ Healthy(Now) /\ SlotsRight(Now) /\ DOMAIN job = Job
      /\ ~shutDown /\ shutDown' = TRUE
      /\ job' = [j \in Job |-> IF job[j].st = "executing"
                               THEN Executing("canceled", job[j].keys) ELSE NoJob]
      /\ UNCHANGED <<cache, enqueued, cancelled, tasks, digests, timers, status, responses>>
  BY NowFields DEF Control, Healthy, ShutDown, envVars
<1>2. \A j \in Job :
        /\ IsJob(job'[j]) /\ ~IsOpen(job'[j])
        /\ job'[j].st = "executing" <=> job[j].st = "executing"
        /\ job'[j].st # "available"
        /\ job[j] = NoJob => job'[j] = NoJob
  BY <1>1 DEF IsJob, IsOpen, Executing, NoJob
<1>3. /\ InState(job', "executing") = InState(job, "executing")
      /\ InState(job', "available") = {}
  BY <1>2 DEF InState
<1>4. Healthy(Now)'
  <2>1. IsFiniteSet({})
    BY FS_EmptySet
  <2>2. DOMAIN job' = Job
    BY <1>1
  <2>3. /\ CacheTyped(cache) /\ DigestsTyped(digests) /\ DOMAIN status = Job
        /\ responses \in [Job -> Seq({"completed", "timedOut", "error"})]
        /\ IsFiniteSet(InState(job, "executing"))
    BY <1>1, NowFields DEF Healthy
  <2>4. QED
    BY <1>1, <1>2, <1>3, <2>1, <2>2, <2>3 DEF Healthy, Now, StateFields
<1>5. SlotsRight(Now)'
  <2>1. Cardinality(InState(job, "executing")) <= Slots
    BY <1>1, NowFields DEF SlotsRight
  <2>2. QED
    BY <1>3, <2>1 DEF SlotsRight, Now
<1>6. Control'
  BY <1>1, <1>2, <1>4, <1>5 DEF Control
<1>7. Open' = {}
  BY <1>2 DEF Open, IsOpen
<1>8. PICK K \in SUBSET Job : K = Job
  OBVIOUS
<1>9. Service!Abandon(K)
  <2>1. Open' = Open \ K
    BY <1>7, <1>8 DEF Open
  <2>2. cancelled \subseteq Job
    BY DEF Control
  <2>3. QED
    BY <1>1, <1>8, <2>1, <2>2 DEF Service!Abandon
<1>10. QED
  BY <1>6, <1>9 DEF Service!Next

\* The file system's steps change nothing of the worker.
LEMMA WorkerSteps ==
  ASSUME [Next]_vars
  PROVE  [WorkerNext]_workerVars
BY DEF Next, FileSystem, vars

\* A step that nothing sees.
LEMMA StutterStep ==
  ASSUME Control, UNCHANGED workerVars
  PROVE  Control' /\ UNCHANGED Service!vars
<1>1. UNCHANGED <<cache, job, shutDown, enqueued, cancelled, tasks, digests, timers, status,
                  responses>>
  BY DEF workerVars, dispatcherVars, envVars
<1>2. Control'
  BY <1>1 DEF Control, Healthy, SlotsRight, Now
<1>3. UNCHANGED Service!vars
  BY <1>1 DEF Service!vars, Open
<1>4. QED
  BY <1>2, <1>3

LEMMA ControlStep ==
  ASSUME Control, [WorkerNext]_workerVars
  PROVE  Control' /\ [Service!Next]_(Service!vars)
<1>1. ASSUME NEW j \in Job, EnqueueJob(j)
      PROVE  Control' /\ Service!Next
  BY <1>1, EnqueueStep
<1>2. ASSUME NEW j \in Job, CancelJob(j)
      PROVE  Control' /\ Service!Next
  BY <1>2, CancelStep
<1>3. ASSUME NEW j \in Job, JobCompleted(j)
      PROVE  Control' /\ Service!Next
  BY <1>3, CompletedStep
<1>4. ASSUME NEW j \in Job, JobTimer(j)
      PROVE  Control' /\ Service!Next
  BY <1>4, TimerStep
<1>5. ASSUME NEW k \in Key, CacheFillSuccess(k)
      PROVE  Control' /\ Service!Next
  BY <1>5, SuccessStep
<1>6. ASSUME NEW k \in Key, CacheFillFailure(k)
      PROVE  Control' /\ Service!Next
  BY <1>6, FailureStep
<1>7. ASSUME NEW m \in Manifest, NEW j \in Job, ReadManifestDigests(m, j)
      PROVE  Control' /\ Service!Next
  BY <1>7, ReadDigestsStep
<1>8. ASSUME NEW m \in Manifest, NEW j \in Job, ReadManifestFailure(m, j)
      PROVE  Control' /\ Service!Next
  BY <1>8, ReadFailureStep
<1>9. ASSUME NEW m \in Manifest, NEW ok \in BOOLEAN, ManifestRead(m, ok)
      PROVE  Control' /\ Service!Next
  BY <1>9, ManifestReadStep
<1>10. CASE ShutDown
  BY <1>10, ShutDownStep
<1>11. CASE UNCHANGED workerVars
  BY <1>11, StutterStep
<1>12. QED
  BY <1>1, <1>2, <1>3, <1>4, <1>5, <1>6, <1>7, <1>8, <1>9, <1>10, <1>11 DEF WorkerNext

\* Nothing starts and nothing is said once the dispatcher is shut down.
LEMMA FinalStep ==
  ASSUME Control, WorkerNext, shutDown
  PROVE  /\ tasks' \subseteq tasks
         /\ Digests!Reads(digests') \subseteq Digests!Reads(digests)
         /\ InState(job', "executing") \subseteq InState(job, "executing")
         /\ responses' = responses /\ status' = status
<1>1. ASSUME NEW j \in Job, EnqueueJob(j)
      PROVE  UNCHANGED <<job, tasks, digests, responses, status>>
  BY <1>1, NowFields DEF EnqueueJob, Become
<1>2. ASSUME NEW j \in Job, CancelJob(j)
      PROVE  /\ UNCHANGED <<tasks, digests, responses, status>>
             /\ InState(job', "executing") \subseteq InState(job, "executing")
  <2>1. ~IsOpen(job[j]) /\ IsJob(job[j]) /\ DOMAIN job = Job /\ DOMAIN cache # {}
    BY NowFields DEF Control, Healthy, CacheTyped
  <2>2. CASE job[j].st = "executing"
    <3> DEFINE t == [Now EXCEPT !.job[j].mode = "canceled"]
    <3>1. /\ t.job = [job EXCEPT ![j].mode = "canceled"] /\ t.tasks = tasks
          /\ t.digests = digests /\ t.status = status /\ t.responses = responses
      BY NowFields DEF StateFields
    <3>2. Become(t)
      BY <1>2, <2>2 DEF CancelJob
    <3> HIDE DEF t
    <3>3. InState(job', "executing") \subseteq InState(job, "executing")
      BY <2>1, <2>2, <3>1, <3>2 DEF Become, InState
    <3>4. QED
      BY <3>1, <3>2, <3>3 DEF Become
  <2>3. CASE job[j].st # "executing"
    <3>1. job[j].st = "none"
      BY <2>1, <2>3, StatesDiffer DEF IsJob, NoJob
    <3>2. QED
      BY <1>2, <3>1, NowFields DEF CancelJob, Become
  <2>4. QED
    BY <2>2, <2>3
<1>3. ASSUME NEW j \in Job, JobCompleted(j)
      PROVE  /\ UNCHANGED <<tasks, digests, responses, status>>
             /\ InState(job', "executing") \subseteq InState(job, "executing")
  BY <1>3, CompletedStep
<1>4. ASSUME NEW j \in Job, JobTimer(j)
      PROVE  /\ UNCHANGED <<tasks, digests, responses, status>>
             /\ InState(job', "executing") = InState(job, "executing")
  BY <1>4, TimerStep
<1>5. ASSUME NEW k \in Key, CacheFillSuccess(k)
      PROVE  UNCHANGED <<job, digests, responses, status>> /\ tasks' \subseteq tasks
  BY <1>5, SuccessStep
<1>6. ASSUME NEW k \in Key, CacheFillFailure(k)
      PROVE  /\ UNCHANGED <<digests, responses, status>> /\ tasks' \subseteq tasks
             /\ InState(job', "executing") \subseteq InState(job, "executing")
  BY <1>6, FailureStep
<1>7. ASSUME NEW m \in Manifest, NEW j \in Job, ReadManifestDigests(m, j)
      PROVE  /\ UNCHANGED <<tasks, job, responses, status>>
             /\ Digests!Reads(digests') \subseteq Digests!Reads(digests)
  BY <1>7, ReadDigestsStep
<1>8. ASSUME NEW m \in Manifest, NEW j \in Job, ReadManifestFailure(m, j)
      PROVE  /\ UNCHANGED <<tasks, responses, status>>
             /\ InState(job', "executing") = InState(job, "executing")
             /\ Digests!Reads(digests') \subseteq Digests!Reads(digests)
  BY <1>8, ReadFailureStep
<1>9. ASSUME NEW m \in Manifest, NEW ok \in BOOLEAN, ManifestRead(m, ok)
      PROVE  /\ UNCHANGED <<tasks, job, responses, status>>
             /\ Digests!Reads(digests') \subseteq Digests!Reads(digests)
  BY <1>9, ManifestReadStep
<1>10. ~ShutDown
  BY DEF ShutDown
<1>11. QED
  BY <1>1, <1>2, <1>3, <1>4, <1>5, <1>6, <1>7, <1>8, <1>9, <1>10 DEF WorkerNext

-----------------------------------------------------------------------------
\* The control of the dispatcher: no job is in a state the code does not know,
\* the slots are used, no job is open once it is shut down, and what was not
\* enqueued is untouched.
THEOREM DispatcherControl == Spec => []Control
<1>1. Init => Control
  BY ControlInit
<1>2. Control /\ [Next]_vars => Control'
  BY ControlStep, WorkerSteps
<1>3. QED
  BY <1>1, <1>2, PTL DEF Spec

\* possibly_start_job is called wherever a slot may have become free and
\* wherever a job may have become available: never do more jobs execute than
\* there are slots, and none is left waiting while one is free.
THEOREM SlotsStayUsed == Spec => []SlotsUsed
<1>1. Control => SlotsUsed
  BY NowFields DEF Control, SlotsRight, SlotsUsed
<1>2. QED
  BY <1>1, DispatcherControl, PTL

\* A dispatcher is an implementation of JobService: what it does to answer, to
\* drop or to tell of a job is what a worker may, and every other step is none.
THEOREM DispatcherServes == Spec => ServesJobs
<1>1. Init => Service!Init
  BY ControlInit
<1>2. Control /\ [Next]_vars => [Service!Next]_(Service!vars)
  BY ControlStep, WorkerSteps
<1>3. QED
  BY <1>1, <1>2, DispatcherControl, PTL DEF Spec, ServesJobs, Service!Spec

\* After receive_shut_down no fetch, build or read is begun, no job is started,
\* and nothing more is sent to the broker, whatever still arrives.
THEOREM ShutDownStaysFinal == Spec => ShutDownIsFinal
<1> DEFINE Final == /\ tasks' \subseteq tasks
                    /\ Digests!Reads(digests') \subseteq Digests!Reads(digests)
                    /\ InState(job', "executing") \subseteq InState(job, "executing")
                    /\ responses' = responses /\ status' = status
<1>1. Control /\ [Next]_vars => [shutDown => Final]_vars
  <2>1. UNCHANGED workerVars => Final
    BY DEF workerVars, dispatcherVars, envVars
  <2>2. QED
    BY <2>1, FinalStep, WorkerSteps
<1>2. QED
  BY <1>1, DispatcherControl, PTL DEF Spec, ShutDownIsFinal
=============================================================================
