-------------------------- MODULE ReferenceProofs ---------------------------
(***************************************************************************)
(* Proof that a worker's dispatcher counts its references exactly, and     *)
(* that nothing in it panics, for any jobs, layers, manifests, failures    *)
(* and orders, as long as no job that still reads a manifest is cancelled  *)
(* or fails (Undisturbed): the run dispatcher_cancelled_read shows what    *)
(* happens otherwise.                                                      *)
(*                                                                         *)
(* A reference is owed to a job for each key that it has (Claim), or has   *)
(* received and not been told of; Ledger says that the cache counts what   *)
(* is owed.  Inside of a handler the references of one job are taken apart *)
(* from the others' (Balanced, and Booked while its tracker is at work),   *)
(* and put back when it is done (Settling).                                *)
(***************************************************************************)
EXTENDS TrackerProofs

-----------------------------------------------------------------------------
\* The cache.

\* The heap has the keys without references, each once.
CacheWell(c) ==
  /\ CacheTyped(c) /\ ~c.panicked /\ IsInjective(c.heap)
  /\ \A k \in Key : k \in ToSet(c.heap) <=> c.entry[k].st = "inHeap"

LEMMA EntriesDiffer ==
  /\ Cache!Absent \in CacheEntry /\ Cache!Absent.st = "absent"
  /\ Cache!InHeap \in CacheEntry /\ Cache!InHeap.st = "inHeap"
  /\ \A n \in Nat \ {0} : /\ Cache!InUse(n) \in CacheEntry
                          /\ Cache!InUse(n).st = "inUse" /\ Cache!InUse(n).refs = n
  /\ \A e \in CacheEntry :
       /\ e.st \in {"absent", "inHeap", "inUse", "getting"}
       /\ e.st = "inUse" => e.refs \in Nat \ {0}
       /\ e.st = "getting" => e.jobs \in Seq(Job) /\ e.jobs # <<>>
BY DEF CacheEntry, Cache!Absent, Cache!InHeap, Cache!InUse

LEMMA RefsForms ==
  ASSUME NEW c, CacheTyped(c), NEW k \in Key
  PROVE  /\ Cache!Refs(c, k) \in Nat
         /\ Cache!Refs(c, k) > 0 <=> c.entry[k].st = "inUse"
         /\ c.entry[k].st = "inUse" => Cache!Refs(c, k) = c.entry[k].refs
<1>1. c.entry[k] \in CacheEntry
  BY DEF CacheTyped
<1>2. QED
  BY <1>1, EntriesDiffer DEF Cache!Refs

\* The first of a sequence in which nothing comes twice.
LEMMA HeadOnce ==
  ASSUME NEW S, NEW q \in Seq(S), IsInjective(q), q # <<>>
  PROVE  /\ Tail(q) \in Seq(S) /\ IsInjective(Tail(q))
         /\ \A x : x \in ToSet(Tail(q)) <=> x \in ToSet(q) /\ x # q[1]
<1>1. Tail(q) \in Seq(S) /\ IsInjective(Tail(q))
  BY TailOnce
<1>2. /\ Len(q) \in Nat \ {0} /\ Len(Tail(q)) = Len(q) - 1
      /\ \A i \in 1 .. Len(q) - 1 : Tail(q)[i] = q[i + 1]
  OBVIOUS
<1> DEFINE p == Tail(q)
<1>3. DOMAIN p = 1 .. Len(q) - 1 /\ DOMAIN q = 1 .. Len(q)
  BY <1>1, <1>2
<1> HIDE DEF p
<1>4. p \in Seq(S) /\ \A i \in 1 .. Len(q) - 1 : p[i] = q[i + 1]
  BY <1>1, <1>2 DEF p
<1>5. ASSUME NEW x, x \in ToSet(p)
      PROVE  x \in ToSet(q) /\ x # q[1]
  <2>1. PICK i \in 1 .. Len(q) - 1 : x = p[i]
    BY <1>3, <1>5 DEF ToSet
  <2>2. x = q[i + 1] /\ i + 1 \in 1 .. Len(q) /\ 1 \in 1 .. Len(q) /\ i + 1 # 1
    BY <1>2, <1>4, <2>1
  <2>3. QED
    BY <1>3, <2>2 DEF ToSet, IsInjective
<1>6. ASSUME NEW x, x \in ToSet(q), x # q[1]
      PROVE  x \in ToSet(p)
  <2>1. PICK i \in 1 .. Len(q) : x = q[i]
    BY <1>3, <1>6 DEF ToSet
  <2>2. i - 1 \in 1 .. Len(q) - 1 /\ (i - 1) + 1 = i
    BY <1>2, <1>6, <2>1
  <2>3. p[i - 1] = x
    BY <1>4, <2>1, <2>2
  <2>4. QED
    BY <1>3, <2>2, <2>3 DEF ToSet
<1>7. QED
  BY <1>1, <1>5, <1>6 DEF p

\* d counts the same references as c.
SameRefs(c, d) == \A k \in Key : Cache!Refs(d, k) = Cache!Refs(c, k)

\* The caches that eviction goes through: it is done or has stopped, or the first
\* n have been removed.
EvictsWell(r, n, c) ==
  /\ CacheWell(c) /\ SameRefs(r, c)
  /\ \/ c.bytes <= Target \/ c.stopped
     \/ /\ Len(c.heap) = Len(r.heap) - n
        /\ \A i \in 1 .. Len(c.heap) : c.heap[i] = r.heap[i + n]
WellEvictions == INSTANCE FoldTheorems WITH Op <- EvictStep, Inv <- EvictsWell

LEMMA EvictsOne ==
  ASSUME NEW r, CacheWell(r), NEW n \in 1 .. Len(r.heap), NEW c, EvictsWell(r, n - 1, c)
  PROVE  EvictsWell(r, n, Cache!RemoveOne(c, r.heap[n]))
<1> DEFINE q == r.heap
           h == c.heap
           k == q[n]
           u == Cache!RemoveOne(c, k)
           d1 == [c EXCEPT !.entry[k] = Cache!Absent, !.heap = Tail(@),
                           !.bytes = @ - [x \in Key |-> Size][k]]
           d2 == [c EXCEPT !.entry[k] = Cache!Absent, !.heap = Tail(@),
                           !.lost = @ + [x \in Key |-> Size][k],
                           !.left = @ \cup {k}, !.stopped = TRUE]
<1>1. CASE c.bytes <= Target \/ c.stopped
  <2>1. u = c
    BY <1>1 DEF Cache!RemoveOne
  <2>2. QED
    BY <1>1, <2>1 DEF EvictsWell
<1>2. CASE ~(c.bytes <= Target \/ c.stopped)
  <2>1. /\ q \in Seq(Key) /\ h \in Seq(Key) /\ k \in Key /\ Len(q) \in Nat
        /\ Len(h) = Len(q) - (n - 1) /\ \A i \in 1 .. Len(h) : h[i] = q[i + (n - 1)]
    BY <1>2 DEF EvictsWell, CacheWell, CacheTyped
  <2> HIDE DEF q, h
  <2>2. Len(h) >= 1 /\ 1 \in 1 .. Len(h) /\ 1 + (n - 1) = n /\ h # <<>>
    <3>1. n <= Len(q) /\ n \in Nat
      BY <2>1 DEF q
    <3>2. QED
      BY <2>1, <3>1
  <2>3. h[1] = k
    BY <2>1, <2>2
  <2>4. k \in ToSet(h)
    BY <2>1, <2>2, <2>3 DEF ToSet
  <2>5. c.entry[k].st = "inHeap" /\ IsInjective(h)
    BY <2>1, <2>4 DEF EvictsWell, CacheWell, h
  <2>6. PICK d : u = d /\ d \in {d1, d2}
    BY <1>2, <2>5 DEF Cache!RemoveOne
  <2>7. /\ d.entry = [c.entry EXCEPT ![k] = Cache!Absent] /\ d.heap = Tail(h)
        /\ DOMAIN d = DOMAIN c /\ d.panicked = c.panicked
    BY <2>6 DEF EvictsWell, CacheWell, CacheTyped, h
  <2> HIDE DEF k
  <2>8. /\ Tail(h) \in Seq(Key) /\ IsInjective(Tail(h))
        /\ \A x : x \in ToSet(Tail(h)) <=> x \in ToSet(h) /\ x # k
    BY <2>1, <2>2, <2>3, <2>5, HeadOnce
  <2>9. CacheTyped(c) /\ ~c.panicked /\ \A x \in Key : x \in ToSet(h) <=> c.entry[x].st = "inHeap"
    BY DEF EvictsWell, CacheWell, h
  <2>10. d.entry[k] = Cache!Absent /\ \A x \in Key \ {k} : d.entry[x] = c.entry[x]
    BY <2>1, <2>7, <2>9 DEF CacheTyped
  <2>11. CacheTyped(d)
    <3>1. Cache!Absent \in CacheEntry
      BY EntriesDiffer
    <3>2. d.entry \in [Key -> CacheEntry]
      BY <2>7, <2>9, <3>1 DEF CacheTyped
    <3>3. QED
      BY <2>7, <2>8, <2>9, <3>2 DEF CacheTyped
  <2>12. \A x \in Key : x \in ToSet(d.heap) <=> d.entry[x].st = "inHeap"
    BY <2>7, <2>8, <2>9, <2>10, EntriesDiffer
  <2>13. CacheWell(d)
    BY <2>7, <2>8, <2>9, <2>11, <2>12 DEF CacheWell
  <2>14. SameRefs(r, d)
    <3>1. ASSUME NEW x \in Key PROVE Cache!Refs(d, x) = Cache!Refs(c, x)
      BY <2>5, <2>10, EntriesDiffer DEF Cache!Refs
    <3>2. QED
      BY <3>1 DEF EvictsWell, SameRefs
  <2>15. /\ Len(d.heap) = Len(q) - n
         /\ \A i \in 1 .. Len(d.heap) : d.heap[i] = q[i + n]
    <3>1. Len(Tail(h)) = Len(h) - 1 /\ \A i \in 1 .. Len(h) - 1 : Tail(h)[i] = h[i + 1]
      BY <2>1, <2>2
    <3>2. Len(h) - 1 = Len(q) - n
      BY <2>1
    <3>3. ASSUME NEW i \in 1 .. Len(h) - 1
          PROVE  h[i + 1] = q[i + n]
      <4>1. i + 1 \in 1 .. Len(h) /\ (i + 1) + (n - 1) = i + n
        BY <2>1
      <4>2. QED
        BY <2>1, <4>1
    <3>4. QED
      BY <2>7, <3>1, <3>2, <3>3
  <2>16. QED
    BY <2>6, <2>13, <2>14, <2>15 DEF EvictsWell, q, k
<1>3. QED
  BY <1>1, <1>2

\* possibly_remove_some removes nothing that is in use.
LEMMA EvictedWell ==
  ASSUME NEW c, CacheWell(c)
  PROVE  CacheWell(Cache!Evicted(c)) /\ SameRefs(c, Cache!Evicted(c))
<1> DEFINE q == c.heap
           start == [c EXCEPT !.stopped = FALSE]
<1>1. q \in Seq(Key)
  BY DEF CacheWell, CacheTyped
<1>2. EvictsWell(c, 0, start)
  <2>1. /\ start.entry = c.entry /\ start.heap = c.heap /\ DOMAIN start = DOMAIN c
        /\ start.panicked = c.panicked
    BY DEF CacheWell, CacheTyped
  <2>2. CacheWell(start)
    BY <2>1 DEF CacheWell, CacheTyped
  <2>3. QED
    BY <1>1, <2>1, <2>2 DEF EvictsWell, SameRefs, Cache!Refs
<1> HIDE DEF start
<1>3. ASSUME NEW a, NEW n \in 1 .. Len(q), q[n] \in Key, EvictsWell(c, n - 1, a)
      PROVE  EvictsWell(c, n, EvictStep(0, 0, a, q[n]))
  BY <1>3, EvictsOne DEF EvictStep
<1>4. EvictsWell(c, Len(q), WellEvictions!Fold(0, 0, start, q))
  BY <1>1, <1>2, <1>3, LeastOf, WellEvictions!FoldKeeps
<1>5. Cache!Evicted(c) = WellEvictions!Fold(0, 0, [c EXCEPT !.stopped = FALSE], c.heap)
  BY DEF Cache!Evicted, WellEvictions!Fold, EvictStep, Cache!FoldLeft,
         Cache!MapThenFoldSet, Cache!Max, WellEvictions!Greatest
<1>6. QED
  BY <1>4, <1>5 DEF EvictsWell, start
\* A key is taken out of the heap.
LEMMA RemovedOnce ==
  ASSUME NEW S, NEW q \in Seq(S), NEW d
  PROVE  /\ Cache!RemoveFirst(q, d) \in Seq(S)
         /\ IsInjective(q) => IsInjective(Cache!RemoveFirst(q, d))
                              /\ ToSet(Cache!RemoveFirst(q, d)) = ToSet(q) \ {d}
<1> DEFINE I == {i \in 1 .. Len(q) : q[i] = d}
<1>1. CASE I # {}
  <2>1. PICK m \in I : \A k \in I : ~(k < m)
    <3>1. I \in SUBSET Nat
      OBVIOUS
    <3>2. QED
      BY <1>1, <3>1, LeastOf
  <2>2. Cache!Min(I) \in I
    <3>1. m \in I /\ \A k \in I : m <= k
      BY <2>1
    <3>2. QED
      BY <3>1 DEF Cache!Min
  <2>3. Cache!RemoveFirst(q, d) = SubSeq(q, 1, Cache!Min(I) - 1) \o SubSeq(q, Cache!Min(I) + 1, Len(q))
    BY <1>1 DEF Cache!RemoveFirst, Cache!SelectInSeq, Cache!RemoveAt
  <2> DEFINE i == Cache!Min(I)
             a == SubSeq(q, 1, i - 1)
             b == SubSeq(q, i + 1, Len(q))
             p == a \o b
  <2>4. i \in 1 .. Len(q) /\ q[i] = d /\ Len(q) \in Nat
    BY <2>2
  <2> HIDE DEF i
  <2>5. a \in Seq(S) /\ Len(a) = i - 1 /\ \A x \in 1 .. i - 1 : a[x] = q[x]
    <3>1. \A x \in 1 .. i - 1 : x \in 1 .. Len(q)
      BY <2>4
    <3>2. QED
      BY <2>4, <3>1, SubSeqProperties
  <2>6. b \in Seq(S) /\ Len(b) = Len(q) - i /\ \A x \in 1 .. Len(q) - i : b[x] = q[x + i]
    <3>1. \A x \in i + 1 .. Len(q) : x \in 1 .. Len(q)
      BY <2>4
    <3>2. /\ b \in Seq(S) /\ Len(b) = Len(q) - i
          /\ \A x \in 1 .. Len(q) - i : b[x] = q[i + 1 + x - 1]
      BY <2>4, <3>1, SubSeqProperties
    <3>3. \A x \in 1 .. Len(q) - i : i + 1 + x - 1 = x + i
      BY <2>4
    <3>4. QED
      BY <3>2, <3>3
  <2> HIDE DEF a, b
  <2>7. /\ p \in Seq(S) /\ Len(p) = Len(q) - 1
        /\ \A x \in 1 .. i - 1 : p[x] = q[x]
        /\ \A x \in i .. Len(q) - 1 : p[x] = q[x + 1]
    <3>1. /\ p \in Seq(S) /\ Len(p) = Len(a) + Len(b)
          /\ \A x \in 1 .. Len(a) + Len(b) :
               p[x] = IF x <= Len(a) THEN a[x] ELSE b[x - Len(a)]
      BY <2>5, <2>6, ConcatProperties
    <3>2. ASSUME NEW x \in 1 .. i - 1
          PROVE  p[x] = q[x]
      <4>1. Len(a) + Len(b) = Len(q) - 1 /\ i \in Nat /\ i <= Len(q)
        <5>1. Len(a) = i - 1 /\ Len(b) = Len(q) - i
          BY <2>5, <2>6
        <5>2. i \in Nat /\ i <= Len(q) /\ Len(q) \in Nat
          BY <2>4
        <5>3. QED
          BY <5>1, <5>2
      <4>3. x \in 1 .. Len(q) - 1 /\ x <= i - 1
        BY <2>4, <4>1
      <4>4. x \in 1 .. Len(a) + Len(b) /\ x <= Len(a)
        BY <2>5, <4>1, <4>3
      <4>2. QED
        BY <2>5, <3>1, <4>4
    <3>3. ASSUME NEW x \in i .. Len(q) - 1
          PROVE  p[x] = q[x + 1]
      <4>1. x \in 1 .. Len(a) + Len(b) /\ ~(x <= Len(a)) /\ x - Len(a) \in 1 .. Len(q) - i
        BY <2>4, <2>5, <2>6
      <4>2. p[x] = q[x - Len(a) + i] /\ x - Len(a) + i = x + 1
        BY <2>4, <2>5, <2>6, <3>1, <4>1
      <4>3. QED
        BY <4>2
    <3>4. QED
      BY <2>4, <2>5, <2>6, <3>1, <3>2, <3>3
  <2> HIDE DEF p
  <2>8. DOMAIN p = 1 .. Len(q) - 1 /\ DOMAIN q = 1 .. Len(q)
    BY <2>7
  <2> DEFINE at(x) == IF x < i THEN x ELSE x + 1
  <2>9. ASSUME NEW x \in DOMAIN p
        PROVE  at(x) \in DOMAIN q /\ p[x] = q[at(x)] /\ at(x) # i
    <3>1. x \in 1 .. Len(q) - 1 /\ x \in Nat
      BY <2>4, <2>8
    <3>2. CASE x < i
      <4>1. x \in 1 .. i - 1 /\ x \in 1 .. Len(q)
        BY <2>4, <3>1, <3>2
      <4>2. at(x) = x /\ x # i
        BY <2>4, <3>1, <3>2
      <4>3. p[x] = q[x] /\ x \in DOMAIN q
        BY <2>7, <2>8, <4>1
      <4>4. QED
        BY <4>2, <4>3
    <3>3. CASE ~(x < i)
      <4>1. x \in i .. Len(q) - 1 /\ x + 1 \in 1 .. Len(q)
        BY <2>4, <3>1, <3>3
      <4>2. QED
        BY <2>4, <2>7, <2>8, <3>3, <4>1
    <3>4. QED
      BY <3>2, <3>3
  <2>10. ASSUME IsInjective(q)
         PROVE  IsInjective(p) /\ ToSet(p) = ToSet(q) \ {d}
    <3>1. ASSUME NEW x \in DOMAIN p, NEW y \in DOMAIN p, p[x] = p[y]
          PROVE  x = y
      <4>1. at(x) = at(y)
        BY <2>9, <2>10, <3>1 DEF IsInjective
      <4>2. QED
        BY <2>4, <2>8, <4>1
    <3>2. ASSUME NEW x \in DOMAIN p
          PROVE  p[x] \in ToSet(q) \ {d}
      <4>1. p[x] # d
        BY <2>4, <2>8, <2>9, <2>10 DEF IsInjective
      <4>2. QED
        BY <2>9, <4>1 DEF ToSet
    <3>3. ASSUME NEW y \in DOMAIN q, q[y] # d
          PROVE  q[y] \in ToSet(p)
      <4>1. CASE y < i
        <5>1. y \in DOMAIN p /\ p[y] = q[y]
          BY <2>4, <2>7, <2>8, <4>1
        <5>2. QED
          BY <5>1 DEF ToSet
      <4>2. CASE ~(y < i)
        <5>1. y - 1 \in DOMAIN p /\ p[y - 1] = q[y]
          BY <2>4, <2>7, <2>8, <3>3, <4>2
        <5>2. QED
          BY <5>1 DEF ToSet
      <4>3. QED
        BY <4>1, <4>2
    <3>4. QED
      BY <3>1, <3>2, <3>3 DEF IsInjective, ToSet
  <2>11. Cache!RemoveFirst(q, d) = p
    BY <2>3 DEF p, a, b, i
  <2>12. QED
    BY <2>7, <2>10, <2>11
<1>2. CASE I = {}
  <2>1. Cache!RemoveFirst(q, d) = q
    BY <1>2 DEF Cache!RemoveFirst
  <2>2. d \notin ToSet(q)
    BY <1>2 DEF ToSet
  <2>3. QED
    BY <2>1, <2>2
<1>3. QED
  BY <1>1, <1>2
\* d is c, but there are n references of k.
Counted(c, k, n, d) ==
  CacheWell(d) /\ \A x \in Key : Cache!Refs(d, x) = IF x = k THEN n ELSE Cache!Refs(c, x)

\* An entry is changed and with it the heap.
Entered(c, k, e, hp, d) ==
  /\ DOMAIN d = DOMAIN c /\ d.entry = [c.entry EXCEPT ![k] = e] /\ d.heap = hp
  /\ d.panicked = c.panicked

HeapFor(c, k, e, hp) ==
  /\ hp \in Seq(Key) /\ IsInjective(hp)
  /\ \A x \in Key \ {k} : x \in ToSet(hp) <=> x \in ToSet(c.heap)
  /\ k \in ToSet(hp) <=> e.st = "inHeap"

LEMMA EnteredWell ==
  ASSUME NEW c, CacheWell(c), NEW k \in Key, NEW e \in CacheEntry, NEW hp, HeapFor(c, k, e, hp),
         NEW d, Entered(c, k, e, hp, d)
  PROVE  Counted(c, k, IF e.st = "inUse" THEN e.refs ELSE 0, d)
<1>1. CacheTyped(c) /\ ~c.panicked /\ \A x \in Key : x \in ToSet(c.heap) <=> c.entry[x].st = "inHeap"
  BY DEF CacheWell
<1>2. d.entry[k] = e /\ \A x \in Key \ {k} : d.entry[x] = c.entry[x]
  BY <1>1 DEF Entered, CacheTyped
<1>3. CacheTyped(d)
  BY <1>1 DEF Entered, CacheTyped, HeapFor
<1>4. \A x \in Key : x \in ToSet(d.heap) <=> d.entry[x].st = "inHeap"
  BY <1>1, <1>2 DEF Entered, HeapFor
<1>5. CacheWell(d)
  BY <1>1, <1>3, <1>4 DEF CacheWell, Entered, HeapFor
<1>6. QED
  BY <1>2, <1>5 DEF Counted, Cache!Refs

\* decrement_ref_count, of a key that has a reference
LEMMA DecrementedWell ==
  ASSUME NEW c, CacheWell(c), NEW k \in Key, Cache!Refs(c, k) > 0
  PROVE  Counted(c, k, Cache!Refs(c, k) - 1, Cache!Decremented(c, k))
<1> DEFINE n == c.entry[k].refs
           d1 == [c EXCEPT !.entry[k] = Cache!InUse(n - 1)]
           d2 == [c EXCEPT !.entry[k] = Cache!InHeap, !.heap = Append(@, k)]
<1>1. CacheTyped(c) /\ c.heap \in Seq(Key) /\ IsInjective(c.heap)
  BY DEF CacheWell, CacheTyped
<1>2. c.entry[k].st = "inUse" /\ Cache!Refs(c, k) = n /\ n \in Nat \ {0}
  BY <1>1, RefsForms
<1>3. k \notin ToSet(c.heap)
  BY <1>2 DEF CacheWell
<1>4. CASE n > 1
  <2>1. n - 1 \in Nat \ {0}
    BY <1>2, <1>4
  <2> DEFINE e == Cache!InUse(n - 1)
  <2>2. e \in CacheEntry /\ e.st = "inUse" /\ e.refs = n - 1
    BY <2>1, EntriesDiffer
  <2>3. Cache!Decremented(c, k) = d1
    BY <1>2, <1>4 DEF Cache!Decremented
  <2>4. Entered(c, k, e, c.heap, d1)
    BY <1>1 DEF Entered, CacheTyped
  <2> HIDE DEF e, d1
  <2>5. HeapFor(c, k, e, c.heap)
    BY <1>1, <1>3, <2>2 DEF HeapFor
  <2>6. Counted(c, k, e.refs, d1)
    BY <2>2, <2>4, <2>5, EnteredWell
  <2>7. QED
    BY <1>2, <2>2, <2>3, <2>6
<1>5. CASE ~(n > 1)
  <2>1. n = 1
    BY <1>2, <1>5
  <2> DEFINE e == Cache!InHeap
             hp == Append(c.heap, k)
  <2>2. e \in CacheEntry /\ e.st = "inHeap"
    BY EntriesDiffer
  <2>3. Cache!Decremented(c, k) = Cache!Evicted(d2)
    BY <1>2, <1>5 DEF Cache!Decremented
  <2>4. Entered(c, k, e, hp, d2)
    BY <1>1 DEF Entered, CacheTyped
  <2>5. hp \in Seq(Key) /\ IsInjective(hp) /\ ToSet(hp) = ToSet(c.heap) \cup {k}
    <3>1. \A a \in 1 .. Len(c.heap) : c.heap[a] # k
      BY <1>1, <1>3 DEF ToSet
    <3>2. QED
      BY <1>1, <3>1, AppendedOnce, AppendedSet
  <2> HIDE DEF e, d2, hp
  <2>6. HeapFor(c, k, e, hp)
    BY <2>2, <2>5 DEF HeapFor
  <2>7. Counted(c, k, 0, d2)
    BY <2>2, <2>4, <2>6, EnteredWell
  <2>8. Counted(c, k, 0, Cache!Evicted(d2))
    BY <2>7, EvictedWell DEF Counted, SameRefs
  <2>9. QED
    BY <1>2, <2>1, <2>3, <2>8
<1>6. QED
  BY <1>4, <1>5

\* get_artifact: with success there is one reference more.
LEMMA GetWell ==
  ASSUME NEW c, CacheWell(c), NEW k \in Key, NEW j \in Job
  PROVE  LET got == Cache!GetArtifact(c, k, j) IN
         Counted(c, k, IF got.result = "success" THEN Cache!Refs(c, k) + 1 ELSE Cache!Refs(c, k),
                 got.cache)
<1> DEFINE got == Cache!GetArtifact(c, k, j)
           n == c.entry[k].refs
           q == c.entry[k].jobs
           Put(e, hp) == [c EXCEPT !.entry[k] = e, !.heap = hp]
<1>1. CacheTyped(c) /\ c.heap \in Seq(Key) /\ IsInjective(c.heap) /\ c.entry[k] \in CacheEntry
  BY DEF CacheWell, CacheTyped
<1>2. /\ c.entry[k].st \in {"absent", "inHeap", "inUse", "getting"}
      /\ c.entry[k].st = "inUse" => n \in Nat \ {0} /\ Cache!Refs(c, k) = n
      /\ c.entry[k].st # "inUse" => Cache!Refs(c, k) = 0
  BY <1>1, EntriesDiffer DEF Cache!Refs
<1>3. ASSUME NEW e \in CacheEntry, NEW hp, HeapFor(c, k, e, hp)
      PROVE  Counted(c, k, IF e.st = "inUse" THEN e.refs ELSE 0, Put(e, hp))
  <2>1. Entered(c, k, e, hp, Put(e, hp))
    BY <1>1 DEF Entered, CacheTyped
  <2>2. QED
    BY <1>3, <2>1, EnteredWell
<1>4. k \in ToSet(c.heap) <=> c.entry[k].st = "inHeap"
  BY DEF CacheWell
<1>5. ASSUME NEW e \in CacheEntry, e.st # "inHeap", c.entry[k].st # "inHeap"
      PROVE  HeapFor(c, k, e, c.heap)
  BY <1>1, <1>4, <1>5 DEF HeapFor
<1>6. /\ Cache!Getting(<<j>>, {"worker"}) \in CacheEntry
      /\ Cache!Getting(<<j>>, {"worker"}).st = "getting"
  BY DEF CacheEntry, Cache!Getting
<1>7. CASE c.entry[k].st = "absent"
  <2> DEFINE e == Cache!Getting(<<j>>, {"worker"})
  <2>1. got.cache = Put(e, c.heap) /\ got.result = "get"
    BY <1>7 DEF Cache!GetArtifact
  <2> HIDE DEF e, Put, got
  <2>2. Counted(c, k, 0, Put(e, c.heap))
    BY <1>3, <1>5, <1>6, <1>7 DEF e
  <2>3. Counted(c, k, IF got.result = "success" THEN Cache!Refs(c, k) + 1 ELSE Cache!Refs(c, k),
                got.cache)
    BY <1>2, <1>7, <2>1, <2>2
  <2>4. QED
    BY <2>3 DEF got
<1>8. CASE c.entry[k].st = "getting"
  <2> DEFINE e == Cache!Getting(Append(q, j), c.entry[k].getters \cup {"worker"})
  <2>1. got.cache = Put(e, c.heap) /\ got.result # "success"
    <3>1. c.entry[k].getters = {"worker"}
      BY <1>1, <1>8, EntriesDiffer DEF CacheEntry
    <3>2. QED
      BY <1>8, <3>1 DEF Cache!GetArtifact
  <2>2. e \in CacheEntry /\ e.st = "getting"
    <3>1. q \in Seq(Job) /\ c.entry[k].getters = {"worker"}
      BY <1>1, <1>8, EntriesDiffer DEF CacheEntry
    <3>2. Append(q, j) \in Seq(Job) /\ Append(q, j) # <<>> /\ {"worker"} \cup {"worker"} = {"worker"}
      BY <3>1
    <3>3. QED
      BY <3>1, <3>2 DEF CacheEntry, Cache!Getting
  <2> HIDE DEF e, Put, got
  <2>3. Counted(c, k, 0, Put(e, c.heap))
    BY <1>3, <1>5, <1>8, <2>2
  <2>4. Counted(c, k, IF got.result = "success" THEN Cache!Refs(c, k) + 1 ELSE Cache!Refs(c, k),
                got.cache)
    BY <1>2, <1>8, <2>1, <2>3
  <2>5. QED
    BY <2>4 DEF got
<1>9. CASE c.entry[k].st = "inUse"
  <2> DEFINE e == Cache!InUse(n + 1)
  <2>1. got.cache = Put(e, c.heap) /\ got.result = "success"
    BY <1>9 DEF Cache!GetArtifact
  <2>2. e \in CacheEntry /\ e.st = "inUse" /\ e.refs = n + 1
    <3>1. n + 1 \in Nat \ {0}
      BY <1>2, <1>9
    <3>2. QED
      BY <3>1, EntriesDiffer
  <2> HIDE DEF e, Put, got
  <2>3. Counted(c, k, n + 1, Put(e, c.heap))
    BY <1>3, <1>5, <1>9, <2>2
  <2>4. Counted(c, k, IF got.result = "success" THEN Cache!Refs(c, k) + 1 ELSE Cache!Refs(c, k),
                got.cache)
    BY <1>2, <1>9, <2>1, <2>3
  <2>5. QED
    BY <2>4 DEF got
<1>10. CASE c.entry[k].st = "inHeap"
  <2> DEFINE e == Cache!InUse(1)
             hp == Cache!RemoveFirst(c.heap, k)
  <2>1. got.cache = Put(e, hp) /\ got.result = "success"
    BY <1>10 DEF Cache!GetArtifact
  <2>2. e \in CacheEntry /\ e.st = "inUse" /\ e.refs = 1
    BY EntriesDiffer
  <2>3. hp \in Seq(Key) /\ IsInjective(hp) /\ ToSet(hp) = ToSet(c.heap) \ {k}
    BY <1>1, RemovedOnce
  <2> HIDE DEF e, Put, got, hp
  <2>4. HeapFor(c, k, e, hp)
    BY <2>2, <2>3 DEF HeapFor
  <2>5. Counted(c, k, 1, Put(e, hp))
    BY <1>3, <2>2, <2>4
  <2>6. Counted(c, k, IF got.result = "success" THEN Cache!Refs(c, k) + 1 ELSE Cache!Refs(c, k),
                got.cache)
    BY <1>2, <1>10, <2>1, <2>5
  <2>7. QED
    BY <2>6 DEF got
<1>11. QED
  BY <1>2, <1>7, <1>8, <1>9, <1>10

\* got_artifact_success: each of the jobs that waited has a reference.
LEMMA GotSuccessWell ==
  ASSUME NEW c, CacheWell(c), NEW k \in Key, c.entry[k].st = "getting"
  PROVE  Counted(c, k, Len(c.entry[k].jobs), Cache!GotArtifactSuccess(c, k, TRUE).cache)
<1> DEFINE q == c.entry[k].jobs
           e == Cache!InUse(Len(q))
           d == [c EXCEPT !.entry[k] = e, !.bytes = @ + [x \in Key |-> Size][k],
                          !.left = @ \ {k}]
<1>1. CacheTyped(c) /\ c.heap \in Seq(Key) /\ IsInjective(c.heap) /\ c.entry[k] \in CacheEntry
  BY DEF CacheWell, CacheTyped
<1>2. q \in Seq(Job) /\ q # <<>> /\ k \notin ToSet(c.heap)
  BY <1>1, EntriesDiffer DEF CacheWell
<1>3. Cache!GotArtifactSuccess(c, k, TRUE).cache = Cache!Evicted(d)
  BY <1>2 DEF Cache!GotArtifactSuccess
<1>4. e \in CacheEntry /\ e.st = "inUse" /\ e.refs = Len(q)
  <2>1. Len(q) \in Nat \ {0}
    BY <1>2
  <2>2. QED
    BY <2>1, EntriesDiffer
<1>5. Entered(c, k, e, c.heap, d)
  BY <1>1 DEF Entered, CacheTyped
<1> HIDE DEF e, d
<1>6. HeapFor(c, k, e, c.heap)
  BY <1>1, <1>2, <1>4 DEF HeapFor
<1>7. Counted(c, k, Len(q), d)
  BY <1>4, <1>5, <1>6, EnteredWell
<1>8. Counted(c, k, Len(q), Cache!Evicted(d))
  BY <1>7, EvictedWell DEF Counted, SameRefs
<1>9. QED
  BY <1>3, <1>8

\* got_artifact_failure
LEMMA GotFailureWell ==
  ASSUME NEW c, CacheWell(c), NEW k \in Key, c.entry[k].st = "getting"
  PROVE  Counted(c, k, 0, Cache!GotArtifactFailure(c, k).cache)
<1> DEFINE e == Cache!Absent
           d == [c EXCEPT !.entry[k] = e]
<1>1. CacheTyped(c) /\ c.heap \in Seq(Key) /\ IsInjective(c.heap) /\ k \notin ToSet(c.heap)
  BY DEF CacheWell, CacheTyped
<1>2. Cache!GotArtifactFailure(c, k).cache = d
  BY DEF Cache!GotArtifactFailure
<1>3. e \in CacheEntry /\ e.st = "absent"
  BY EntriesDiffer
<1>4. Entered(c, k, e, c.heap, d)
  BY <1>1 DEF Entered, CacheTyped
<1> HIDE DEF e, d
<1>5. HeapFor(c, k, e, c.heap)
  BY <1>1, <1>3 DEF HeapFor
<1>6. QED
  BY <1>2, <1>3, <1>4, <1>5, EnteredWell

-----------------------------------------------------------------------------
\* The references of one job, while its tracker is at work.

\* The cache counts M and one for each key that the job has; P is what it has
\* received and not yet kept.  Whatever is under way is being got.
Booked(j, t, M, P) ==
  /\ CacheWell(t.cache)
  /\ \A k \in t.tasks : k \in Key /\ t.cache.entry[k].st = "getting"
  /\ \A k \in Key : Cache!Refs(t.cache, k) = M[k] + IF k \in t.job[j].keys \cup P THEN 1 ELSE 0

\* A key that the job has it will not ask for any more, but for those in X, of
\* which its tracker is being told.
NotYet(j, x, X) ==
  /\ \A d \in Digest : Blob(d) \in x.keys \ X =>
       /\ d \in DOMAIN x.bottom => x.bottom[d].st # "artifact"
       /\ x.deps[d] = <<>>
  /\ \A d \in Digest : Bottom(d) \in x.keys => d \in DOMAIN x.bottom /\ x.bottom[d].st = "ready"
  /\ \A n \in 2 .. Len(Layers[j]) : Upper(Prefix(j, n)) \in x.keys => n <= x.stacked

LEMMA BookedSame ==
  ASSUME NEW j, NEW t, NEW M, NEW P, Booked(j, t, M, P), NEW u, u.cache = t.cache,
         u.tasks = t.tasks, u.job[j].keys = t.job[j].keys
  PROVE  Booked(j, u, M, P)
BY DEF Booked

LEMMA BookedFetch ==
  ASSUME NEW s, NEW j \in Job, NEW t, OnlyTracks(s, j, t), NEW M \in [Key -> Nat], NEW P,
         Booked(j, t, M, P), NEW k \in Key, k \notin t.job[j].keys, k \notin P
  PROVE  Booked(j, Fetch(t, j, k), M, IF Got(t, j, k) THEN P \cup {k} ELSE P)
<1> DEFINE got == Cache!GetArtifact(t.cache, k, j)
           u == Fetch(t, j, k)
           Q == IF Got(t, j, k) THEN P \cup {k} ELSE P
<1>1. CacheTyped(t.cache) /\ DOMAIN t = StateFields
  BY DEF OnlyTracks
<1>2. /\ got.result \in {"get", "wait", "success"}
      /\ \A x \in Key \ {k} : got.cache.entry[x] = t.cache.entry[x]
      /\ got.result = "success" => t.cache.entry[k].st \in {"inUse", "inHeap"}
      /\ got.result \in {"get", "wait"} => got.cache.entry[k].st = "getting"
  <2>1. /\ CacheTyped(got.cache)
        /\ got.result \in {"get", "wait", "success"}
        /\ \A x \in Key \ {k} : got.cache.entry[x] = t.cache.entry[x]
        /\ got.result = "success" => got.cache.entry[k].st = "inUse"
                                     /\ t.cache.entry[k].st \in {"inUse", "inHeap"}
        /\ got.result = "get" => t.cache.entry[k].st = "absent"
                                 /\ got.cache.entry[k] = Cache!Getting(<<j>>, {"worker"})
        /\ got.result = "wait" =>
             /\ t.cache.entry[k].st = "getting"
             /\ got.cache.entry[k] = Cache!Getting(Append(t.cache.entry[k].jobs, j), {"worker"})
    BY <1>1, GetArtifactTyped
  <2> HIDE DEF got
  <2>2. QED
    BY <2>1 DEF Cache!Getting
<1>3. /\ u.job = t.job /\ u.cache = got.cache
      /\ u.tasks = IF got.result = "get" THEN t.tasks \cup {k} ELSE t.tasks
  BY <1>1 DEF Fetch, StateFields
<1>4. Got(t, j, k) <=> got.result = "success"
  BY DEF Got
<1>5. Counted(t.cache, k, IF got.result = "success" THEN Cache!Refs(t.cache, k) + 1
                          ELSE Cache!Refs(t.cache, k), got.cache)
  BY GetWell DEF Booked
<1> HIDE DEF got, u
<1>6. CacheWell(u.cache)
  BY <1>3, <1>5 DEF Counted
<1>7. ASSUME NEW x \in u.tasks
      PROVE  x \in Key /\ u.cache.entry[x].st = "getting"
  <2>1. CASE x = k
    <3>1. got.result # "success"
      <4>1. SUFFICES ASSUME got.result = "success" PROVE FALSE
        OBVIOUS
      <4>2. x \in t.tasks
        BY <1>3, <4>1
      <4>3. QED
        BY <1>2, <2>1, <4>1, <4>2 DEF Booked
    <3>2. QED
      BY <1>2, <1>3, <2>1, <3>1
  <2>2. CASE x # k
    <3>1. x \in t.tasks
      BY <1>3, <2>2
    <3>2. x \in Key /\ t.cache.entry[x].st = "getting"
      BY <3>1 DEF Booked
    <3>3. QED
      BY <1>2, <1>3, <2>2, <3>2
  <2>3. QED
    BY <2>1, <2>2
<1>8. ASSUME NEW x \in Key
      PROVE  Cache!Refs(u.cache, x) = M[x] + IF x \in u.job[j].keys \cup Q THEN 1 ELSE 0
  <2>1. Cache!Refs(t.cache, x) = M[x] + (IF x \in t.job[j].keys \cup P THEN 1 ELSE 0) /\ M[x] \in Nat
    BY DEF Booked
  <2>2. CASE x = k /\ Got(t, j, k)
    <3>1. x \in Q /\ x \notin t.job[j].keys \cup P
      BY <2>2
    <3>2. Cache!Refs(t.cache, x) = M[x] + 0
      BY <2>1, <3>1
    <3>3. Cache!Refs(u.cache, x) = Cache!Refs(t.cache, x) + 1
      BY <1>3, <1>4, <1>5, <2>2 DEF Counted
    <3>4. QED
      BY <2>1, <3>1, <3>2, <3>3
  <2>3. CASE ~(x = k /\ Got(t, j, k))
    <3>1. x \in u.job[j].keys \cup Q <=> x \in t.job[j].keys \cup P
      BY <1>3, <2>3
    <3>2. Cache!Refs(u.cache, x) = Cache!Refs(t.cache, x)
      BY <1>3, <1>4, <1>5, <2>3 DEF Counted
    <3>3. QED
      BY <2>1, <3>1, <3>2
  <2>4. QED
    BY <2>2, <2>3
<1>9. QED
  BY <1>6, <1>7, <1>8 DEF Booked, u

LEMMA BookedKept ==
  ASSUME NEW j, NEW t, NEW M, NEW k, Booked(j, t, M, {k}), NEW u, u.cache = t.cache,
         u.tasks = t.tasks, u.job[j].keys = t.job[j].keys \cup {k}
  PROVE  Booked(j, u, M, {})
<1>1. u.job[j].keys \cup {} = t.job[j].keys \cup {k}
  OBVIOUS
<1>2. QED
  BY <1>1 DEF Booked

\* A layer is stacked.
LEMMA NotYetStacked ==
  ASSUME NEW j \in Job, NEW x, NEW X, NotYet(j, x, X), NEW n \in 1 .. Len(Layers[j]), n = x.stacked + 1,
         x.stacked \in 1 .. Len(Layers[j]),
         NEW y, y.keys = x.keys \cup {Upper(Prefix(j, n))}, y.stacked = n,
         y.bottom = x.bottom, y.deps = x.deps
  PROVE  NotYet(j, y, X)
<1>1. \A d \in Digest : /\ Blob(d) \in y.keys <=> Blob(d) \in x.keys
                        /\ Bottom(d) \in y.keys <=> Bottom(d) \in x.keys
  BY KeysDiffer
<1>2. ASSUME NEW i \in 2 .. Len(Layers[j]), Upper(Prefix(j, i)) \in y.keys
      PROVE  i <= n
  <2>1. Len(Layers[j]) \in Nat
    BY LayersTyped
  <2>2. CASE Upper(Prefix(j, i)) \in x.keys
    <3>1. i <= x.stacked
      BY <2>2 DEF NotYet
    <3>2. QED
      BY <2>1, <3>1
  <2>3. CASE Upper(Prefix(j, i)) = Upper(Prefix(j, n))
    <3>1. i \in 1 .. Len(Layers[j])
      BY <2>1
    <3>2. i = n
      BY <2>3, <3>1, UppersDiffer
    <3>3. QED
      BY <2>1, <3>2
  <2>4. QED
    BY <1>2, <2>2, <2>3
<1>3. QED
  BY <1>1, <1>2 DEF NotYet

\* The state of a layer that is not ready changes; what the tracker was told of
\* is no longer in X.
LEMMA NotYetChanged ==
  ASSUME NEW j, NEW x, NEW X, NotYet(j, x, X), NEW d \in Digest, NEW y, Changed(x, y, d),
         x.bottom[d].st # "ready" \/ y.bottom[d].st = "ready",
         NEW Z, X \ {Blob(d)} \subseteq Z,
         y.bottom[d].st # "artifact", Blob(d) \in Z \/ y.deps[d] = <<>>
  PROVE  NotYet(j, y, Z)
<1>1. \A e \in DOMAIN x.bottom : e = d \/ y.bottom[e] = x.bottom[e]
  BY DEF Changed
<1>2. ASSUME NEW e \in Digest, Blob(e) \in y.keys \ Z
      PROVE  (e \in DOMAIN y.bottom => y.bottom[e].st # "artifact") /\ y.deps[e] = <<>>
  <2>1. CASE e = d
    BY <1>2, <2>1
  <2>2. CASE e # d
    <3>1. Blob(e) \in x.keys \ X
      BY <1>2, <2>2, KeysDiffer DEF Changed
    <3>2. QED
      BY <1>1, <2>2, <3>1 DEF NotYet, Changed
  <2>3. QED
    BY <2>1, <2>2
<1>3. \A e \in Digest : Bottom(e) \in y.keys => e \in DOMAIN y.bottom /\ y.bottom[e].st = "ready"
  BY <1>1 DEF NotYet, Changed
<1>4. \A n \in 2 .. Len(Layers[j]) : Upper(Prefix(j, n)) \in y.keys => n <= y.stacked
  BY DEF NotYet, Changed
<1>5. QED
  BY <1>2, <1>3, <1>4 DEF NotYet

\* A bottom layer that is ready is kept.
LEMMA NotYetReady ==
  ASSUME NEW j, NEW x, NEW X, NotYet(j, x, X), NEW d \in Digest, d \in DOMAIN x.bottom,
         x.bottom[d].st = "ready", NEW y,
         y.keys = x.keys \cup {Bottom(d)}, y.bottom = x.bottom, y.deps = x.deps,
         y.stacked = x.stacked
  PROVE  NotYet(j, y, X)
<1>1. /\ \A e \in Digest : Blob(e) \in y.keys <=> Blob(e) \in x.keys
      /\ \A e \in Digest : Bottom(e) \in y.keys <=> Bottom(e) \in x.keys \/ e = d
      /\ \A p : Upper(p) \in y.keys <=> Upper(p) \in x.keys
  BY KeysDiffer
<1>2. QED
  BY <1>1 DEF NotYet

\* An artifact is kept: it is there, or its tracker is to be told.
LEMMA NotYetBlob ==
  ASSUME NEW j, NEW x, NEW X, NotYet(j, x, X), NEW d \in Digest, NEW y,
         y.keys = x.keys \cup {Blob(d)}, y.bottom = x.bottom, y.deps = x.deps,
         y.stacked = x.stacked,
         NEW Z, X \subseteq Z, Blob(d) \in Z \/ (x.deps[d] = <<>> /\ d \notin DOMAIN x.bottom)
  PROVE  NotYet(j, y, Z)
<1>1. /\ \A e \in Digest : Blob(e) \in y.keys <=> Blob(e) \in x.keys \/ e = d
      /\ \A e \in Digest : Bottom(e) \in y.keys <=> Bottom(e) \in x.keys
      /\ \A p : Upper(p) \in y.keys <=> Upper(p) \in x.keys
  BY KeysDiffer
<1>2. QED
  BY <1>1 DEF NotYet

\* The manifests that wait for an artifact change.
LEMMA NotYetDeps ==
  ASSUME NEW j, NEW x, NEW X, NotYet(j, x, X), NEW d \in Digest, NEW y,
         y.keys = x.keys, y.bottom = x.bottom, y.stacked = x.stacked,
         \A e \in Digest \ {d} : y.deps[e] = x.deps[e],
         y.deps[d] = <<>> \/ Blob(d) \notin x.keys
  PROVE  NotYet(j, y, X)
BY DEF NotYet

-----------------------------------------------------------------------------
\* The operators of LayerTracker keep the references of their job.

\* P and X as above; both are empty when the tracker is done.
Charged(j, t, M, P, X) == Booked(j, t, M, P) /\ NotYet(j, t.job[j], X)

\* What the job receives when it asks for k.
Taken(t, j, k) == IF Got(t, j, k) THEN {k} ELSE {}

\* A layer is asked for, which the job does not have.
LEMMA ChargedFetch ==
  ASSUME NEW s, NEW j \in Job, NEW t, Works(s, j, t), NEW M \in [Key -> Nat], NEW X,
         Charged(j, t, M, {}, X), NEW k \in Key, k \notin t.job[j].keys
  PROVE  /\ Charged(j, Fetch(t, j, k), M, Taken(t, j, k), X)
         /\ Fetch(t, j, k).job = t.job
<1>1. OnlyTracks(s, j, t) /\ Booked(j, t, M, {}) /\ k \notin {}
  BY DEF Works, Charged
<1>2. Booked(j, Fetch(t, j, k), M, IF Got(t, j, k) THEN {} \cup {k} ELSE {})
  BY <1>1, BookedFetch
<1>3. Fetch(t, j, k).job = t.job
  BY <1>1 DEF Fetch, OnlyTracks, StateFields
<1>4. QED
  <2>1. Taken(t, j, k) = IF Got(t, j, k) THEN {} \cup {k} ELSE {}
    BY DEF Taken
  <2>2. QED
    BY <1>2, <1>3, <2>1 DEF Charged

LEMMA ChargedStack ==
  ASSUME NEW s, NEW j \in Job, NEW n \in 1 .. Len(Layers[j]) - 1, NEW t, Works(s, j, t),
         TrackerTyped(j, t.job[j]), NEW M \in [Key -> Nat], NEW X, Charged(j, t, M, {}, X),
         Upper(Prefix(j, n + 1)) \notin ListedIn(t, j) \/ t.job[j].stacked # n
  PROVE  Charged(j, StackUpper(t, j, n + 1), M, {}, X)
<1> DEFINE x == t.job[j]
           k == Upper(Prefix(j, n + 1))
           f == Fetch(t, j, k)
           u == StackUpper(t, j, n + 1)
<1>1. Len(Layers[j]) \in Nat \ {0} /\ x.stacked \in 1 .. Len(Layers[j])
  BY LayersTyped DEF TrackerTyped
<1>2. n \in Nat /\ n + 1 \in 2 .. Len(Layers[j]) /\ (n + 1) - 1 = n /\ n + 1 \in 1 .. Len(Layers[j])
  BY <1>1
<1>3. k \in Key
  BY <1>2, KeyForms
<1>4. CASE x.stacked # n
  BY <1>2, <1>4 DEF StackUpper
<1>5. CASE x.stacked = n
  <2>1. k \notin x.keys
    <3>1. ~(n + 1 <= x.stacked)
      BY <1>2, <1>5
    <3>2. QED
      BY <1>2, <3>1 DEF Charged, NotYet
  <2> HIDE DEF k
  <2>2. Asked(s, j, t, k, f)
    BY <1>3, <1>5, FetchAsks DEF k
  <2>3. Charged(j, f, M, Taken(t, j, k), X) /\ f.job = t.job
    <3>1. k \in Key /\ k \notin t.job[j].keys
      BY <1>3, <2>1 DEF k
    <3>2. QED
      BY <3>1, ChargedFetch
  <2>4. u = IF ~Got(t, j, k) THEN f ELSE KeepStacked(f, j, n + 1, k)
    BY <1>2, <1>5 DEF StackUpper, k, KeepStacked
  <2> HIDE DEF f, u
  <2>5. CASE ~Got(t, j, k)
    BY <2>3, <2>4, <2>5 DEF u, Taken
  <2>6. CASE Got(t, j, k)
    <3> DEFINE g == KeepStacked(f, j, n + 1, k)
               y == StackedOn(x, n + 1, k)
    <3>1. Works(s, j, f) /\ f.job[j] = x /\ OnlyTracks(s, j, f)
      BY <2>2, <2>3 DEF Asked, Works
    <3>2. Rewritten(s, j, f, g, y)
      BY <3>1, WorksStacked
    <3>3. g.cache = f.cache /\ g.tasks = f.tasks
      BY <3>1 DEF OnlyTracks, StateFields, Keep, KeepStacked
    <3>4. /\ y.keys = x.keys \cup {k} /\ y.stacked = n + 1
          /\ y.bottom = x.bottom /\ y.deps = x.deps
      <4> HIDE DEF x
      <4>1. QED
        BY DEF TrackerTyped, StackedOn, x
    <3> HIDE DEF g, y
    <3>5. g.job[j] = y
      BY <3>2 DEF Rewritten
    <3>6. Booked(j, g, M, {})
      BY <2>3, <2>6, <3>1, <3>3, <3>4, <3>5, BookedKept DEF Charged, Taken
    <3>7. NotYet(j, y, X)
      BY <1>1, <1>2, <1>5, <3>4, NotYetStacked DEF Charged, k
    <3>8. QED
      BY <2>4, <2>6, <3>5, <3>6, <3>7 DEF Charged, g, u
  <2>7. QED
    BY <2>5, <2>6
<1>6. QED
  BY <1>4, <1>5

\* fetch_upper_layers
StacksCharged(r, i, t) == Stacks(r, i, t) /\ Charged(r.j, t, r.M, {}, r.X)

ChargedStackings == INSTANCE FoldTheorems WITH Op <- StackStep, Inv <- StacksCharged

LEMMA ChargedFold ==
  ASSUME NEW j, NEW t
  PROVE  FetchUpperLayers(t, j)
           = ChargedStackings!Fold(j, 0, t, [i \in 1 .. Len(Layers[j]) - 1 |-> i + 1])
<1> DEFINE q == [i \in 1 .. Len(Layers[j]) - 1 |-> i + 1]
<1> HIDE DEF q
<1>1. ChargedStackings!Fold(j, 0, t, q) = FoldLeft(LAMBDA h, n : StackUpper(h, j, n), t, q)
  BY DEF ChargedStackings!Fold, StackStep, FoldLeft, MapThenFoldSet, Max,
         ChargedStackings!Greatest
<1>2. QED
  BY <1>1, Zenon DEF FetchUpperLayers, q

LEMMA ChargedStackOne ==
  ASSUME NEW r, NEW j \in Job, r.j = j, NEW n \in 1 .. Len(Layers[j]) - 1, NEW t,
         StacksCharged(r, n - 1, t), r.M \in [Key -> Nat]
  PROVE  StacksCharged(r, n, StackUpper(t, j, n + 1))
<1> DEFINE x == t.job[j]
           k == Upper(Prefix(j, n + 1))
           M == r.M
           X == r.X
           s == r.s
<1>1. Stacks(r, n - 1, t) /\ Charged(j, t, M, {}, X)
  BY DEF StacksCharged
<1>2. Len(Layers[j]) \in Nat \ {0}
  BY LayersTyped
<1>3. n \in Nat /\ (n - 1) + 1 = n /\ n + 1 \in 2 .. Len(Layers[j]) /\ n < Len(Layers[j])
  BY <1>2
<1> DEFINE O == IF x.stacked >= n THEN NextUpper(j, x) ELSE {}
<1>4. /\ Works(s, j, t) /\ TrackerTyped(j, x)
      /\ TrackerRight(j, x, ListedIn(t, j), ReadFor(t.digests, j), O, r.D, {}, {})
      /\ \A d \in DOMAIN x.bottom : x.bottom[d].st = "ready"
  BY <1>1, <1>3 DEF Stacks, Right, TrackerRight
<1>5. k \in Key
  BY <1>3, KeyForms
<1>6. k \notin ListedIn(t, j) \/ x.stacked # n
  <2>1. SUFFICES ASSUME x.stacked = n PROVE k \notin ListedIn(t, j)
    OBVIOUS
  <2>2. NextUpper(j, x) = {k} /\ O = {k}
    BY <1>2, <1>3, <1>4, <2>1 DEF NextUpper
  <2>3. QED
    BY <1>4, <1>5, <2>2 DEF TrackerRight, Listens
<1> HIDE DEF M, X, s, k, x
<1>7. Charged(j, StackUpper(t, j, n + 1), M, {}, X)
  BY <1>1, <1>4, <1>6, ChargedStack DEF x, k, M
<1>8. Stacks(r, n, StackUpper(t, j, n + 1))
  BY <1>1, StacksOne DEF s
<1>9. QED
  BY <1>7, <1>8 DEF StacksCharged, M, X

LEMMA ChargedFetchUpper ==
  ASSUME NEW s, NEW j \in Job, NEW t, NEW D,
         Right(s, j, t, NextUpper(j, t.job[j]), D, {}, {}),
         \A d \in DOMAIN t.job[j].bottom : t.job[j].bottom[d].st = "ready",
         NEW M \in [Key -> Nat], NEW X, Charged(j, t, M, {}, X)
  PROVE  Charged(j, FetchUpperLayers(t, j), M, {}, X)
<1> DEFINE l == Len(Layers[j])
           q == [i \in 1 .. l - 1 |-> i + 1]
           r == [s |-> s, j |-> j, t |-> t, D |-> D, M |-> M, X |-> X]
           u == FetchUpperLayers(t, j)
<1>1. l \in Nat \ {0}
  BY LayersTyped
<1>2. q \in Seq(2 .. l) /\ Len(q) = l - 1 /\ \A n \in 1 .. l - 1 : q[n] = n + 1
  BY <1>1
<1>3. StacksCharged(r, 0, t)
  <2>1. t.job[j].stacked >= 0 + 1
    BY <1>1 DEF Right, TrackerRight, TrackerTyped
  <2>2. QED
    BY <2>1 DEF Stacks, StacksCharged
<1>4. r.j = j /\ r.M = M /\ r.X = X
  OBVIOUS
<1> HIDE DEF r
<1>5. ASSUME NEW a, NEW n \in 1 .. Len(q), q[n] \in 2 .. l, StacksCharged(r, n - 1, a)
      PROVE  StacksCharged(r, n, StackStep(j, 0, a, q[n]))
  <2>1. n \in 1 .. Len(Layers[j]) - 1 /\ q[n] = n + 1 /\ r.M \in [Key -> Nat]
    BY <1>2, <1>4
  <2> HIDE DEF q, l
  <2>2. StacksCharged(r, n, StackUpper(a, j, n + 1))
    BY <1>4, <1>5, <2>1, ChargedStackOne
  <2>3. QED
    BY <2>1, <2>2 DEF StackStep
<1> HIDE DEF q
<1>6. StacksCharged(r, Len(q), ChargedStackings!Fold(j, 0, t, q))
  BY <1>2, <1>3, <1>5, LeastOf, ChargedStackings!FoldKeeps
<1>7. u = ChargedStackings!Fold(j, 0, t, q)
  BY ChargedFold DEF q
<1> HIDE DEF u
<1>8. StacksCharged(r, Len(q), u)
  BY <1>6, <1>7
<1>9. QED
  BY <1>4, <1>8 DEF StacksCharged, u

\* got_upper_fs_layer
LEMMA ChargedGotUpper ==
  ASSUME NEW s, NEW j \in Job, NEW t, NEW D, NEW k \in Key, Right(s, j, t, {k}, D, {}, {}),
         k[1] = "upper", NEW M \in [Key -> Nat], NEW X, Charged(j, t, M, {k}, X)
  PROVE  Charged(j, GotUpperFsLayer(t, j, k), M, {}, X)
<1> DEFINE x == t.job[j]
           n == x.stacked + 1
           h == KeepStacked(t, j, n, k)
           y == StackedOn(x, n, k)
           u == GotUpperFsLayer(t, j, k)
<1>1. /\ Works(s, j, t) /\ TrackerTyped(j, x) /\ OnlyTracks(s, j, t)
      /\ TrackerRight(j, x, ListedIn(t, j), ReadFor(t.digests, j), {k}, D, {}, {})
      /\ Wants(j, x, k)
  BY DEF Right, TrackerRight, Listens, Works
<1>2. Len(Layers[j]) \in Nat \ {0} /\ x.stacked \in 1 .. Len(Layers[j])
  BY <1>1, LayersTyped DEF TrackerTyped
<1>3. /\ k = Upper(Prefix(j, n)) /\ x.stacked < Len(Layers[j])
      /\ \A d \in DOMAIN x.bottom : x.bottom[d].st = "ready"
      /\ NextUpper(j, x) = {k}
  BY <1>1 DEF Wants, NextUpper
<1>4. n \in 1 .. Len(Layers[j])
  BY <1>2, <1>3
<1>5. Rewritten(s, j, t, h, y)
  BY <1>1, WorksStacked
<1>6. y = [x EXCEPT !.stacked = @ + 1, !.keys = @ \cup {k}]
  BY DEF StackedOn
<1>7. /\ y.keys = x.keys \cup {k} /\ y.deps = x.deps /\ y.bottom = x.bottom
      /\ y.stacked = x.stacked + 1
  BY <1>1, <1>6 DEF TrackerTyped
<1>8. Stacking(j, x, {k}, k, y)
  BY <1>3, <1>6 DEF Stacking
<1>9. u = FetchUpperLayers(h, j)
  BY DEF GotUpperFsLayer, KeepStacked
<1>10. h.cache = t.cache /\ h.tasks = t.tasks
  BY <1>1 DEF OnlyTracks, StateFields, Keep, KeepStacked
<1> HIDE DEF x, y, h, u
<1>11. TrackerRight(j, y, ListedIn(t, j), ReadFor(t.digests, j), NextUpper(j, y), D, {}, {})
  BY <1>1, <1>8, UpperIsStacked
<1>12. /\ Right(s, j, h, NextUpper(j, h.job[j]), D, {}, {}) /\ h.job[j] = y
       /\ \A d \in DOMAIN h.job[j].bottom : h.job[j].bottom[d].st = "ready"
  BY <1>3, <1>5, <1>7, <1>11 DEF Right, Rewritten
<1>13. Booked(j, h, M, {})
  BY <1>7, <1>10, <1>12, BookedKept DEF Charged, x
<1>14. NotYet(j, y, X)
  <2>1. NotYet(j, x, X) /\ n = x.stacked + 1
    BY DEF Charged, x
  <2> HIDE DEF n
  <2>2. y.stacked = n /\ y.keys = x.keys \cup {Upper(Prefix(j, n))}
    BY <1>3, <1>7, <2>1
  <2>3. QED
    BY <1>2, <1>4, <1>7, <2>1, <2>2, NotYetStacked
<1>15. Charged(j, h, M, {}, X)
  BY <1>12, <1>13, <1>14 DEF Charged
<1>16. Charged(j, FetchUpperLayers(h, j), M, {}, X)
  BY <1>12, <1>15, ChargedFetchUpper
<1>17. QED
  BY <1>9, <1>16 DEF u

\* got_bottom_fs_layer
LEMMA ChargedGotBottom ==
  ASSUME NEW s, NEW j \in Job, NEW t, NEW O, NEW D, NEW d \in Digest,
         Right(s, j, t, O, D, {}, {}), Bottom(d) \in O,
         NEW M \in [Key -> Nat], NEW X, Charged(j, t, M, {Bottom(d)}, X)
  PROVE  Charged(j, GotBottomFsLayer(t, j, d), M, {}, X)
<1> DEFINE h == BottomReady(t, j, d)
           x == t.job[j]
           y == h.job[j]
           k == Bottom(d)
           u == GotBottomFsLayer(t, j, d)
<1>1. u = IF x.bottom[d] # WaitingForFsLayer THEN Panic(t)
          ELSE IF AllReady(y) THEN FetchUpperLayers(h, j) ELSE h
  BY DEF GotBottomFsLayer, BottomReady, SetBottom
<1>2. h.cache = t.cache /\ h.tasks = t.tasks
  BY DEF Right, Works, OnlyTracks, StateFields, BottomReady, SetBottom, Keep
<1> HIDE DEF h, u, k
<1>3. BottomTold(s, j, t, O, D, d, h)
  BY RightReady DEF h
<1>4. /\ d \in DOMAIN x.bottom /\ x.bottom[d] = WaitingForFsLayer /\ x.bottom[d].st = "fsLayer"
      /\ x.deps[d] = <<>>
      /\ DOMAIN y.bottom = DOMAIN x.bottom /\ y.bottom[d].st = "ready"
      /\ \A e \in DOMAIN x.bottom \ {d} : y.bottom[e] = x.bottom[e]
      /\ y.keys = x.keys \cup {k} /\ y.deps = x.deps /\ y.stacked = x.stacked
      /\ AllReady(y) <=> AllBottoms(y)
      /\ AllBottoms(y) => Right(s, j, h, NextUpper(j, y), D, {}, {})
  BY <1>3 DEF BottomTold, k
<1>5. Booked(j, h, M, {})
  BY <1>2, <1>4, BookedKept DEF Charged, k
<1>6. NotYet(j, y, X)
  <2>1. /\ \A e \in Digest : Blob(e) \in y.keys <=> Blob(e) \in x.keys
        /\ \A e \in Digest : Bottom(e) \in y.keys <=> Bottom(e) \in x.keys \/ e = d
        /\ \A p : Upper(p) \in y.keys <=> Upper(p) \in x.keys
    BY <1>4, KeysDiffer DEF k
  <2>2. NotYet(j, x, X)
    BY DEF Charged
  <2> HIDE DEF x, y
  <2>3. \A e \in Digest : Blob(e) \in y.keys \ X =>
           (e \in DOMAIN y.bottom => y.bottom[e].st # "artifact") /\ y.deps[e] = <<>>
    BY <1>4, <2>1, <2>2 DEF NotYet
  <2>4. \A e \in Digest : Bottom(e) \in y.keys => e \in DOMAIN y.bottom /\ y.bottom[e].st = "ready"
    BY <1>4, <2>1, <2>2 DEF NotYet
  <2>5. QED
    BY <1>4, <2>1, <2>2, <2>3, <2>4 DEF NotYet
<1>7. Charged(j, h, M, {}, X)
  BY <1>5, <1>6 DEF Charged
<1>8. CASE ~AllBottoms(y)
  BY <1>1, <1>4, <1>7, <1>8 DEF u
<1>9. CASE AllBottoms(y)
  <2>1. u = FetchUpperLayers(h, j)
    BY <1>1, <1>4, <1>9
  <2>2. /\ Right(s, j, h, NextUpper(j, h.job[j]), D, {}, {})
        /\ \A e \in DOMAIN h.job[j].bottom : h.job[j].bottom[e].st = "ready"
    BY <1>4, <1>9 DEF AllBottoms
  <2>3. Charged(j, FetchUpperLayers(h, j), M, {}, X)
    BY <1>7, <2>2, ChargedFetchUpper
  <2>4. QED
    BY <2>1, <2>3 DEF u
<1>10. QED
  BY <1>8, <1>9

\* fetch_bottom_fs_layer
LEMMA ChargedFetchBottom ==
  ASSUME NEW s, NEW j \in Job, NEW t, NEW O, NEW D, NEW d \in Digest,
         Works(s, j, t), TrackerTyped(j, t.job[j]),
         TrackerRight(j, WithBottom(t.job[j], d, WaitingForFsLayer), ListedIn(t, j),
                      ReadFor(t.digests, j), O, D, {}, {}),
         Bottom(d) \in O, t.job[j].bottom[d].st # "ready",
         NEW M \in [Key -> Nat], NEW X, Charged(j, t, M, {}, X), NEW Z, X \ {Blob(d)} \subseteq Z
  PROVE  Charged(j, FetchBottomFsLayer(t, j, d), M, {}, Z)
<1> DEFINE x == t.job[j]
           k == Bottom(d)
           y == WithBottom(x, d, WaitingForFsLayer)
           f == Fetch(t, j, k)
           h == SetBottom(f, j, d, WaitingForFsLayer)
           u == FetchBottomFsLayer(t, j, d)
           L == ListedIn(t, j)
           R == ReadFor(t.digests, j)
<1>1. k \in Key /\ k \in O /\ TrackerRight(j, y, L, R, O, D, {}, {})
  BY KeyForms
<1>2. k \notin x.keys
  BY DEF Charged, NotYet
<1>3. Charged(j, f, M, Taken(t, j, k), X) /\ f.job = t.job
  BY <1>1, <1>2, ChargedFetch
<1>4. /\ y.deps = x.deps /\ y.keys = x.keys /\ y.stacked = x.stacked
      /\ y.bottom = [x.bottom EXCEPT ![d] = WaitingForFsLayer]
  BY DEF WithBottom, TrackerTyped
<1> HIDE DEF y, k
<1>5. k \notin L /\ d \in DOMAIN y.bottom /\ y.bottom[d].st = "fsLayer" /\ y.deps[d] = <<>>
  <2>1. k \notin L /\ Wants(j, y, k) /\ Depends(y, {}, {})
    BY <1>1 DEF TrackerRight, Listens
  <2>2. d \in DOMAIN y.bottom /\ y.bottom[d].st = "fsLayer"
    BY <2>1, WantsForms DEF k
  <2>3. QED
    BY <2>1, <2>2 DEF Depends
<1>6. Asked(s, j, t, k, f)
  BY <1>1, <1>5, FetchAsks
<1> HIDE DEF f
<1>7. Works(s, j, f) /\ f.job[j] = x /\ OnlyTracks(s, j, f)
  BY <1>6 DEF Asked, Works
<1>8. h.cache = f.cache /\ h.tasks = f.tasks
  BY <1>7 DEF OnlyTracks, StateFields, SetBottom
<1>9. Rewritten(s, j, f, h, y)
  BY <1>7, WorksBottom DEF y
<1> HIDE DEF h, x
<1>10. /\ Works(s, j, h) /\ h.job[j] = y /\ ReadFor(h.digests, j) = R
       /\ ListedIn(h, j) = IF Got(t, j, k) THEN L ELSE L \cup {k}
  BY <1>6, <1>9 DEF Asked, Rewritten
<1>11. Changed(x, y, d)
  BY <1>4, <1>5 DEF Changed
<1>12. NotYet(j, y, Z)
  <2>1. NotYet(j, x, X) /\ x.bottom[d].st # "ready"
    BY <1>3, <1>7 DEF Charged, x
  <2>2. y.bottom[d].st # "artifact"
    BY <1>5
  <2>3. QED
    BY <1>5, <1>11, <2>1, <2>2, NotYetChanged
<1>13. Booked(j, h, M, Taken(t, j, k))
  <2>1. h.job[j].keys = f.job[j].keys
    BY <1>4, <1>7, <1>10
  <2>2. Booked(j, f, M, Taken(t, j, k))
    BY <1>3 DEF Charged
  <2>3. QED
    BY <1>8, <2>1, <2>2, BookedSame
<1>14. Charged(j, h, M, Taken(t, j, k), Z)
  BY <1>10, <1>12, <1>13 DEF Charged
<1>15. u = IF Got(t, j, k) THEN GotBottomFsLayer(h, j, d) ELSE h
  BY DEF FetchBottomFsLayer, SetBottom, h, f, k
<1> HIDE DEF L, R, u
<1>16. CASE Got(t, j, k)
  <2>1. Right(s, j, h, O, D, {}, {}) /\ Charged(j, h, M, {k}, Z)
    BY <1>1, <1>10, <1>14, <1>16 DEF Right, Taken
  <2>2. QED
    BY <1>1, <1>15, <1>16, <2>1, ChargedGotBottom DEF k, u
<1>17. CASE ~Got(t, j, k)
  BY <1>14, <1>15, <1>17 DEF u, Taken
<1>18. QED
  BY <1>16, <1>17

\* The manifest m is told that one artifact it waits for is there.
LEMMA ChargedOneLess ==
  ASSUME NEW s, NEW j \in Job, NEW t, NEW O, NEW D, NEW m \in D, Right(s, j, t, O, D, {}, {}),
         NEW M \in [Key -> Nat], NEW X, Charged(j, t, M, {}, X)
  PROVE  Charged(j, OneLess(t, j, m), M, {}, X)
<1> DEFINE x == t.job[j]
           u == OneLess(t, j, m)
           L == ListedIn(t, j)
           R == ReadFor(t.digests, j)
           left == x.bottom[m].left
<1>1. /\ Works(s, j, t) /\ TrackerTyped(j, x) /\ TrackerRight(j, x, L, R, O, D, {}, {})
      /\ m \in DOMAIN x.bottom /\ x.bottom[m].st = "artifacts"
  BY DEF Right, TrackerRight, Counts
<1>2. /\ m \in Digest /\ x.bottom[m] \in PendingBottomLayer
      /\ OnlyTracks(s, j, t)
  BY <1>1, LayersTyped DEF TrackerTyped, Works
<1>7. x.deps[m] = <<>>
  BY <1>1, <1>2 DEF TrackerRight, Depends
<1>3. left \in Nat \ {0}
  BY <1>1, <1>2, BottomForms
<1> HIDE DEF L, R, left, x
<1>4. CASE left = 1
  <2> DEFINE y == WithBottom(x, m, WaitingForFsLayer)
             Q == O \cup {Bottom(m)}
  <2>1. TrackerTyped(j, y) /\ Changed(x, y, m) /\ y.bottom[m] = WaitingForFsLayer
    BY <1>1, <1>2, ChangedBottom, BottomForms DEF WithBottom
  <2>2. u = FetchBottomFsLayer(t, j, m)
    BY <1>1, <1>4 DEF OneLess, x, left
  <2> HIDE DEF y, u
  <2>3. y.bottom[m].st = "fsLayer" /\ x.bottom[m].left = 1
    BY <1>4, <2>1, BottomForms DEF left
  <2>4. TrackerRight(j, y, L, R, Q, D \ {m}, {}, {})
    BY <1>1, <1>2, <2>1, <2>3, LastIsThere
  <2>5. Bottom(m) \in Q /\ x.bottom[m].st # "ready" /\ X \ {Blob(m)} \subseteq X
    BY <1>1
  <2> HIDE DEF Q
  <2>6. Charged(j, FetchBottomFsLayer(t, j, m), M, {}, X)
    BY <1>1, <1>2, <2>4, <2>5, ChargedFetchBottom DEF x, y, L, R
  <2>7. QED
    BY <2>2, <2>6 DEF u
<1>5. CASE left # 1
  <2> DEFINE b == WaitingForArtifacts(left - 1)
             y == WithBottom(x, m, b)
  <2>1. b \in PendingBottomLayer /\ b.st = "artifacts" /\ b.left = left - 1
    <3>1. left - 1 \in Nat \ {0}
      BY <1>3, <1>5
    <3>2. QED
      BY <3>1, BottomForms
  <2> HIDE DEF b
  <2>2. TrackerTyped(j, y) /\ Changed(x, y, m) /\ y.bottom[m] = b
    BY <1>1, <1>2, <2>1, ChangedBottom DEF WithBottom
  <2>3. u = SetBottom(t, j, m, b)
    BY <1>1, <1>5 DEF OneLess, x, left, b, SetBottom
  <2>4. u.cache = t.cache /\ u.tasks = t.tasks
    BY <1>2, <2>3 DEF OnlyTracks, StateFields, SetBottom
  <2> HIDE DEF y, u
  <2>5. Rewritten(s, j, t, u, y)
    BY <1>1, <2>3, WorksBottom DEF y, x
  <2>6. u.job[j] = y /\ y.deps = x.deps /\ y.keys = x.keys
    BY <2>2, <2>5 DEF Changed, Rewritten
  <2>7. NotYet(j, y, X)
    <3>1. NotYet(j, x, X) /\ x.bottom[m].st # "ready"
      BY <1>1 DEF Charged, x
    <3>2. y.bottom[m].st # "artifact" /\ y.deps[m] = <<>> /\ X \ {Blob(m)} \subseteq X
      BY <1>1, <1>7, <2>1, <2>2, <2>6
    <3>3. QED
      BY <1>2, <2>2, <3>1, <3>2, NotYetChanged
  <2>8. Booked(j, u, M, {})
    BY <2>4, <2>6, BookedSame DEF Charged, x
  <2>9. QED
    BY <2>6, <2>7, <2>8 DEF Charged, u
<1>6. QED
  BY <1>4, <1>5

\* got_manifest_artifact
LessensCharged(r, i, t) == Lessens(r, i, t) /\ Charged(r.j, t, r.M, {}, r.X)

ChargedTellings == INSTANCE FoldTheorems WITH Op <- LessStep, Inv <- LessensCharged

LEMMA ChargedTellingsFold ==
  ASSUME NEW j, NEW t, NEW d
  PROVE  GotManifestArtifact(t, j, d)
           = ChargedTellings!Fold(j, 0, SetDeps(t, j, d, <<>>), t.job[j].deps[d])
<1> DEFINE q == t.job[j].deps[d]
           h == SetDeps(t, j, d, <<>>)
<1> HIDE DEF q, h
<1>1. ChargedTellings!Fold(j, 0, h, q) = FoldLeft(LAMBDA g, m : OneLess(g, j, m), h, q)
  BY DEF ChargedTellings!Fold, LessStep, FoldLeft, MapThenFoldSet, Max,
         ChargedTellings!Greatest
<1>2. QED
  BY <1>1, Zenon DEF GotManifestArtifact, q, h, SetDeps

LEMMA ChargedManifestArtifact ==
  ASSUME NEW s, NEW j \in Job, NEW t, NEW O, NEW d \in Digest, Right(s, j, t, O, {}, {}, {}),
         Blob(d) \in O, Blob(d) \in t.job[j].keys,
         NEW M \in [Key -> Nat], NEW X, Charged(j, t, M, {}, X)
  PROVE  Charged(j, GotManifestArtifact(t, j, d), M, {}, X)
<1> DEFINE x == t.job[j]
           q == x.deps[d]
           h == SetDeps(t, j, d, <<>>)
           y == WithDeps(x, d, <<>>)
           L == ListedIn(t, j)
           R == ReadFor(t.digests, j)
           Q == IF d \in ToSet(Layers[j]) THEN O ELSE O \ {Blob(d)}
           r == [s |-> s, j |-> j, t |-> h, O |-> Q, q |-> q, M |-> M, X |-> X]
           u == GotManifestArtifact(t, j, d)
<1>1. /\ Works(s, j, t) /\ TrackerTyped(j, x) /\ TrackerRight(j, x, L, R, O, {}, {}, {})
      /\ q \in Seq(Manifest) /\ OnlyTracks(s, j, t) /\ DOMAIN x.bottom = ToSet(Layers[j])
  BY DEF Right, TrackerRight, TrackerTyped, Works
<1>2. /\ y.keys = x.keys /\ y.bottom = x.bottom /\ y.stacked = x.stacked
      /\ y.deps = [x.deps EXCEPT ![d] = <<>>]
  BY <1>1 DEF TrackerTyped, WithDeps
<1>3. Rewritten(s, j, t, h, y)
  <2>1. <<>> \in Seq(Manifest)
    OBVIOUS
  <2>2. QED
    BY <1>1, <2>1, WorksDeps
<1>4. u = ChargedTellings!Fold(j, 0, h, q)
  BY ChargedTellingsFold
<1>5. h.cache = t.cache /\ h.tasks = t.tasks
  BY <1>1 DEF OnlyTracks, StateFields, SetDeps
<1>6. y.deps[d] = <<>> /\ \A e \in Digest \ {d} : y.deps[e] = x.deps[e]
  BY <1>1, <1>2 DEF TrackerTyped
<1> HIDE DEF x, h, u, L, R
<1>7. TrackerRight(j, y, L, R, Q, ToSet(q), {}, {})
  <2>1. Blob(d) \in x.keys
    BY DEF x
  <2>2. AboutToTell(j, x, d, L, R, O)
    BY <1>1, <2>1, DependentsAreTold
  <2>3. QED
    BY <1>1, <2>2 DEF AboutToTell
<1> HIDE DEF q, Q, y
<1>8. r.s = s /\ r.j = j /\ r.t = h /\ r.O = Q /\ r.q = q /\ r.M = M /\ r.X = X
  OBVIOUS
<1> HIDE DEF r
<1>9. h.job[j] = y
  BY <1>3 DEF Rewritten
<1>10. Charged(j, h, M, {}, X)
  <2>1. NotYet(j, y, X)
    BY <1>2, <1>6, NotYetDeps DEF Charged, x
  <2>2. Booked(j, h, M, {})
    BY <1>2, <1>5, <1>9, BookedSame DEF Charged, x
  <2>3. QED
    BY <1>9, <2>1, <2>2 DEF Charged
<1>11. LessensCharged(r, 0, h)
  <2>1. Rest(q, 0) = ToSet(q)
    BY <1>1, RestForms
  <2>2. Right(s, j, h, Q, Rest(q, 0), {}, {})
    BY <1>3, <1>7, <2>1 DEF Right, Rewritten, L, R
  <2>3. QED
    BY <1>8, <1>10, <2>2 DEF Lessens, LessensCharged
<1>12. IsInjective(q)
  BY <1>1 DEF TrackerRight, Depends, q
<1>13. ASSUME NEW a, NEW n \in 1 .. Len(q), q[n] \in Manifest, LessensCharged(r, n - 1, a)
      PROVE  LessensCharged(r, n, LessStep(j, 0, a, q[n]))
  <2> DEFINE D == Rest(q, n - 1)
             m == q[n]
             b == OneLess(a, j, m)
  <2>1. /\ Right(s, j, a, Q, D, {}, {}) /\ Charged(j, a, M, {}, X)
        /\ a.job[j].deps = h.job[j].deps /\ h.job[j].keys \subseteq a.job[j].keys
    BY <1>8, <1>13 DEF Lessens, LessensCharged
  <2>2. m \in D /\ Rest(q, n) = D \ {m}
    BY <1>1, <1>12, RestForms
  <2> HIDE DEF D, m, b
  <2>3. Right(s, j, b, Q, D \ {m}, {}, {}) /\ Further(j, a, b)
    BY <2>1, <2>2, RightOneLess DEF b
  <2>4. Charged(j, b, M, {}, X)
    BY <2>1, <2>2, ChargedOneLess DEF b
  <2>5. LessensCharged(r, n, b)
    BY <1>8, <2>1, <2>2, <2>3, <2>4 DEF Lessens, LessensCharged, Further
  <2>6. QED
    BY <1>8, <2>5 DEF LessStep, b, m
<1>14. LessensCharged(r, Len(q), u)
  BY <1>1, <1>4, <1>11, <1>13, LeastOf, ChargedTellings!FoldKeeps
<1>15. QED
  BY <1>8, <1>14 DEF LessensCharged, u

\* got_artifact
LEMMA ChargedGotArtifact ==
  ASSUME NEW s, NEW j \in Job, NEW t, NEW O, NEW d \in Digest, Right(s, j, t, O, {}, {}, {}),
         Blob(d) \in O, NEW M \in [Key -> Nat], Charged(j, t, M, {Blob(d)}, {})
  PROVE  Charged(j, GotArtifact(t, j, d), M, {}, {})
<1> DEFINE k == Blob(d)
           a == Keep(t, j, k)
           h == GotManifestArtifact(a, j, d)
           x == h.job[j]
           u == GotArtifact(t, j, d)
           L == ListedIn(h, j)
           R == ReadFor(h.digests, j)
           K == {k}
<1>1. k \in Needed(j)
  BY BlobIsNeeded DEF Right
<1>2. /\ Right(s, j, a, O, {}, {}, {}) /\ Further(j, t, a) /\ k \in a.job[j].keys
  BY <1>1, RightKeep
<1>3. u = IF d \notin DOMAIN x.bottom
          THEN IF t.job[j].deps[d] = <<>> THEN Panic(h) ELSE h
          ELSE IF x.bottom[d] # WaitingForArtifact THEN Panic(h)
          ELSE IF d \in Manifest
          THEN [h EXCEPT !.digests = Digests!Get(@, d, j), !.job[j].bottom[d] = WaitingForDigests]
          ELSE FetchBottomFsLayer(h, j, d)
  BY DEF GotArtifact
<1>4. Charged(j, a, M, {}, K)
  <2> DEFINE y == WithKey(t.job[j], k)
  <2>1. Works(s, j, t) /\ OnlyTracks(s, j, t) /\ TrackerTyped(j, t.job[j])
    BY DEF Right, TrackerRight, Works
  <2>2. a.cache = t.cache /\ a.tasks = t.tasks
    BY <2>1 DEF OnlyTracks, StateFields, Keep
  <2>3. Rewritten(s, j, t, a, y)
    BY <2>1, WorksKey
  <2>4. /\ y.keys = t.job[j].keys \cup {k} /\ y.bottom = t.job[j].bottom
        /\ y.deps = t.job[j].deps /\ y.stacked = t.job[j].stacked
    BY <2>1 DEF TrackerTyped, WithKey
  <2> HIDE DEF y, a
  <2>5. a.job[j] = y
    BY <2>3 DEF Rewritten
  <2>6. Booked(j, a, M, {})
    BY <2>2, <2>4, <2>5, BookedKept DEF Charged
  <2>7. NotYet(j, y, K)
    <3>1. NotYet(j, t.job[j], {}) /\ {} \subseteq K /\ Blob(d) \in K
      BY DEF Charged
    <3> HIDE DEF K
    <3>2. QED
      BY <2>4, <3>1, NotYetBlob
  <2>8. QED
    BY <2>5, <2>6, <2>7 DEF Charged
<1> HIDE DEF a, u, K
<1>5. /\ Right(s, j, h, IF d \in ToSet(Layers[j]) THEN O ELSE O \ {k}, {}, {}, {})
      /\ x.deps[d] = <<>> /\ a.job[j].keys \subseteq x.keys
      /\ d \notin ToSet(Layers[j]) => a.job[j].deps[d] # <<>>
  <2>1. ManifestsTold(s, j, a, O, d, h)
    BY <1>2, RightManifestArtifact
  <2>2. QED
    BY <2>1 DEF ManifestsTold
<1>6. Charged(j, h, M, {}, K)
  BY <1>2, <1>4, ChargedManifestArtifact
<1> HIDE DEF h
<1>7. TrackerTyped(j, x) /\ DOMAIN x.bottom = ToSet(Layers[j]) /\ Works(s, j, h)
  BY <1>5 DEF Right, TrackerRight, TrackerTyped
<1>8. CASE d \notin DOMAIN x.bottom
  <2>1. t.job[j].deps[d] # <<>>
    BY <1>2, <1>5, <1>7, <1>8 DEF Further
  <2>2. u = h
    BY <1>3, <1>8, <2>1
  <2>3. NotYet(j, x, K)
    BY <1>6 DEF Charged
  <2>4. \A e \in Digest : Blob(e) \in x.keys \ {} => Blob(e) \in x.keys \ K \/ e = d
    BY KeysDiffer DEF K
  <2>5. NotYet(j, x, {})
    BY <1>5, <1>8, <2>3, <2>4 DEF NotYet
  <2>6. QED
    BY <1>6, <2>2, <2>5 DEF Charged, u
<1>9. CASE d \in DOMAIN x.bottom
  <2>1. TrackerRight(j, x, L, R, O, {}, {}, {}) /\ k \in x.keys /\ x.deps[d] = <<>>
    BY <1>2, <1>5, <1>7, <1>9 DEF Right
  <2>2. k \in Key /\ Bottom(d) \in Key
    BY KeyForms
  <2>3. Wants(j, x, k) /\ (Bottom(d) \in O => Wants(j, x, Bottom(d)))
    BY <2>1, <2>2 DEF TrackerRight, Listens
  <2>4. x.bottom[d].st = "artifact"
    BY <2>1, <2>3, WantsForms
  <2>5. x.bottom[d] = WaitingForArtifact /\ Bottom(d) \notin O
    <3>1. x.bottom[d] \in PendingBottomLayer
      BY <1>7, <1>9 DEF TrackerTyped
    <3>2. QED
      BY <2>3, <2>4, <3>1, BottomForms, WantsForms
  <2>6. CASE d \in Manifest
    <3> DEFINE g == GetDigests(h, j, d)
               y == WithBottom(x, d, WaitingForDigests)
    <3>1. TrackerTyped(j, y) /\ Changed(x, y, d) /\ y.bottom[d] = WaitingForDigests
      BY <1>7, <1>9, ChangedBottom, BottomForms DEF WithBottom
    <3>2. y.bottom[d].st = "digests" /\ y.deps[d] = <<>>
      BY <2>1, <3>1, BottomForms DEF Changed
    <3>3. d \notin R
      BY <2>1, <2>4 DEF TrackerRight, Reads
    <3>4. u = SetBottom(g, j, d, WaitingForDigests)
      <4>1. u = [h EXCEPT !.digests = Digests!Get(@, d, j), !.job[j].bottom[d] = WaitingForDigests]
        BY <1>3, <1>9, <2>5, <2>6
      <4>2. QED
        BY <1>7, <4>1 DEF SetBottom, GetDigests, Works, OnlyTracks, StateFields
    <3>5. g.cache = h.cache /\ g.tasks = h.tasks
      BY <1>7 DEF Works, OnlyTracks, StateFields, GetDigests
    <3> HIDE DEF x, y, L, R, g
    <3>6. Gets(s, j, h, d, g)
      BY <1>7, <2>6, <3>3, DigestsAreGot DEF g, R
    <3>7. Works(s, j, g) /\ g.job[j] = x /\ OnlyTracks(s, j, g)
      BY <3>6 DEF Gets, x, Works
    <3>8. Rewritten(s, j, g, u, y) /\ u.cache = g.cache /\ u.tasks = g.tasks
      <4>1. Rewritten(s, j, g, u, y)
        BY <3>4, <3>7, WorksBottom DEF y
      <4>2. QED
        BY <3>4, <3>7, <4>1 DEF OnlyTracks, StateFields, SetBottom
    <3>9. u.job[j] = y /\ y.keys = x.keys
      BY <3>1, <3>8 DEF Rewritten, Changed
    <3>10. NotYet(j, y, {})
      <4>1. NotYet(j, x, K) /\ x.bottom[d].st # "ready"
        BY <1>6, <2>4 DEF Charged, x
      <4>2. K \ {Blob(d)} \subseteq {} /\ y.bottom[d].st # "artifact"
        BY <3>2 DEF K
      <4>3. QED
        BY <3>1, <3>2, <4>1, <4>2, NotYetChanged
    <3>11. Booked(j, u, M, {})
      <4>1. Booked(j, h, M, {}) /\ u.cache = h.cache /\ u.tasks = h.tasks
            /\ u.job[j].keys = h.job[j].keys
        BY <1>6, <3>5, <3>8, <3>9 DEF Charged, x
      <4>2. QED
        BY <4>1, BookedSame
    <3>12. QED
      BY <3>9, <3>10, <3>11 DEF Charged, u
  <2>7. CASE d \notin Manifest
    <3> DEFINE y == WithBottom(x, d, WaitingForFsLayer)
               Q == (O \ {k}) \cup {Bottom(d)}
    <3>1. TrackerTyped(j, y) /\ Changed(x, y, d) /\ y.bottom[d] = WaitingForFsLayer
      BY <1>7, <1>9, ChangedBottom, BottomForms DEF WithBottom
    <3>2. y.bottom[d].st = "fsLayer"
      BY <3>1, BottomForms
    <3>3. TrackerRight(j, y, L, R, Q, {}, {}, {})
      <4> HIDE DEF x, y, L, R
      <4>1. QED
        BY <2>1, <2>4, <2>7, <3>1, <3>2, LayerIsBuilt
    <3>4. u = FetchBottomFsLayer(h, j, d)
      BY <1>3, <1>9, <2>5, <2>7
    <3>5. Bottom(d) \in Q /\ x.bottom[d].st # "ready" /\ K \ {Blob(d)} \subseteq {}
      BY <2>4 DEF K
    <3> HIDE DEF Q
    <3>6. Charged(j, FetchBottomFsLayer(h, j, d), M, {}, {})
      BY <1>6, <1>7, <3>3, <3>5, ChargedFetchBottom
    <3>7. QED
      BY <3>4, <3>6 DEF u
  <2>8. QED
    BY <2>6, <2>7
<1>10. QED
  BY <1>8, <1>9

\* The manifest m lists d.
LEMMA ChargedNeedEntry ==
  ASSUME NEW s, NEW j \in Job, NEW t, NEW m \in Manifest, NEW T, Right(s, j, t, {}, {}, {m}, T),
         NEW d \in T, d \in Entries[m], NEW M \in [Key -> Nat], Charged(j, t, M, {}, {})
  PROVE  Charged(j, NeedEntry(t, j, m, d), M, {}, {})
<1> DEFINE x == t.job[j]
           k == Blob(d)
           L == ListedIn(t, j)
           q == Append(x.deps[d], m)
           y == WithDeps(x, d, q)
           u == NeedEntry(t, j, m, d)
<1>1. /\ Works(s, j, t) /\ TrackerTyped(j, x) /\ OnlyTracks(s, j, t)
      /\ TrackerRight(j, x, L, ReadFor(t.digests, j), {}, {}, {m}, T)
      /\ d \in Digest /\ k \in Key
  BY LayersAssumption, KeyForms DEF Right, TrackerRight, Works
<1>2. u = IF k \in x.keys THEN t
          ELSE IF x.deps[d] # <<>> \/ d \in DOMAIN x.bottom THEN SetDeps(t, j, d, q)
          ELSE FetchEntry(t, j, m, d)
  BY DEF NeedEntry, Depend, SetDeps
<1>3. q \in Seq(Manifest)
  BY <1>1 DEF TrackerTyped
<1>4. /\ y.keys = x.keys /\ y.bottom = x.bottom /\ y.stacked = x.stacked
      /\ \A e \in Digest \ {d} : y.deps[e] = x.deps[e]
  <2> HIDE DEF x, q
  <2>1. QED
    BY <1>1 DEF TrackerTyped, WithDeps
<1>5. NotYet(j, x, {})
  BY DEF Charged
<1> HIDE DEF k, u, q, y, x
<1>6. k \notin x.keys => NotYet(j, y, {})
  BY <1>1, <1>4, <1>5, NotYetDeps DEF k
<1>7. ASSUME NEW P, NEW a, Works(s, j, a), Charged(j, a, M, P, {}), a.job[j] = x, k \notin x.keys
      PROVE  Charged(j, SetDeps(a, j, d, q), M, P, {})
  <2> DEFINE b == SetDeps(a, j, d, q)
  <2>1. b.cache = a.cache /\ b.tasks = a.tasks
    BY <1>7 DEF Works, OnlyTracks, StateFields, SetDeps
  <2> HIDE DEF b
  <2>2. Rewritten(s, j, a, b, y)
    BY <1>3, <1>7, WorksDeps DEF y, b
  <2>3. b.job[j] = y
    BY <2>2 DEF Rewritten
  <2>4. Booked(j, b, M, P)
    BY <1>4, <1>7, <2>1, <2>3, BookedSame DEF Charged
  <2>5. QED
    BY <1>6, <1>7, <2>3, <2>4 DEF Charged, b
<1>8. CASE k \in x.keys
  BY <1>2, <1>8 DEF u
<1>9. CASE k \notin x.keys /\ (x.deps[d] # <<>> \/ d \in DOMAIN x.bottom)
  <2>1. u = SetDeps(t, j, d, q)
    BY <1>2, <1>9
  <2>2. QED
    BY <1>1, <1>7, <1>9, <2>1 DEF x, u
<1>10. CASE k \notin x.keys /\ x.deps[d] = <<>> /\ d \notin DOMAIN x.bottom
  <2> DEFINE f == Fetch(t, j, k)
  <2>1. k \notin L
    <3>1. k \in L <=> Wants(j, x, k)
      BY <1>1 DEF TrackerRight, Listens
    <3>2. QED
      BY <1>10, <3>1, WantsForms DEF k
  <2>2. Asked(s, j, t, k, f)
    BY <1>1, <2>1, FetchAsks
  <2>3. Charged(j, f, M, Taken(t, j, k), {})
    BY <1>1, <1>10, ChargedFetch DEF x
  <2>4. u = IF Got(t, j, k) THEN Keep(f, j, k) ELSE Depend(f, j, m, d)
    BY <1>2, <1>10 DEF FetchEntry, k
  <2> HIDE DEF f
  <2>5. Works(s, j, f) /\ f.job[j] = x /\ OnlyTracks(s, j, f)
    BY <2>2 DEF Asked, x, Works
  <2>6. CASE Got(t, j, k)
    <3> DEFINE g == Keep(f, j, k)
               z == WithKey(x, k)
    <3>1. g.cache = f.cache /\ g.tasks = f.tasks
      BY <2>5 DEF OnlyTracks, StateFields, Keep
    <3>2. z.keys = x.keys \cup {k} /\ z.bottom = x.bottom /\ z.deps = x.deps /\ z.stacked = x.stacked
      BY <1>1 DEF TrackerTyped, WithKey
    <3>3. Rewritten(s, j, f, g, z)
      BY <2>5, WorksKey
    <3> HIDE DEF g, z
    <3>4. g.job[j] = z
      BY <3>3 DEF Rewritten
    <3>5. Booked(j, g, M, {})
      BY <2>3, <2>5, <2>6, <3>1, <3>2, <3>4, BookedKept DEF Charged, Taken
    <3>6. NotYet(j, z, {})
      BY <1>1, <1>5, <1>10, <3>2, NotYetBlob DEF k
    <3>7. QED
      BY <2>4, <2>6, <3>4, <3>5, <3>6 DEF Charged, g, u
  <2>7. CASE ~Got(t, j, k)
    <3>1. u = SetDeps(f, j, d, q)
      BY <2>4, <2>5, <2>7 DEF Depend, SetDeps, q
    <3>2. Charged(j, f, M, {}, {})
      BY <2>3, <2>7 DEF Taken
    <3>3. QED
      BY <1>7, <1>10, <2>5, <3>1, <3>2 DEF u
  <2>8. QED
    BY <2>6, <2>7
<1>11. QED
  BY <1>8, <1>9, <1>10

EntriesCharged(r, i, t) == EntriesGone(r, i, t) /\ Charged(r.j, t, r.M, {}, {})

ChargedEntries == INSTANCE FoldTheorems WITH Op <- NeedStep, Inv <- EntriesCharged

LEMMA ChargedEntriesFold ==
  ASSUME NEW j, NEW t, NEW m
  PROVE  EntriesOf(t, j, m) = ChargedEntries!Fold(j, m, t, SetToSeq(Entries[m]))
<1> DEFINE q == SetToSeq(Entries[m])
<1> HIDE DEF q
<1>1. ChargedEntries!Fold(j, m, t, q) = FoldLeft(LAMBDA g, d : NeedEntry(g, j, m, d), t, q)
  BY DEF ChargedEntries!Fold, NeedStep, FoldLeft, MapThenFoldSet, Max,
         ChargedEntries!Greatest
<1>2. QED
  BY <1>1, Zenon DEF EntriesOf, q

LEMMA ChargedEntriesOf ==
  ASSUME NEW s, NEW j \in Job, NEW t, NEW m \in Manifest, Right(s, j, t, {}, {}, {m}, Entries[m]),
         NEW M \in [Key -> Nat], Charged(j, t, M, {}, {})
  PROVE  Charged(j, EntriesOf(t, j, m), M, {}, {})
<1> DEFINE S == Entries[m]
           q == SetToSeq(S)
           r == [s |-> s, j |-> j, m |-> m, q |-> q, M |-> M]
           u == EntriesOf(t, j, m)
<1>1. q \in Seq(S) /\ IsInjective(q) /\ ToSet(q) = S
  BY LayersAssumption, SetToSeqOfFinite
<1>2. u = ChargedEntries!Fold(j, m, t, q)
  BY ChargedEntriesFold
<1>3. r.s = s /\ r.j = j /\ r.m = m /\ r.q = q /\ r.M = M
  OBVIOUS
<1> HIDE DEF q, r, u
<1>4. EntriesCharged(r, 0, t)
  BY <1>1, <1>3, RestForms DEF EntriesGone, EntriesCharged
<1>5. ASSUME NEW a, NEW n \in 1 .. Len(q), q[n] \in S, EntriesCharged(r, n - 1, a)
      PROVE  EntriesCharged(r, n, NeedStep(j, m, a, q[n]))
  <2> DEFINE T == Rest(q, n - 1)
             d == q[n]
  <2>1. Right(s, j, a, {}, {}, {m}, T) /\ d \in S /\ Charged(j, a, M, {}, {})
    BY <1>3, <1>5 DEF EntriesGone, EntriesCharged
  <2>2. d \in T /\ Rest(q, n) = T \ {d}
    BY <1>1, RestForms
  <2> HIDE DEF T, d
  <2>3. Right(s, j, NeedEntry(a, j, m, d), {}, {}, {m}, T \ {d})
    BY <2>1, <2>2, RightNeedEntry
  <2>4. Charged(j, NeedEntry(a, j, m, d), M, {}, {})
    BY <2>1, <2>2, ChargedNeedEntry
  <2>5. QED
    BY <1>3, <2>2, <2>3, <2>4 DEF EntriesGone, EntriesCharged, NeedStep, d
<1> HIDE DEF S
<1>6. EntriesCharged(r, Len(q), u)
  BY <1>1, <1>2, <1>4, <1>5, LeastOf, ChargedEntries!FoldKeeps
<1>7. QED
  BY <1>3, <1>6 DEF EntriesCharged, u

\* got_manifest_digests
LEMMA ChargedManifestDigests ==
  ASSUME NEW s, NEW j \in Job, NEW t, NEW m \in Manifest, Right(s, j, t, {}, {}, {m}, Entries[m]),
         NEW M \in [Key -> Nat], Charged(j, t, M, {}, {})
  PROVE  Charged(j, GotManifestDigests(t, j, m), M, {}, {})
<1> DEFINE g == EntriesOf(t, j, m)
           x == g.job[j]
           L == ListedIn(g, j)
           R == ReadFor(g.digests, j)
           left == Cardinality({d \in Entries[m] : m \in ToSet(x.deps[d])})
           u == GotManifestDigests(t, j, m)
<1>1. Right(s, j, g, {}, {}, {m}, {}) /\ Charged(j, g, M, {}, {})
  BY RightEntries, ChargedEntriesOf
<1>2. u = IF t.job[j].bottom[m] # WaitingForDigests THEN Panic(t)
          ELSE IF left > 0 THEN SetBottom(g, j, m, WaitingForArtifacts(left))
          ELSE FetchBottomFsLayer(g, j, m)
  BY DEF GotManifestDigests, EntriesOf, SetBottom
<1> HIDE DEF g, u
<1>3. t.job[j].bottom[m] = WaitingForDigests
  <2>1. /\ m \in DOMAIN t.job[j].bottom /\ t.job[j].bottom[m].st = "digests"
        /\ t.job[j].bottom \in [ToSet(Layers[j]) -> PendingBottomLayer]
    BY DEF Right, TrackerRight, Reads, TrackerTyped
  <2>2. QED
    BY <2>1, BottomForms
<1>4. /\ Works(s, j, g) /\ TrackerTyped(j, x) /\ TrackerRight(j, x, L, R, {}, {}, {m}, {})
  BY <1>1 DEF Right, TrackerRight
<1>5. m \in Digest /\ m \in DOMAIN x.bottom /\ m \notin R /\ x.bottom[m].st = "digests"
  BY <1>4, LayersAssumption DEF TrackerRight, Reads
<1>11. x.deps[m] = <<>>
  BY <1>4, <1>5 DEF TrackerRight, Depends
<1>6. {d \in Entries[m] : m \in ToSet(x.deps[d])} = Dependent(x, m)
  BY <1>4, <1>5, LayersAssumption DEF TrackerRight, Depends, Dependent
<1>7. IsFiniteSet(Dependent(x, m))
  BY <1>6, LayersAssumption, FS_Subset
<1>8. left = Cardinality(Dependent(x, m)) /\ left \in Nat
  BY <1>6, <1>7, FS_CardinalityType
<1> HIDE DEF left, x, L, R
<1>9. CASE left > 0
  <2> DEFINE b == WaitingForArtifacts(left)
             y == WithBottom(x, m, b)
  <2>1. b \in PendingBottomLayer /\ b.st = "artifacts" /\ b.left = left
    <3>1. left \in Nat \ {0}
      BY <1>8, <1>9
    <3>2. QED
      BY <3>1, BottomForms
  <2>2. u = SetBottom(g, j, m, b)
    BY <1>2, <1>3, <1>9
  <2> HIDE DEF b
  <2>3. TrackerTyped(j, y) /\ Changed(x, y, m) /\ y.bottom[m] = b
    BY <1>4, <1>5, <2>1, ChangedBottom DEF WithBottom
  <2>4. u.cache = g.cache /\ u.tasks = g.tasks
    BY <1>4, <2>2 DEF Works, OnlyTracks, StateFields, SetBottom
  <2>5. Rewritten(s, j, g, u, y)
    BY <1>4, <2>2, WorksBottom DEF x
  <2> HIDE DEF y
  <2>6. u.job[j] = y /\ y.keys = x.keys /\ y.deps = x.deps
    BY <2>3, <2>5 DEF Rewritten, Changed
  <2>7. NotYet(j, y, {})
    <3>1. NotYet(j, x, {}) /\ x.bottom[m].st # "ready"
      BY <1>1, <1>5 DEF Charged, x
    <3>2. y.bottom[m].st # "artifact" /\ y.deps[m] = <<>> /\ {} \ {Blob(m)} \subseteq {}
      BY <1>11, <2>1, <2>3, <2>6
    <3>3. QED
      BY <1>5, <2>3, <3>1, <3>2, NotYetChanged
  <2>8. Booked(j, u, M, {})
    BY <1>1, <2>4, <2>6, BookedSame DEF Charged, x
  <2>9. QED
    BY <2>6, <2>7, <2>8 DEF Charged, u
<1>10. CASE ~(left > 0)
  <2> DEFINE y == WithBottom(x, m, WaitingForFsLayer)
             Q == {} \cup {Bottom(m)}
  <2>1. Dependent(x, m) = {}
    <3>1. left = 0
      BY <1>8, <1>10
    <3>2. QED
      BY <1>7, <1>8, <3>1, FS_EmptySet
  <2>2. u = FetchBottomFsLayer(g, j, m)
    BY <1>2, <1>3, <1>10
  <2>3. TrackerTyped(j, y) /\ Changed(x, y, m) /\ y.bottom[m] = WaitingForFsLayer
    BY <1>4, <1>5, ChangedBottom, BottomForms DEF WithBottom
  <2>4. y.bottom[m].st = "fsLayer"
    BY <2>3, BottomForms
  <2>5. TrackerRight(j, y, L, R, Q, {}, {}, {})
    <3> HIDE DEF y
    <3>1. QED
      BY <1>4, <1>5, <2>1, <2>3, <2>4, NothingIsLacking
  <2>6. Bottom(m) \in Q /\ x.bottom[m].st # "ready" /\ {} \ {Blob(m)} \subseteq {}
    BY <1>5
  <2> HIDE DEF Q
  <2>7. Charged(j, FetchBottomFsLayer(g, j, m), M, {}, {})
    BY <1>1, <1>4, <1>5, <2>5, <2>6, ChargedFetchBottom DEF x, L, R
  <2>8. QED
    BY <2>2, <2>7 DEF u
<1>12. QED
  BY <1>9, <1>10

\* A layer's artifact is fetched.
LEMMA ChargedFetchBlob ==
  ASSUME NEW s, NEW j \in Job, NEW t, NEW O, NEW d \in Digest, Right(s, j, t, O, {}, {}, {}),
         Blob(d) \in O, NEW M \in [Key -> Nat], Charged(j, t, M, {}, {})
  PROVE  Charged(j, FetchBlob(t, j, d), M, {}, {})
<1> DEFINE k == Blob(d)
           f == Fetch(t, j, k)
           x == t.job[j]
           L == ListedIn(t, j)
           R == ReadFor(t.digests, j)
           u == FetchBlob(t, j, d)
<1>1. k \in Key /\ k \in O /\ Works(s, j, t) /\ TrackerRight(j, x, L, R, O, {}, {}, {})
  BY KeyForms DEF Right
<1>2. u = IF Got(t, j, k) THEN GotArtifact(f, j, d) ELSE f
  BY DEF FetchBlob
<1>3. k \notin x.keys
  <2>1. Wants(j, x, k)
    BY <1>1 DEF TrackerRight, Listens
  <2>2. (d \in DOMAIN x.bottom /\ x.bottom[d].st = "artifact") \/ x.deps[d] # <<>>
    BY <2>1, WantsForms
  <2>3. QED
    BY <2>2 DEF Charged, NotYet
<1> HIDE DEF k, u
<1>4. k \notin L
  BY <1>1 DEF TrackerRight, Listens
<1>5. Asked(s, j, t, k, f)
  BY <1>1, <1>4, FetchAsks
<1>6. Charged(j, f, M, Taken(t, j, k), {})
  BY <1>1, <1>3, ChargedFetch
<1> HIDE DEF f
<1>7. /\ Works(s, j, f) /\ f.job[j] = x /\ ReadFor(f.digests, j) = R
      /\ ListedIn(f, j) = IF Got(t, j, k) THEN L ELSE L \cup {k}
  BY <1>5 DEF Asked
<1> HIDE DEF x, L, R
<1>8. CASE Got(t, j, k)
  <2>1. Right(s, j, f, O, {}, {}, {}) /\ u = GotArtifact(f, j, d)
    BY <1>1, <1>2, <1>7, <1>8 DEF Right
  <2>2. Charged(j, f, M, {Blob(d)}, {})
    BY <1>6, <1>8 DEF Taken, k
  <2>3. Charged(j, GotArtifact(f, j, d), M, {}, {})
    BY <2>1, <2>2, ChargedGotArtifact
  <2>4. QED
    BY <2>1, <2>3 DEF u
<1>9. CASE ~Got(t, j, k)
  BY <1>2, <1>6, <1>9 DEF Taken, u
<1>10. QED
  BY <1>8, <1>9

\* new
LayersCharged(r, i, t) == LayersLeft(r, i, t) /\ Charged(r.j, t, r.M, {}, {})

ChargedLayers == INSTANCE FoldTheorems WITH Op <- BlobStep, Inv <- LayersCharged

LEMMA ChargedLayersFold ==
  ASSUME NEW s, NEW j
  PROVE  NewTracker(s, j)
           = ChargedLayers!Fold(j, 0, WithTracker(s, j), SetToSeq(ToSet(Layers[j])))
<1> DEFINE q == SetToSeq(ToSet(Layers[j]))
           h == WithTracker(s, j)
<1> HIDE DEF q, h
<1>1. ChargedLayers!Fold(j, 0, h, q) = FoldLeft(LAMBDA g, d : FetchBlob(g, j, d), h, q)
  BY DEF ChargedLayers!Fold, BlobStep, FoldLeft, MapThenFoldSet, Max,
         ChargedLayers!Greatest
<1>2. QED
  BY <1>1, Zenon DEF NewTracker, WithTracker, q, h

\* The tasks get what the cache is getting.
TasksGet(s) == \A k \in s.tasks : k \in Key /\ s.cache.entry[k].st = "getting"

LEMMA ChargedNew ==
  ASSUME NEW s, NEW j \in Job, Sound(s), Fresh(s, j), CacheWell(s.cache), TasksGet(s),
         NEW M \in [Key -> Nat], \A k \in Key : M[k] = Cache!Refs(s.cache, k)
  PROVE  Charged(j, NewTracker(s, j), M, {}, {})
<1> DEFINE S == ToSet(Layers[j])
           q == SetToSeq(S)
           r == [s |-> s, j |-> j, q |-> q, M |-> M]
           h == WithTracker(s, j)
           u == NewTracker(s, j)
<1>1. S \subseteq Digest /\ q \in Seq(S) /\ IsInjective(q) /\ ToSet(q) = S
  BY LayersTyped, SetToSeqOfFinite
<1>2. u = ChargedLayers!Fold(j, 0, h, q)
  BY ChargedLayersFold
<1>3. Right(s, j, h, BlobsOf(S), {}, {}, {})
  BY RightWithTracker
<1>4. Charged(j, h, M, {}, {})
  <2>1. /\ h.cache = s.cache /\ h.tasks = s.tasks
        /\ h.job[j] = EmptyTracker(j)
    BY DEF Sound, StateFields, WithTracker
  <2>2. EmptyTracker(j).keys = {}
    BY DEF EmptyTracker
  <2> HIDE DEF h
  <2>3. NotYet(j, h.job[j], {})
    BY <2>1, <2>2 DEF NotYet
  <2>4. \A k \in Key : M[k] \in Nat /\ k \notin h.job[j].keys \cup {}
    BY <2>1, <2>2
  <2>5. Booked(j, h, M, {})
    BY <2>1, <2>4 DEF Booked, TasksGet
  <2>6. QED
    BY <2>3, <2>5 DEF Charged
<1>5. r.s = s /\ r.j = j /\ r.q = q /\ r.M = M
  OBVIOUS
<1> HIDE DEF q, r, u, h, S
<1>6. LayersCharged(r, 0, h)
  <2>1. Rest(q, 0) = S
    BY <1>1, RestForms
  <2>2. QED
    BY <1>3, <1>4, <1>5, <2>1 DEF LayersLeft, LayersCharged
<1>7. ASSUME NEW a, NEW n \in 1 .. Len(q), q[n] \in S, LayersCharged(r, n - 1, a)
      PROVE  LayersCharged(r, n, BlobStep(j, 0, a, q[n]))
  <2> DEFINE T == Rest(q, n - 1)
             d == q[n]
             O == BlobsOf(T)
  <2>1. Right(s, j, a, O, {}, {}, {}) /\ d \in Digest /\ Charged(j, a, M, {}, {})
    BY <1>1, <1>5, <1>7 DEF LayersLeft, LayersCharged
  <2>2. d \in T /\ Rest(q, n) = T \ {d}
    BY <1>1, RestForms
  <2> HIDE DEF T, d
  <2>3. Blob(d) \in O /\ BlobsOf(Rest(q, n)) = O \ {Blob(d)}
    BY <2>2, KeysDiffer DEF BlobsOf
  <2> HIDE DEF O
  <2>4. Right(s, j, FetchBlob(a, j, d), O \ {Blob(d)}, {}, {}, {})
    BY <2>1, <2>3, RightFetchBlob
  <2>5. Charged(j, FetchBlob(a, j, d), M, {}, {})
    BY <2>1, <2>3, ChargedFetchBlob
  <2>6. QED
    BY <1>5, <2>3, <2>4, <2>5 DEF LayersLeft, LayersCharged, BlobStep, d
<1>8. LayersCharged(r, Len(q), u)
  BY <1>1, <1>2, <1>6, <1>7, LeastOf, ChargedLayers!FoldKeeps
<1>9. QED
  BY <1>5, <1>8 DEF LayersCharged, u

\* The tracker is told of a key that its job waits for.
LEMMA ChargedTold ==
  ASSUME NEW s, NEW j \in Job, NEW t, NEW k \in Key, Right(s, j, t, {k}, {}, {}, {}),
         NEW M \in [Key -> Nat], Charged(j, t, M, {k}, {})
  PROVE  Charged(j, Told(t, j, k), M, {}, {})
<1> DEFINE O == {k}
<1>1. k \in O /\ Right(s, j, t, O, {}, {}, {})
  OBVIOUS
<1> HIDE DEF O
<1>2. CASE k[1] = "blob" /\ k = Blob(k[2]) /\ k[2] \in Digest
  <2> DEFINE d == k[2]
  <2>1. k = Blob(d) /\ d \in Digest /\ Told(t, j, k) = GotArtifact(t, j, d)
    BY <1>2 DEF Told
  <2> HIDE DEF d
  <2>2. Charged(j, GotArtifact(t, j, d), M, {}, {})
    BY <1>1, <2>1, ChargedGotArtifact
  <2>3. QED
    BY <2>1, <2>2
<1>3. CASE k[1] = "bottom" /\ k = Bottom(k[2]) /\ k[2] \in Digest
  <2> DEFINE d == k[2]
  <2>1. k = Bottom(d) /\ d \in Digest /\ Told(t, j, k) = GotBottomFsLayer(t, j, d)
    BY <1>3 DEF Told
  <2> HIDE DEF d
  <2>2. Charged(j, GotBottomFsLayer(t, j, d), M, {}, {})
    BY <1>1, <2>1, ChargedGotBottom
  <2>3. QED
    BY <2>1, <2>2
<1>4. CASE k[1] = "upper"
  <2>1. Charged(j, GotUpperFsLayer(t, j, k), M, {}, {})
    BY <1>4, ChargedGotUpper
  <2>2. QED
    BY <1>4, <2>1 DEF Told
<1>5. QED
  BY <1>2, <1>3, <1>4, KeyForms

-----------------------------------------------------------------------------
\* The references of all the jobs.

\* The job i has a reference to k: one of its layers, or, when it was dropped
\* as the dispatcher was shut down, the manifest that is still read for it.
Claim(s, i, k) ==
  IF s.job[i] = NoJob THEN s.closed /\ \E m \in ReadFor(s.digests, i) : k = Blob(m)
  ELSE k \in s.job[i].keys

\* O is what the job has received and has not been told of.
Owed(s, i, O, k) == k \in O \/ Claim(s, i, k)

Owing(s, k0, Y, k) == {i \in Job : Owed(s, i, Due(i, Y, k0), k)}

Numeral(b) == IF b THEN 1 ELSE 0

\* Once it is shut down the dispatcher drops references that are not released.
Covered(s, k0, Y, k) ==
  LET n == Cardinality(Owing(s, k0, Y, k)) IN
  /\ IsFiniteSet(Owing(s, k0, Y, k))
  /\ Cache!Refs(s.cache, k) >= n
  /\ ~s.closed => Cache!Refs(s.cache, k) = n

\* A job has a reference to nothing that it waits for.
Fit(s, i, O) ==
  /\ s.job[i].st = "awaiting" => NotYet(i, s.job[i], {}) /\ ~s.closed
  /\ s.job[i].st \in {"available", "executing"} => ReadFor(s.digests, i) = {}
  /\ \A k \in ListedIn(s, i) \cup O : ~Claim(s, i, k)

\* A job's time is up once.
TimersOnce(s) ==
  \A i \in Job : s.job[i].st = "executing" /\ s.job[i].mode = "timedOut" => i \notin s.timers

Sane(s) == CacheWell(s.cache) /\ TasksGet(s) /\ TimersOnce(s)

\* Every reference is counted; the jobs of Y have one to k, of which they are
\* about to be told.
Ledger(s, k, Y) ==
  /\ Sane(s)
  /\ \A i \in Job : Fit(s, i, Due(i, Y, k))
  /\ \A x \in Key : Covered(s, k, Y, x)

\* The references to k but for the one of j.
OtherRefs(s, j, O) == [k \in Key |-> Cache!Refs(s.cache, k) - Numeral(Owed(s, j, O, k))]

\* M and the references of j are counted.
Balanced(t, j, O, M) ==
  \A k \in Key : LET n == M[k] + Numeral(Owed(t, j, O, k)) IN
    /\ Cache!Refs(t.cache, k) >= n
    /\ ~t.closed => Cache!Refs(t.cache, k) = n

\* A set is counted without one element, and that element.
LEMMA CountedBut ==
  ASSUME NEW S, NEW j
  PROVE  /\ IsFiniteSet(S) <=> IsFiniteSet(S \ {j})
         /\ IsFiniteSet(S) => /\ Cardinality(S) \in Nat /\ Cardinality(S \ {j}) \in Nat
                              /\ Cardinality(S) = Cardinality(S \ {j}) + Numeral(j \in S)
<1> DEFINE T == S \ {j}
<1>1. CASE j \notin S
  <2>1. T = S
    BY <1>1
  <2>2. IsFiniteSet(S) => Cardinality(S) \in Nat
    BY FS_CardinalityType
  <2>3. QED
    BY <1>1, <2>1, <2>2 DEF Numeral
<1>2. CASE j \in S
  <2>1. S = T \cup {j} /\ j \notin T
    BY <1>2
  <2>2. IsFiniteSet(S) => IsFiniteSet(T)
    BY FS_RemoveElement
  <2> HIDE DEF T
  <2>3. IsFiniteSet(T) => IsFiniteSet(S) /\ Cardinality(S) = Cardinality(T) + 1
    BY <2>1, FS_AddElement
  <2>4. IsFiniteSet(T) => Cardinality(T) \in Nat
    BY FS_CardinalityType
  <2>5. QED
    BY <1>2, <2>2, <2>3, <2>4 DEF Numeral, T
<1>3. QED
  BY <1>1, <1>2

LEMMA OtherRefsNat ==
  ASSUME NEW s, NEW k0, NEW Y, Ledger(s, k0, Y), NEW j \in Job
  PROVE  LET O == Due(j, Y, k0)
             M == OtherRefs(s, j, O)
         IN  M \in [Key -> Nat] /\ Balanced(s, j, O, M)
<1> DEFINE O == Due(j, Y, k0)
           M == OtherRefs(s, j, O)
<1>1. CacheTyped(s.cache)
  BY DEF Ledger, Sane, CacheWell
<1>2. ASSUME NEW k \in Key
      PROVE  /\ Cache!Refs(s.cache, k) - Numeral(Owed(s, j, O, k)) \in Nat
             /\ Cache!Refs(s.cache, k) \in Nat /\ Numeral(Owed(s, j, O, k)) \in Nat
  <2> DEFINE S == Owing(s, k0, Y, k)
             n == Cardinality(S)
             r == Cache!Refs(s.cache, k)
             T == S \ {j}
             a == Cardinality(T)
             b == Numeral(j \in S)
  <2>1. IsFiniteSet(S) /\ r >= n
    BY DEF Ledger, Covered
  <2>2. r \in Nat
    BY <1>1, RefsForms
  <2>3. j \in S <=> Owed(s, j, O, k)
    BY DEF Owing
  <2> HIDE DEF S, r
  <2>4. n \in Nat /\ a \in Nat /\ n = a + b /\ b \in {0, 1}
    BY <2>1, CountedBut DEF Numeral
  <2>5. Numeral(Owed(s, j, O, k)) = b
    BY <2>3 DEF Numeral
  <2> HIDE DEF n, a, b
  <2>6. QED
    BY <2>1, <2>2, <2>4, <2>5 DEF r
<1> HIDE DEF O
<1>3. M \in [Key -> Nat]
  BY <1>2 DEF OtherRefs
<1>4. Balanced(s, j, O, M)
  BY <1>2 DEF OtherRefs, Balanced
<1>5. QED
  BY <1>3, <1>4 DEF O

\* A job that goes on as it was has the same references.
LEMMA KeepsFit ==
  ASSUME NEW s, NEW t, NEW i \in Job, Keeps(s, t, i), t.closed = s.closed
  PROVE  /\ \A k : Claim(t, i, k) <=> Claim(s, i, k)
         /\ \A O : Fit(s, i, O) => Fit(t, i, O)
<1>1. /\ ListedIn(t, i) = ListedIn(s, i) /\ ReadFor(t.digests, i) = ReadFor(s.digests, i)
      /\ t.job[i] = s.job[i] \/ (Runs(i, s.job[i]) /\ Runs(i, t.job[i]))
  BY DEF Keeps, SameFor
<1>2. \A x : Runs(i, x) => /\ x.st \in {"available", "executing"} /\ x.keys = Needed(i)
                           /\ x # NoJob
  BY RunsForms
<1>3. \A k : Claim(t, i, k) <=> Claim(s, i, k)
  BY <1>1, <1>2 DEF Claim
<1>4. \A O : Fit(s, i, O) => Fit(t, i, O)
  BY <1>1, <1>2, <1>3 DEF Fit
<1>5. QED
  BY <1>3, <1>4

\* From s to t only j has done something, and has settled its references.
Settling(s, t, j, M) ==
  /\ Sane(t) /\ t.closed = s.closed /\ \A i \in Job \ {j} : Keeps(s, t, i)
  /\ Fit(t, j, {}) /\ Balanced(t, j, {}, M)

LEMMA LedgerSettles ==
  ASSUME NEW s, NEW k0, NEW Y, Ledger(s, k0, Y), NEW j \in Job, NEW t,
         Settling(s, t, j, OtherRefs(s, j, Due(j, Y, k0)))
  PROVE  Ledger(t, k0, Y \ {j})
<1> DEFINE Z == Y \ {j}
           O == Due(j, Y, k0)
           M == OtherRefs(s, j, O)
<1>1. Due(j, Z, k0) = {} /\ \A i \in Job \ {j} : Due(i, Z, k0) = Due(i, Y, k0)
  BY DEF Due
<1>2. \A i \in Job \ {j} : /\ \A k : Claim(t, i, k) <=> Claim(s, i, k)
                           /\ \A P : Fit(s, i, P) => Fit(t, i, P)
  BY KeepsFit DEF Settling
<1>3. \A i \in Job : Fit(t, i, Due(i, Z, k0))
  BY <1>1, <1>2 DEF Settling, Ledger
<1>4. ASSUME NEW k \in Key
      PROVE  Covered(t, k0, Z, k)
  <2> DEFINE S == Owing(s, k0, Y, k)
             T == Owing(t, k0, Z, k)
             r == Cache!Refs(s.cache, k)
             u == Cache!Refs(t.cache, k)
             a == Numeral(Owed(s, j, O, k))
             b == Numeral(Owed(t, j, {}, k))
             n == Cardinality(S)
             l == Cardinality(T)
  <2>1. S \subseteq Job /\ T \subseteq Job /\ (j \in S <=> Owed(s, j, O, k)) /\ (j \in T <=> Owed(t, j, {}, k))
    BY <1>1 DEF Owing
  <2>2. \A i \in Job \ {j} : i \in S <=> i \in T
    BY <1>1, <1>2 DEF Owing, Owed
  <2>3. IsFiniteSet(S) /\ r >= n /\ (~s.closed => r = n)
    BY DEF Ledger, Covered
  <2>4. r \in Nat /\ u \in Nat
    BY RefsForms DEF Ledger, Settling, Sane, CacheWell
  <2>5. u >= (r - a) + b /\ (~t.closed => u = (r - a) + b)
    BY DEF Settling, Balanced, OtherRefs
  <2>6. t.closed = s.closed
    BY DEF Settling
  <2> HIDE DEF S, T, r, u
  <2>7. S \ {j} = T \ {j}
    BY <2>1, <2>2
  <2>8. a = Numeral(j \in S) /\ b = Numeral(j \in T) /\ a \in {0, 1} /\ b \in {0, 1}
    BY <2>1 DEF Numeral
  <2> HIDE DEF a, b
  <2>9. PICK c \in Nat : n = c + a /\ l = c + b /\ IsFiniteSet(T)
    <3>1. IsFiniteSet(S \ {j}) /\ n = Cardinality(S \ {j}) + a /\ Cardinality(S \ {j}) \in Nat
      BY <2>3, <2>8, CountedBut
    <3>2. IsFiniteSet(T) /\ l = Cardinality(T \ {j}) + b
      BY <2>7, <2>8, <3>1, CountedBut
    <3>3. QED
      BY <2>7, <3>1, <3>2
  <2> HIDE DEF n, l
  <2>10. u >= l /\ (~t.closed => u = l)
    BY <2>3, <2>4, <2>5, <2>6, <2>8, <2>9
  <2>11. QED
    BY <2>9, <2>10 DEF Covered, T, u, l
<1>5. QED
  BY <1>3, <1>4 DEF Ledger, Settling

\* All jobs go on as they were.
LEMMA LedgerKeeps ==
  ASSUME NEW s, NEW k0, NEW Y, Ledger(s, k0, Y), NEW t, t.cache = s.cache, t.tasks = s.tasks,
         t.closed = s.closed, TimersOnce(t), \A i \in Job : Keeps(s, t, i)
  PROVE  Ledger(t, k0, Y)
<1>1. \A i \in Job : /\ \A k : Claim(t, i, k) <=> Claim(s, i, k)
                     /\ \A O : Fit(s, i, O) => Fit(t, i, O)
  BY KeepsFit
<1>2. Sane(t)
  BY DEF Ledger, Sane, TasksGet
<1>3. ASSUME NEW k \in Key
      PROVE  Covered(t, k0, Y, k)
  <2>1. Owing(t, k0, Y, k) = Owing(s, k0, Y, k)
    BY <1>1 DEF Owing, Owed
  <2>2. QED
    BY <2>1 DEF Ledger, Covered
<1>4. QED
  BY <1>1, <1>2, <1>3 DEF Ledger

LEMMA LedgerBecomes ==
  ASSUME NEW s, Ledger(s, 0, {}), Become(s), shutDown' = s.closed
  PROVE  Ledger(Now', 0, {})
<1>1. PICK t : t = Now'
  OBVIOUS
<1>2. /\ t.cache = s.cache /\ t.job = s.job /\ t.tasks = s.tasks
      /\ t.digests = s.digests /\ t.timers = s.timers /\ t.closed = s.closed
  BY <1>1 DEF Now, Become
<1>3. \A i \in Job : Keeps(s, t, i)
  BY <1>2 DEF Keeps, SameFor, ListedIn, OnceIn
<1>4. TimersOnce(t)
  BY <1>2 DEF Ledger, Sane, TimersOnce
<1>5. Ledger(t, 0, {})
  BY <1>2, <1>3, <1>4, LedgerKeeps
<1>6. QED
  BY <1>1, <1>5

-----------------------------------------------------------------------------
\* What leaves the references alone.

Quiet(s, t) ==
  /\ t.cache = s.cache /\ t.tasks = s.tasks /\ t.closed = s.closed
  /\ TimersOnce(s) => TimersOnce(t)

LEMMA StatusQuiet ==
  ASSUME NEW s, NEW j, NEW st, Whole(s)
  PROVE  Quiet(s, SendStatus(s, j, st))
<1> DEFINE t == [s EXCEPT !.status[j] = st]
<1>1. /\ t.cache = s.cache /\ t.tasks = s.tasks /\ t.closed = s.closed
      /\ t.job = s.job /\ t.timers = s.timers
  BY DEF Whole, Sound, StateFields
<1> HIDE DEF t
<1>2. Quiet(s, t) /\ Quiet(s, s)
  BY <1>1 DEF Quiet, TimersOnce
<1>3. QED
  BY <1>2 DEF SendStatus, t

LEMMA StartQuiet ==
  ASSUME NEW s, NEW j \in Job, Whole(s), s.job[j].st = "available", Runs(j, s.job[j])
  PROVE  Quiet(s, Start(s, j))
<1> DEFINE e == Executing("nominal", s.job[j].keys)
           h == [s EXCEPT !.job[j] = e, !.timers = IF j \in Timeout THEN @ \cup {j} ELSE @]
           t == SendStatus(h, j, "executing")
<1>1. /\ DOMAIN h = StateFields /\ h.cache = s.cache /\ h.tasks = s.tasks /\ h.closed = s.closed
      /\ h.digests = s.digests /\ h.status = s.status
      /\ h.timers = (IF j \in Timeout THEN s.timers \cup {j} ELSE s.timers)
      /\ h.job = [s.job EXCEPT ![j] = e]
  BY DEF Whole, Sound, StateFields
<1>2. e.mode = "nominal"
  BY DEF Executing
<1>3. Start(s, j) = t
  BY DEF Start
<1> HIDE DEF h, e
<1>4. Whole(h)
  BY <1>1 DEF Whole, Sound, TasksRight
<1>5. /\ h.job[j].mode = "nominal"
      /\ \A i \in Job \ {j} : h.job[i] = s.job[i] /\ (i \in h.timers => i \in s.timers)
  BY <1>1, <1>2 DEF Whole, Sound
<1>6. TimersOnce(s) => TimersOnce(h)
  BY <1>5 DEF TimersOnce
<1>7. Quiet(h, t)
  BY <1>4, StatusQuiet
<1> HIDE DEF t
<1>8. QED
  BY <1>1, <1>3, <1>6, <1>7 DEF Quiet

LEMMA MakeAvailableQuiet ==
  ASSUME NEW s, NEW j \in Job, Whole(s), s.job[j].keys = Needed(j),
         \A i \in Job \ {j} : s.job[i].st = "available" => Runs(i, s.job[i])
  PROVE  Quiet(s, MakeAvailable(s, j))
<1> DEFINE a == Available(s.job[j].keys)
           h == [s EXCEPT !.job[j] = a]
           b == CHOOSE x \in Best(h) : TRUE
           t == MakeAvailable(s, j)
<1>1. /\ DOMAIN h = StateFields /\ h.cache = s.cache /\ h.digests = s.digests /\ h.tasks = s.tasks
      /\ h.closed = s.closed /\ h.timers = s.timers /\ h.status = s.status
      /\ h.job = [s.job EXCEPT ![j] = a]
  BY DEF Whole, Sound, StateFields
<1>2. Runs(j, a) /\ a.st = "available"
  BY RunsForms DEF Available
<1>3. t = IF CanStart(h) THEN Start(h, b) ELSE SendStatus(h, j, "waiting")
  BY DEF MakeAvailable
<1> HIDE DEF h, a, t
<1>4. Whole(h)
  BY <1>1 DEF Whole, Sound, TasksRight
<1>5. h.job[j] = a /\ \A i \in Job \ {j} : h.job[i] = s.job[i]
  BY <1>1 DEF Whole, Sound
<1>6. Quiet(s, h)
  BY <1>1, <1>2, <1>5 DEF Quiet, TimersOnce
<1>7. Quiet(h, t)
  <2>1. CASE CanStart(h)
    <3>1. b \in Best(h)
      BY <2>1 DEF CanStart
    <3> HIDE DEF b
    <3>2. b \in Job /\ h.job[b].st = "available"
      BY <3>1 DEF Best, InState
    <3>3. Runs(b, h.job[b])
      BY <1>2, <1>5, <3>2
    <3>4. QED
      BY <1>3, <1>4, <2>1, <3>2, <3>3, StartQuiet
  <2>2. CASE ~CanStart(h)
    BY <1>3, <1>4, <2>2, StatusQuiet
  <2>3. QED
    BY <2>1, <2>2
<1>8. QED
  BY <1>6, <1>7 DEF Quiet, t

\* What a job waits for it does not have.
LEMMA NotYetWanted ==
  ASSUME NEW j \in Job, NEW x, TrackerTyped(j, x), NotYet(j, x, {}), NEW k \in Key, Wants(j, x, k)
  PROVE  k \notin x.keys
<1>1. CASE k[1] = "blob" /\ k[2] \in Digest /\ k = Blob(k[2])
  <2> DEFINE d == k[2]
  <2>1. d \in Digest /\ k = Blob(d)
    BY <1>1
  <2> HIDE DEF d
  <2>2. (d \in DOMAIN x.bottom /\ x.bottom[d].st = "artifact") \/ x.deps[d] # <<>>
    BY <2>1, WantsForms
  <2>3. QED
    BY <2>1, <2>2 DEF NotYet
<1>2. CASE k[1] = "bottom" /\ k[2] \in Digest /\ k = Bottom(k[2])
  <2> DEFINE d == k[2]
  <2>1. d \in Digest /\ k = Bottom(d)
    BY <1>2
  <2> HIDE DEF d
  <2>2. d \in DOMAIN x.bottom /\ x.bottom[d].st = "fsLayer"
    BY <2>1, WantsForms
  <2>3. QED
    BY <2>1, <2>2 DEF NotYet
<1>3. CASE k[1] = "upper"
  <2>1. k = Upper(Prefix(j, x.stacked + 1)) /\ x.stacked < Len(Layers[j])
    BY <1>3 DEF Wants
  <2>2. x.stacked \in 1 .. Len(Layers[j]) /\ Len(Layers[j]) \in Nat
    BY LayersTyped DEF TrackerTyped
  <2> DEFINE n == x.stacked + 1
  <2>3. n \in 2 .. Len(Layers[j]) /\ ~(n <= x.stacked)
    BY <2>1, <2>2
  <2> HIDE DEF n
  <2>4. Upper(Prefix(j, n)) \notin x.keys
    BY <2>3 DEF NotYet
  <2>5. QED
    BY <2>1, <2>4 DEF n
<1>4. QED
  BY <1>1, <1>2, <1>3, KeyForms

\* The tracker of j is done.
LEMMA TrackerSettles ==
  ASSUME NEW s, NEW j \in Job, NEW t, NEW M \in [Key -> Nat], Right(s, j, t, {}, {}, {}, {}),
         Charged(j, t, M, {}, {}), ~s.closed, TimersOnce(s), Whole(s)
  PROVE  Settling(s, t, j, M)
<1> DEFINE x == t.job[j]
           L == ListedIn(t, j)
<1>1. /\ Works(s, j, t) /\ TrackerTyped(j, x) /\ Listens(j, x, L, {})
      /\ t.closed = s.closed /\ t.timers = s.timers /\ DOMAIN t.job = Job
      /\ \A i \in Job \ {j} : t.job[i] = s.job[i]
  BY DEF Right, Works, OnlyTracks, TrackerRight
<1>2. x.st = "awaiting" /\ x # NoJob
  BY <1>1 DEF TrackerTyped, NoJob
<1>3. Booked(j, t, M, {}) /\ NotYet(j, x, {})
  BY DEF Charged
<1>4. \A k : Claim(t, j, k) <=> k \in x.keys
  BY <1>2 DEF Claim
<1>5. TimersOnce(t)
  BY <1>1, <1>2 DEF TimersOnce
<1>6. Sane(t)
  BY <1>3, <1>5 DEF Booked, Sane, TasksGet
<1>7. Fit(t, j, {})
  <2>1. ASSUME NEW k \in L
        PROVE  k \notin x.keys
    <3>1. k \in Key
      BY DEF ListedIn
    <3>2. Wants(j, x, k)
      BY <1>1, <3>1 DEF Listens
    <3>3. QED
      BY <1>1, <1>3, <3>1, <3>2, NotYetWanted
  <2>2. QED
    BY <1>1, <1>2, <1>3, <1>4, <2>1 DEF Fit
<1>8. Balanced(t, j, {}, M)
  <2>1. ASSUME NEW k \in Key
        PROVE  /\ Numeral(Owed(t, j, {}, k)) = IF k \in x.keys \cup {} THEN 1 ELSE 0
               /\ Cache!Refs(t.cache, k) \in Nat
    <3>1. Owed(t, j, {}, k) <=> k \in x.keys
      BY <1>4 DEF Owed
    <3>2. Cache!Refs(t.cache, k) \in Nat
      BY <1>6, RefsForms DEF Sane, CacheWell
    <3>3. QED
      BY <3>1, <3>2 DEF Numeral
  <2>2. QED
    BY <1>3, <2>1 DEF Balanced, Booked
<1>9. \A i \in Job \ {j} : Keeps(s, t, i)
  BY <1>1, WorksLeaves DEF Leaves
<1>10. QED
  BY <1>1, <1>6, <1>7, <1>8, <1>9 DEF Settling

\* It has what it needs.
LEMMA AvailableSettles ==
  ASSUME NEW s, NEW j \in Job, NEW h, NEW M \in [Key -> Nat], Whole(s), Right(s, j, h, {}, {}, {}, {}),
         Settling(s, h, j, M), IsComplete(h.job[j], j),
         \A i \in Job \ {j} : s.job[i].st = "available" => Runs(i, s.job[i])
  PROVE  Settling(s, MakeAvailable(h, j), j, M)
<1> DEFINE t == MakeAvailable(h, j)
           x == h.job[j]
<1>1. /\ Works(s, j, h) /\ TrackerRight(j, x, ListedIn(h, j), ReadFor(h.digests, j), {}, {}, {}, {})
      /\ \A i \in Job \ {j} : h.job[i] = s.job[i]
  BY DEF Right, Works, OnlyTracks
<1>2. x.keys = Needed(j) /\ ReadFor(h.digests, j) = {}
  BY <1>1, CompleteHasAll
<1>3. Leaves(s, h, j)
  BY <1>1, WorksLeaves
<1>4. /\ Whole(h) /\ x.keys = Needed(j)
      /\ \A i \in Job \ {j} : h.job[i].st = "available" => Runs(i, h.job[i])
  BY <1>1, <1>2, <1>3 DEF Leaves
<1>5. x.st = "awaiting" /\ x # NoJob
  BY <1>1 DEF TrackerRight, TrackerTyped, NoJob
<1> HIDE DEF t
<1>6. Leaves(h, t, j) /\ SameFor(h, t, j) /\ Runs(j, t.job[j])
  BY <1>4, MakeAvailableLeaves DEF t
<1>7. Quiet(h, t)
  BY <1>4, MakeAvailableQuiet DEF t
<1>8. /\ t.job[j].st \in {"available", "executing"} /\ t.job[j].keys = x.keys /\ t.job[j] # NoJob
      /\ ListedIn(t, j) = ListedIn(h, j) /\ ReadFor(t.digests, j) = {}
  BY <1>2, <1>6, RunsForms DEF SameFor
<1>9. \A k : Claim(t, j, k) <=> Claim(h, j, k)
  BY <1>5, <1>8 DEF Claim
<1>10. Fit(t, j, {})
  BY <1>8, <1>9 DEF Settling, Fit
<1>11. Balanced(t, j, {}, M)
  <2>1. \A k : Owed(t, j, {}, k) <=> Owed(h, j, {}, k)
    BY <1>9 DEF Owed
  <2>2. \A k : Numeral(Owed(t, j, {}, k)) = Numeral(Owed(h, j, {}, k))
    BY <2>1 DEF Numeral
  <2>3. QED
    BY <1>7, <2>2 DEF Settling, Balanced, Quiet
<1>12. \A i \in Job \ {j} : Keeps(s, t, i)
  BY <1>6, KeepsTrans DEF Settling, Leaves
<1>13. Sane(t)
  BY <1>7 DEF Settling, Sane, Quiet, TasksGet
<1>14. QED
  BY <1>7, <1>10, <1>11, <1>12, <1>13 DEF Settling, Quiet, t

-----------------------------------------------------------------------------
\* What a job does with its references when it is done.

\* The keys of a job are released in the order in which they come.
ReleasedTo(r, n, c) ==
  /\ CacheWell(c)
  /\ \A k \in Key : Cache!Refs(c, k) = IF k \in r.keys /\ k \notin Rest(r.q, n)
                                       THEN Cache!Refs(r.c, k) - 1 ELSE Cache!Refs(r.c, k)
Releasing == INSTANCE FoldTheorems WITH Op <- LetStep, Inv <- ReleasedTo

\* Each key that is released has a reference.
Releasable(c, keys) == CacheWell(c) /\ \A k \in Key \cap keys : Cache!Refs(c, k) > 0

LEMMA ReleasedWell ==
  ASSUME NEW s, NEW keys, NEW ord \in KeyOrders, DOMAIN s = StateFields, Releasable(s.cache, keys)
  PROVE  LET t == Release(s, keys, ord) IN
         /\ OnlyCache(s, t) /\ CacheWell(t.cache)
         /\ \A k \in Key : Cache!Refs(t.cache, k) = Cache!Refs(s.cache, k) - Numeral(k \in keys)
<1> DEFINE t == Release(s, keys, ord)
           r == [c |-> s.cache, keys |-> keys, q |-> ord]
           c == Releasing!Fold(keys, 0, s.cache, ord)
<1>1. ord \in Seq(Key) /\ ToSet(ord) = Key /\ IsInjective(ord)
  BY DispatcherAssumption
<1>2. t = [s EXCEPT !.cache = c]
  BY DEF Release, Releasing!Fold, LetStep, FoldLeft, MapThenFoldSet, Max,
         Releasing!Greatest
<1>3. r.c = s.cache /\ r.keys = keys /\ r.q = ord
  OBVIOUS
<1>4. OnlyCache(s, t)
  BY ReleaseOnlyCache DEF Releasable, CacheWell
<1>5. t.cache = c
  BY <1>2 DEF StateFields
<1>6. \A k \in Key : /\ Cache!Refs(s.cache, k) \in Nat
                     /\ k \in keys => Cache!Refs(s.cache, k) > 0
  BY RefsForms DEF Releasable, CacheWell
<1> HIDE DEF r, t, c
<1>7. ReleasedTo(r, 0, s.cache)
  <2>1. Rest(ord, 0) = Key
    BY <1>1, RestForms
  <2>2. QED
    BY <1>3, <2>1 DEF ReleasedTo, Releasable
<1>8. ASSUME NEW a, NEW n \in 1 .. Len(ord), ord[n] \in Key, ReleasedTo(r, n - 1, a)
      PROVE  ReleasedTo(r, n, LetStep(keys, 0, a, ord[n]))
  <2> DEFINE T == Rest(ord, n - 1)
             d == ord[n]
             b == LetStep(keys, 0, a, d)
             Old(k) == Cache!Refs(s.cache, k)
  <2>1. d \in T /\ Rest(ord, n) = T \ {d} /\ d \in Key
    BY <1>1, <1>8, RestForms
  <2>2. /\ CacheWell(a)
        /\ \A k \in Key : Cache!Refs(a, k) = IF k \in keys /\ k \notin T THEN Old(k) - 1 ELSE Old(k)
    BY <1>3, <1>8 DEF ReleasedTo
  <2> HIDE DEF T, d
  <2>3. Cache!Refs(a, d) = Old(d)
    BY <2>1, <2>2
  <2>4. CASE d \in keys
    <3>1. b = Cache!Decremented(a, d) /\ Cache!Refs(a, d) > 0
      BY <1>6, <2>1, <2>3, <2>4 DEF LetStep
    <3>2. Counted(a, d, Cache!Refs(a, d) - 1, b)
      BY <2>1, <2>2, <3>1, DecrementedWell
    <3> HIDE DEF b, Old
    <3>3. CacheWell(b) /\ \A k \in Key : Cache!Refs(b, k) = IF k = d THEN Old(d) - 1 ELSE Cache!Refs(a, k)
      BY <2>3, <3>2 DEF Counted
    <3>4. \A k \in Key : Cache!Refs(b, k) = IF k \in keys /\ k \notin T \ {d} THEN Old(k) - 1 ELSE Old(k)
      BY <2>1, <2>2, <2>4, <3>3
    <3>5. QED
      BY <1>3, <2>1, <3>3, <3>4 DEF ReleasedTo, b, Old, d
  <2>5. CASE d \notin keys
    <3>1. b = a
      BY <2>5 DEF LetStep
    <3> HIDE DEF b, Old
    <3>2. \A k \in Key : Cache!Refs(b, k) = IF k \in keys /\ k \notin T \ {d} THEN Old(k) - 1 ELSE Old(k)
      BY <2>1, <2>2, <2>5, <3>1
    <3>3. QED
      BY <1>3, <2>1, <2>2, <3>1, <3>2 DEF ReleasedTo, b, Old, d
  <2>6. QED
    BY <2>4, <2>5
<1>9. ReleasedTo(r, Len(ord), c)
  <2>1. Releasable(s.cache, keys) /\ ord \in Seq(Key)
    BY <1>1
  <2>2. QED
    BY <2>1, <1>7, <1>8, LeastOf, Releasing!FoldKeeps DEF c
<1>10. Rest(ord, Len(ord)) = {}
  BY <1>1, RestForms
<1>11. CacheWell(c) /\ \A k \in Key : Cache!Refs(c, k) = Cache!Refs(s.cache, k) - Numeral(k \in keys)
  BY <1>3, <1>6, <1>9, <1>10 DEF ReleasedTo, Numeral
<1>12. QED
  BY <1>4, <1>5, <1>11 DEF t

\* The job j is given up, with all its layers.
LEMMA DropSettles ==
  ASSUME NEW s, NEW j \in Job, NEW M \in [Key -> Nat], Whole(s), OnceIn(s, j), Sane(s),
         Fit(s, j, {}), Balanced(s, j, {}, M), s.job[j].st = "awaiting" \/ Runs(j, s.job[j]),
         NEW h, Puts(s, h, j, NoJob), h.closed = s.closed, NEW ord \in KeyOrders
  PROVE  Settling(s, Release(h, s.job[j].keys, ord), j, M)
<1> DEFINE keys == s.job[j].keys
           t == Release(h, keys, ord)
<1>1. s.job[j] # NoJob /\ (~s.closed \/ ReadFor(s.digests, j) = {})
  <2>1. \A x : Runs(j, x) => x.st \in {"available", "executing"} /\ x # NoJob
    BY RunsForms
  <2>2. CASE s.job[j].st = "awaiting"
    BY <2>2 DEF Fit, NoJob
  <2>3. CASE Runs(j, s.job[j])
    BY <2>1, <2>3 DEF Fit
  <2>4. QED
    BY <2>2, <2>3
<1>2. \A k : Claim(s, j, k) <=> k \in keys
  BY <1>1 DEF Claim
<1>3. ASSUME NEW k \in Key
      PROVE  /\ Cache!Refs(s.cache, k) \in Nat /\ M[k] \in Nat
             /\ Cache!Refs(s.cache, k) >= M[k] + Numeral(k \in keys)
             /\ ~s.closed => Cache!Refs(s.cache, k) = M[k] + Numeral(k \in keys)
  <2>1. Cache!Refs(s.cache, k) \in Nat
    BY RefsForms DEF Sane, CacheWell
  <2>2. Numeral(Owed(s, j, {}, k)) = Numeral(k \in keys)
    BY <1>2 DEF Owed, Numeral
  <2>3. QED
    BY <2>1, <2>2 DEF Balanced
<1> HIDE DEF keys
<1>4. /\ DOMAIN h = StateFields /\ h.cache = s.cache /\ h.tasks = s.tasks
      /\ h.timers = s.timers /\ h.digests = s.digests
      /\ h.job[j] = NoJob /\ \A i \in Job \ {j} : h.job[i] = s.job[i]
  BY DEF Puts, Whole, Sound
<1>5. Releasable(h.cache, keys)
  <2>1. \A k \in Key \cap keys : Cache!Refs(s.cache, k) > 0
    BY <1>3 DEF Numeral
  <2>2. QED
    BY <1>4, <2>1 DEF Releasable, Sane
<1>6. /\ OnlyCache(h, t) /\ CacheWell(t.cache)
      /\ \A k \in Key : Cache!Refs(t.cache, k) = Cache!Refs(h.cache, k) - Numeral(k \in keys)
  BY <1>4, <1>5, ReleasedWell
<1>7. Leaves(s, h, j) /\ JobRight(h, j, {})
  BY PutsLeaves
<1>8. Leaves(s, t, j) /\ t.job = h.job
  BY <1>7, ReleaseLeaves
<1> HIDE DEF t
<1>9. /\ t.digests = s.digests /\ t.timers = s.timers /\ t.closed = s.closed /\ t.tasks = s.tasks
      /\ SameWaits(s.cache, t.cache)
  BY <1>4, <1>6 DEF OnlyCache
<1>10. \A k : ~Claim(t, j, k)
  BY <1>1, <1>4, <1>8, <1>9 DEF Claim
<1>11. Fit(t, j, {})
  BY <1>4, <1>8, <1>10 DEF Fit, NoJob
<1>12. Sane(t)
  <2>1. TasksGet(t)
    BY <1>9 DEF Sane, TasksGet, SameWaits
  <2>2. TimersOnce(t)
    BY <1>4, <1>8, <1>9 DEF Sane, TimersOnce, NoJob
  <2>3. QED
    BY <1>6, <2>1, <2>2 DEF Sane
<1>13. Balanced(t, j, {}, M)
  <2>1. ASSUME NEW k \in Key
        PROVE  /\ Cache!Refs(t.cache, k) >= M[k] + Numeral(Owed(t, j, {}, k))
               /\ ~t.closed => Cache!Refs(t.cache, k) = M[k] + Numeral(Owed(t, j, {}, k))
    <3>1. Numeral(Owed(t, j, {}, k)) = 0
      BY <1>10 DEF Owed, Numeral
    <3>2. Cache!Refs(t.cache, k) = Cache!Refs(s.cache, k) - Numeral(k \in keys)
      BY <1>4, <1>6
    <3>3. Numeral(k \in keys) \in {0, 1}
      BY DEF Numeral
    <3>4. QED
      BY <1>3, <1>9, <3>1, <3>2, <3>3
  <2>2. QED
    BY <2>1 DEF Balanced
<1>14. QED
  BY <1>8, <1>9, <1>11, <1>12, <1>13 DEF Settling, Leaves, t, keys

\* A job that is not awaiting its layers any more releases the one it got.
LEMMA ReturnSettles ==
  ASSUME NEW s, NEW j \in Job, NEW k \in Key, NEW M \in [Key -> Nat], Whole(s), Sane(s),
         Fit(s, j, {}), Balanced(s, j, {k}, M), ~Claim(s, j, k)
  PROVE  Settling(s, [s EXCEPT !.cache = Cache!Decremented(@, k)], j, M)
<1> DEFINE c == s.cache
           d == Cache!Decremented(c, k)
           t == [s EXCEPT !.cache = Cache!Decremented(@, k)]
<1>1. /\ t.cache = d /\ t.job = s.job /\ t.tasks = s.tasks /\ t.digests = s.digests
      /\ t.timers = s.timers /\ t.closed = s.closed /\ t.status = s.status /\ DOMAIN t = StateFields
  BY DEF Whole, Sound, StateFields
<1>2. CacheWell(c) /\ CacheTyped(c)
  BY DEF Sane, CacheWell
<1>3. ASSUME NEW x \in Key
      PROVE  /\ Cache!Refs(c, x) \in Nat /\ M[x] \in Nat
             /\ Numeral(Owed(s, j, {k}, x)) = Numeral(Owed(s, j, {}, x)) + IF x = k THEN 1 ELSE 0
             /\ Numeral(Owed(s, j, {}, x)) \in {0, 1}
             /\ x = k => Numeral(Owed(s, j, {}, x)) = 0
  <2>1. Cache!Refs(c, x) \in Nat
    BY <1>2, RefsForms
  <2>2. QED
    BY <2>1 DEF Owed, Numeral
<1>4. Cache!Refs(c, k) > 0
  <2>1. Numeral(Owed(s, j, {k}, k)) = 1
    BY DEF Owed, Numeral
  <2>2. Cache!Refs(c, k) >= M[k] + 1
    BY <2>1 DEF Balanced
  <2>3. QED
    BY <1>3, <2>2
<1>5. Counted(c, k, Cache!Refs(c, k) - 1, d)
  BY <1>2, <1>4, DecrementedWell
<1>6. SameWaits(c, d)
  BY <1>2, DecrementedTyped
<1> HIDE DEF t, d, c
<1>7. \A i \in Job : SameFor(s, t, i)
  BY <1>1, <1>6, SameWaitsSame DEF c
<1>8. \A x : Claim(t, j, x) <=> Claim(s, j, x)
  BY <1>1 DEF Claim
<1>9. Fit(t, j, {})
  BY <1>1, <1>7, <1>8 DEF Fit, SameFor
<1>10. Sane(t)
  BY <1>1, <1>5, <1>6 DEF Sane, Counted, TasksGet, TimersOnce, SameWaits, c
<1>11. Balanced(t, j, {}, M)
  <2>1. ASSUME NEW x \in Key
        PROVE  /\ Cache!Refs(t.cache, x) >= M[x] + Numeral(Owed(t, j, {}, x))
               /\ ~t.closed => Cache!Refs(t.cache, x) = M[x] + Numeral(Owed(t, j, {}, x))
    <3> DEFINE a == Numeral(Owed(s, j, {}, x))
               b == Numeral(Owed(s, j, {k}, x))
    <3>1. Numeral(Owed(t, j, {}, x)) = a
      BY <1>8 DEF Owed, Numeral
    <3>2. Cache!Refs(d, x) = IF x = k THEN Cache!Refs(c, k) - 1 ELSE Cache!Refs(c, x)
      BY <1>5 DEF Counted
    <3>3. Cache!Refs(c, x) >= M[x] + b /\ (~s.closed => Cache!Refs(c, x) = M[x] + b)
      BY DEF Balanced, c
    <3>4. b = a + (IF x = k THEN 1 ELSE 0) /\ a \in {0, 1}
      BY <1>3
    <3> HIDE DEF a, b
    <3>5. QED
      BY <1>1, <1>3, <3>1, <3>2, <3>3, <3>4
  <2>2. QED
    BY <2>1 DEF Balanced
<1>12. \A i \in Job \ {j} : Keeps(s, t, i)
  BY <1>1, <1>7 DEF Keeps
<1>13. QED
  BY <1>1, <1>9, <1>10, <1>11, <1>12 DEF Settling, t

\* advance_job
LEMMA AdvanceSettles ==
  ASSUME NEW s, NEW j \in Job, NEW k \in Key, NEW told, NEW M \in [Key -> Nat], Whole(s), Sane(s),
         \A i \in Job \ {j} : s.job[i].st = "available" => Runs(i, s.job[i]),
         s.job[j].st = "awaiting" => /\ Right(s, j, told, {}, {}, {}, {}) /\ ~s.closed
                                     /\ Charged(j, told, M, {}, {}),
         s.job[j].st # "awaiting" => Fit(s, j, {}) /\ Balanced(s, j, {k}, M) /\ ~Claim(s, j, k)
  PROVE  Settling(s, AdvanceJob(s, j, k, told), j, M)
<1>1. CASE s.job[j].st # "awaiting"
  <2>1. Settling(s, [s EXCEPT !.cache = Cache!Decremented(@, k)], j, M)
    BY <1>1, ReturnSettles
  <2>2. QED
    BY <1>1, <2>1 DEF AdvanceJob
<1>2. CASE s.job[j].st = "awaiting"
  <2>1. Settling(s, told, j, M)
    BY <1>2, TrackerSettles DEF Sane
  <2>2. CASE IsComplete(told.job[j], j)
    <3>1. Settling(s, MakeAvailable(told, j), j, M)
      BY <1>2, <2>1, <2>2, AvailableSettles
    <3>2. QED
      BY <1>2, <2>2, <3>1 DEF AdvanceJob
  <2>3. QED
    BY <1>2, <2>1, <2>2 DEF AdvanceJob
<1>3. QED
  BY <1>1, <1>2

\* job_failure
LEMMA FailSettles ==
  ASSUME NEW s, NEW j \in Job, NEW M \in [Key -> Nat], Whole(s), OnceIn(s, j), Sane(s),
         Fit(s, j, {}), Balanced(s, j, {}, M), NEW ord \in KeyOrders
  PROVE  Settling(s, JobFailure(s, j, ord), j, M)
<1>1. CASE s.job[j].st # "awaiting"
  <2>1. \A i \in Job : Keeps(s, s, i)
    BY DEF Keeps, SameFor
  <2>2. QED
    BY <1>1, <2>1 DEF JobFailure, Settling
<1>2. CASE s.job[j].st = "awaiting"
  <2> DEFINE h == [Respond(s, j, "error") EXCEPT !.job[j] = NoJob]
  <2>1. /\ DOMAIN h = StateFields /\ h.cache = s.cache /\ h.tasks = s.tasks
        /\ h.digests = s.digests /\ h.timers = s.timers /\ h.status = s.status
        /\ h.closed = s.closed /\ h.job = [s.job EXCEPT ![j] = NoJob]
    BY DEF Respond, Whole, Sound, StateFields
  <2>2. JobFailure(s, j, ord) = Release(h, s.job[j].keys, ord)
    BY <1>2 DEF JobFailure
  <2> HIDE DEF h
  <2>3. Puts(s, h, j, NoJob)
    BY <2>1 DEF Puts
  <2>4. Settling(s, Release(h, s.job[j].keys, ord), j, M)
    BY <1>2, <2>1, <2>3, DropSettles
  <2>5. QED
    BY <2>2, <2>4
<1>3. QED
  BY <1>1, <1>2

-----------------------------------------------------------------------------
\* The steps of the dispatcher.

\* The inductive invariant, with TrackersRight: the cache counts the references
\* of the jobs.
RefsCounted == Ledger(Now, 0, {})

LEMMA SettlesOne ==
  ASSUME NEW s, Ledger(s, 0, {}), NEW j \in Job, NEW t, Settling(s, t, j, OtherRefs(s, j, {}))
  PROVE  Ledger(t, 0, {})
<1> DEFINE Y == {}
<1>1. Due(j, Y, 0) = {} /\ Y \ {j} = {}
  BY DEF Due
<1>2. Ledger(s, 0, Y) /\ Settling(s, t, j, OtherRefs(s, j, Due(j, Y, 0)))
  BY <1>1
<1> HIDE DEF Y
<1>3. Ledger(t, 0, Y \ {j})
  BY <1>2, LedgerSettles
<1>4. QED
  BY <1>1, <1>3

LEMMA LedgerOne ==
  ASSUME NEW s, Ledger(s, 0, {}), NEW j \in Job
  PROVE  /\ Sane(s) /\ Fit(s, j, {}) /\ OtherRefs(s, j, {}) \in [Key -> Nat]
         /\ Balanced(s, j, {}, OtherRefs(s, j, {}))
<1> DEFINE Y == {}
<1>1. Due(j, Y, 0) = {} /\ Ledger(s, 0, Y)
  BY DEF Due
<1> HIDE DEF Y
<1>2. /\ OtherRefs(s, j, Due(j, Y, 0)) \in [Key -> Nat]
      /\ Balanced(s, j, Due(j, Y, 0), OtherRefs(s, j, Due(j, Y, 0)))
  BY <1>1, OtherRefsNat
<1>3. Sane(s) /\ Fit(s, j, Due(j, Y, 0))
  BY <1>1 DEF Ledger
<1>4. QED
  BY <1>1, <1>2, <1>3

LEMMA EnqueueCounted ==
  ASSUME TrackersRight, RefsCounted, NEW j \in Job, EnqueueJob(j)
  PROVE  RefsCounted'
<1> DEFINE s == Now
           u == NewTracker(s, j)
           M == OtherRefs(s, j, {})
           t == IF IsComplete(u.job[j], j) THEN MakeAvailable(u, j) ELSE SendStatus(u, j, "layers")
<1>1. /\ Whole(s) /\ Sound(s) /\ Fresh(s, j) /\ s.job[j] = NoJob /\ s.closed = shutDown
      /\ \A i \in Job : s.job[i].st = "available" => Runs(i, s.job[i])
      /\ shutDown' = shutDown
  BY NowRight, NowFields DEF EnqueueJob, Whole
<1>2. Ledger(s, 0, {}) /\ Sane(s) /\ M \in [Key -> Nat]
  BY LedgerOne DEF RefsCounted
<1>3. Become(s) \/ (~shutDown /\ Become(t))
  BY DEF EnqueueJob
<1>4. Right(s, j, u, {}, {}, {}, {})
  BY <1>1, RightNew
<1> HIDE DEF s, u, t
<1>5. CASE Become(s)
  BY <1>1, <1>2, <1>5, LedgerBecomes DEF RefsCounted
<1>6. CASE ~shutDown /\ Become(t)
  <2>1. \A k \in Key : M[k] = Cache!Refs(s.cache, k)
    <3>1. ASSUME NEW k \in Key
          PROVE  /\ Numeral(Owed(s, j, {}, k)) = 0 /\ Cache!Refs(s.cache, k) \in Nat
      <4>1. Cache!Refs(s.cache, k) \in Nat
        BY <1>2, RefsForms DEF Sane, CacheWell
      <4>2. QED
        BY <1>1, <1>6, <4>1 DEF Owed, Claim, Numeral
    <3>2. QED
      BY <3>1 DEF OtherRefs
  <2>2. CacheWell(s.cache) /\ TasksGet(s) /\ TimersOnce(s)
    BY <1>2 DEF Sane
  <2> HIDE DEF M
  <2>3. Charged(j, u, M, {}, {})
    BY <1>1, <1>2, <2>1, <2>2, ChargedNew DEF u
  <2>4. Settling(s, u, j, M)
    BY <1>1, <1>2, <1>4, <1>6, <2>2, <2>3, TrackerSettles
  <2>5. Ledger(t, 0, {})
    <3>1. CASE IsComplete(u.job[j], j)
      <4>1. Settling(s, MakeAvailable(u, j), j, M)
        BY <1>1, <1>2, <1>4, <2>4, <3>1, AvailableSettles
      <4>2. QED
        BY <1>2, <3>1, <4>1, SettlesOne DEF t, M
    <3>2. CASE ~IsComplete(u.job[j], j)
      <4>1. t = SendStatus(u, j, "layers")
        BY <3>2 DEF t
      <4>2. Ledger(u, 0, {})
        BY <1>2, <2>4, SettlesOne DEF M
      <4>3. Whole(u)
        BY <1>1, <1>4, WorksLeaves DEF Leaves, Right
      <4>4. t.job = u.job /\ \A i \in Job : SameFor(u, t, i)
        BY <4>1, <4>3, StatusLeaves
      <4>5. Quiet(u, t)
        BY <4>1, <4>3, StatusQuiet
      <4>6. \A i \in Job : Keeps(u, t, i)
        BY <4>4 DEF Keeps
      <4>7. QED
        BY <4>2, <4>5, <4>6, LedgerKeeps DEF Quiet, Ledger, Sane
    <3>3. QED
      BY <3>1, <3>2
  <2>6. t.closed = shutDown
    <3>1. u.closed = s.closed
      BY <2>4 DEF Settling
    <3>2. Whole(u)
      BY <1>1, <1>4, WorksLeaves DEF Leaves, Right
    <3>3. CASE IsComplete(u.job[j], j)
      <4>1. Settling(s, MakeAvailable(u, j), j, M)
        BY <1>1, <1>2, <1>4, <2>4, <3>3, AvailableSettles
      <4>2. QED
        BY <1>1, <3>3, <4>1 DEF Settling, t
    <3>4. CASE ~IsComplete(u.job[j], j)
      BY <1>1, <3>1, <3>2, <3>4, StatusQuiet DEF Quiet, t
    <3>5. QED
      BY <3>3, <3>4
  <2>7. QED
    BY <1>1, <1>6, <2>5, <2>6, LedgerBecomes DEF RefsCounted
<1>7. QED
  BY <1>3, <1>5, <1>6

\* A step that settles the references of one job.
LEMMA CountedStep ==
  ASSUME RefsCounted, NEW j \in Job, NEW t, Settling(Now, t, j, OtherRefs(Now, j, {})), Become(t),
         shutDown' = shutDown
  PROVE  RefsCounted'
<1>1. Ledger(t, 0, {})
  BY SettlesOne DEF RefsCounted
<1>2. t.closed = shutDown
  BY NowFields DEF Settling
<1>3. QED
  BY <1>1, <1>2, LedgerBecomes DEF RefsCounted

LEMMA KeepsStep ==
  ASSUME RefsCounted, NEW t, t.cache = cache, t.tasks = tasks, t.closed = shutDown, TimersOnce(t),
         \A i \in Job : Keeps(Now, t, i), Become(t), shutDown' = shutDown
  PROVE  RefsCounted'
<1>1. Ledger(t, 0, {})
  BY LedgerKeeps, NowFields DEF RefsCounted
<1>2. QED
  BY <1>1, LedgerBecomes DEF RefsCounted

LEMMA CancelCounted ==
  ASSUME TrackersRight, RefsCounted, NEW j \in Job, CancelJob(j)
  PROVE  RefsCounted'
<1> DEFINE s == Now
           M == OtherRefs(s, j, {})
<1>1. /\ Whole(s) /\ OnceIn(s, j) /\ JobRight(s, j, {}) /\ s.job = job /\ DOMAIN job = Job
      /\ shutDown' = shutDown /\ s.closed = shutDown
  BY NowRight, NowFields DEF CancelJob, Whole, Sound
<1>2. /\ Sane(s) /\ Fit(s, j, {}) /\ M \in [Key -> Nat] /\ Balanced(s, j, {}, M)
  BY LedgerOne DEF RefsCounted
<1>3. CASE job[j].st = "none"
  <2>1. Become(s)
    BY <1>3 DEF CancelJob
  <2>2. QED
    BY <1>1, <2>1, LedgerBecomes DEF RefsCounted
<1>4. CASE job[j].st = "executing"
  <2> DEFINE x == [job[j] EXCEPT !.mode = "canceled"]
             t == [s EXCEPT !.job[j].mode = "canceled"]
  <2>1. Become(t)
    BY <1>4 DEF CancelJob
  <2>2. /\ t.cache = cache /\ t.tasks = tasks /\ t.digests = digests /\ t.timers = timers
        /\ t.closed = shutDown /\ t.job = [s.job EXCEPT ![j] = x]
    BY NowFields DEF StateFields
  <2>3. Runs(j, job[j]) /\ Runs(j, x)
    BY <1>4, NowRight, RunsForms
  <2>4. x.mode = "canceled"
    BY <2>3 DEF Runs
  <2> HIDE DEF t, x
  <2>5. t.job[j] = x /\ \A i \in Job \ {j} : t.job[i] = job[i]
    BY <1>1, <2>2
  <2>6. TimersOnce(s)
    BY <1>2 DEF Sane
  <2>7. TimersOnce(t)
    BY <1>1, <2>2, <2>4, <2>5, <2>6, NowFields DEF TimersOnce
  <2>8. \A i \in Job : SameFor(s, t, i)
    BY <2>2, NowFields DEF SameFor, ListedIn, OnceIn
  <2>9. \A i \in Job : Keeps(s, t, i)
    BY <1>1, <2>3, <2>5, <2>8 DEF Keeps
  <2> HIDE DEF s
  <2>10. QED
    BY <1>1, <2>1, <2>2, <2>7, <2>9, KeepsStep DEF s
<1>5. CASE job[j].st \notin {"none", "executing"}
  <2> DEFINE h == [s EXCEPT !.job[j] = NoJob]
             keys == job[j].keys
  <2>1. PICK ord \in KeyOrders : Become(Release(h, keys, ord))
    BY <1>5 DEF CancelJob
  <2> DEFINE t == Release(h, keys, ord)
  <2>2. /\ DOMAIN h = StateFields /\ h.cache = s.cache /\ h.tasks = s.tasks
        /\ h.digests = s.digests /\ h.status = s.status /\ h.timers = s.timers
        /\ h.job = [s.job EXCEPT ![j] = NoJob] /\ h.closed = s.closed
    BY NowFields DEF StateFields
  <2>3. Become(t)
    BY <2>1
  <2>4. (s.job[j].st = "awaiting" \/ Runs(j, s.job[j])) /\ keys = s.job[j].keys
    <3>1. JobRight(s, j, {}) /\ s.job[j] # NoJob
      BY <1>1, <1>5 DEF NoJob
    <3>2. s.job[j].st = "awaiting" \/ Runs(j, s.job[j])
      BY <3>1, SettledIsRight DEF Settled
    <3>3. QED
      BY <1>1, <3>2
  <2> HIDE DEF h, keys, s, M
  <2>5. Puts(s, h, j, NoJob)
    BY <2>2 DEF Puts
  <2>6. Settling(s, t, j, M)
    BY <1>1, <1>2, <2>2, <2>4, <2>5, DropSettles
  <2> HIDE DEF t
  <2>7. QED
    BY <1>1, <2>3, <2>6, CountedStep DEF s, M
<1>6. QED
  BY <1>3, <1>4, <1>5

LEMMA TimerCounted ==
  ASSUME TrackersRight, RefsCounted, NEW j \in Job, JobTimer(j)
  PROVE  RefsCounted'
<1> DEFINE s == Now
           h == [s EXCEPT !.timers = @ \ {j}]
           x == [job[j] EXCEPT !.mode = "timedOut"]
           t == [h EXCEPT !.job[j].mode = "timedOut"]
<1>1. /\ Whole(s) /\ s.job = job /\ DOMAIN job = Job /\ shutDown' = shutDown /\ j \in timers
      /\ TimersOnce(s)
  BY NowRight, NowFields DEF JobTimer, Whole, Sound, RefsCounted, Ledger, Sane
<1>2. ~(job[j].st = "executing" /\ job[j].mode = "timedOut")
  BY <1>1, NowFields DEF TimersOnce
<1>3. Become(h) \/ (job[j].st = "executing" /\ Become(t))
  BY <1>2 DEF JobTimer
<1>4. /\ DOMAIN h = StateFields /\ h.cache = cache /\ h.tasks = tasks /\ h.digests = digests
      /\ h.timers = timers \ {j} /\ h.job = job /\ h.closed = shutDown
  BY NowFields DEF StateFields
<1> HIDE DEF h
<1>5. /\ t.cache = cache /\ t.tasks = tasks /\ t.digests = digests
      /\ t.timers = timers \ {j} /\ t.job = [job EXCEPT ![j] = x] /\ t.closed = shutDown
  BY <1>4 DEF StateFields
<1> HIDE DEF t, x
<1>6. /\ \A i \in Job : SameFor(s, h, i)
      /\ \A i \in Job : SameFor(s, t, i)
  BY <1>4, <1>5, NowFields DEF SameFor, ListedIn, OnceIn
<1>7. CASE Become(h)
  <2>1. TimersOnce(h)
    BY <1>1, <1>4, NowFields DEF TimersOnce
  <2>2. \A i \in Job : Keeps(s, h, i)
    BY <1>1, <1>4, <1>6 DEF Keeps
  <2> HIDE DEF s
  <2>3. QED
    BY <1>1, <1>4, <1>7, <2>1, <2>2, KeepsStep DEF s
<1>8. CASE job[j].st = "executing" /\ Become(t)
  <2>1. Runs(j, job[j]) /\ Runs(j, x)
    <3>1. Runs(j, job[j]) /\ job[j].st = "executing"
      BY <1>8, NowRight
    <3>2. Runs(j, x)
      BY <3>1 DEF Runs, x
    <3>3. QED
      BY <3>1, <3>2
  <2>2. t.job[j] = x /\ \A i \in Job \ {j} : t.job[i] = job[i]
    BY <1>1, <1>5
  <2>3. TimersOnce(t)
    BY <1>1, <1>5, <2>2, NowFields DEF TimersOnce
  <2>4. \A i \in Job : Keeps(s, t, i)
    BY <1>1, <1>6, <2>1, <2>2 DEF Keeps
  <2> HIDE DEF s
  <2>5. QED
    BY <1>1, <1>5, <1>8, <2>3, <2>4, KeepsStep DEF s
<1>9. QED
  BY <1>3, <1>7, <1>8

LEMMA CompletedCounted ==
  ASSUME TrackersRight, RefsCounted, NEW j \in Job, JobCompleted(j)
  PROVE  RefsCounted'
<1> DEFINE s == Now
           outcome == [nominal |-> "completed", timedOut |-> "timedOut"]
           mode == job[j].mode
           r == IF mode = "canceled" THEN Now ELSE Respond(Now, j, outcome[mode])
           h == [r EXCEPT !.job[j] = NoJob]
           keys == job[j].keys
           M == OtherRefs(s, j, {})
<1>1. /\ Whole(s) /\ OnceIn(s, j) /\ JobRight(s, j, {}) /\ s.job = job /\ s.closed = shutDown
      /\ shutDown' = shutDown /\ s.job[j] # NoJob /\ keys = s.job[j].keys
  BY NowRight, NowFields DEF JobCompleted, NoJob
<1>2. /\ Sane(s) /\ Fit(s, j, {}) /\ M \in [Key -> Nat] /\ Balanced(s, j, {}, M) /\ Ledger(s, 0, {})
  BY LedgerOne DEF RefsCounted
<1>3. PICK ord \in KeyOrders :
        LET u == Release(h, keys, ord) IN
        IF CanStart(u) THEN \E k \in Best(u) : Become(Start(u, k)) ELSE Become(u)
  BY DEF JobCompleted
<1> DEFINE u == Release(h, keys, ord)
<1>4. IF CanStart(u) THEN \E k \in Best(u) : Become(Start(u, k)) ELSE Become(u)
  BY <1>3
<1>5. /\ DOMAIN h = StateFields /\ h.cache = s.cache /\ h.tasks = s.tasks
      /\ h.digests = s.digests /\ h.status = s.status /\ h.timers = s.timers
      /\ h.job = [s.job EXCEPT ![j] = NoJob] /\ h.closed = s.closed
  <2>1. CASE mode = "canceled"
    BY <2>1, NowFields DEF StateFields
  <2>2. CASE mode # "canceled"
    BY <2>2, NowFields DEF StateFields, Respond
  <2>3. QED
    BY <2>1, <2>2
<1> HIDE DEF s, h, keys, M
<1>6. Puts(s, h, j, NoJob)
  BY <1>5 DEF Puts
<1>a. s.job[j].st = "awaiting" \/ Runs(j, s.job[j])
  BY <1>1, SettledIsRight DEF Settled
<1>7. Settling(s, u, j, M)
  BY <1>a, <1>1, <1>2, <1>5, <1>6, DropSettles
<1>8. Leaves(s, u, j)
  <2>1. Leaves(s, h, j) /\ JobRight(h, j, {})
    BY <1>1, <1>6, PutsLeaves
  <2>2. QED
    BY <2>1, ReleaseLeaves
<1>9. u.job[j] = NoJob
  <2>1. u.job = h.job
    BY <1>1, <1>6, PutsLeaves, ReleaseLeaves
  <2>2. QED
    BY <1>1, <1>5, <2>1 DEF Whole, Sound
<1> HIDE DEF u
<1>10. Ledger(u, 0, {}) /\ u.closed = shutDown
  BY <1>1, <1>2, <1>7, SettlesOne DEF M, Settling
<1>11. CASE ~CanStart(u)
  BY <1>1, <1>4, <1>10, <1>11, LedgerBecomes DEF RefsCounted
<1>12. CASE CanStart(u)
  <2>1. PICK k \in Best(u) : Become(Start(u, k))
    BY <1>4, <1>12
  <2>2. k \in Job /\ u.job[k].st = "available"
    BY DEF Best, InState
  <2>3. Whole(u) /\ Runs(k, u.job[k])
    <3>1. k # j
      BY <1>9, <2>2 DEF NoJob
    <3>2. Keeps(s, u, k) /\ Whole(u)
      BY <1>8, <2>2, <3>1 DEF Leaves
    <3>3. u.job[k] = job[k] \/ Runs(k, u.job[k])
      BY <1>1, <3>2 DEF Keeps
    <3>4. QED
      BY <2>2, <3>2, <3>3, NowRight
  <2> DEFINE t == Start(u, k)
  <2>4. \A i \in Job : Keeps(u, t, i)
    BY <2>2, <2>3, StartLeaves
  <2>5. Quiet(u, t)
    BY <2>2, <2>3, StartQuiet
  <2>6. Become(t)
    BY <2>1
  <2> HIDE DEF t
  <2>7. Ledger(t, 0, {}) /\ t.closed = shutDown
    BY <1>10, <2>4, <2>5, LedgerKeeps DEF Quiet, Ledger, Sane
  <2>8. QED
    BY <1>1, <2>6, <2>7, LedgerBecomes DEF RefsCounted
<1>13. QED
  BY <1>11, <1>12

\* A sequence in which nothing comes twice has as many members as places.
LEMMA SizeOnce ==
  ASSUME NEW S, NEW q \in Seq(S), IsInjective(q)
  PROVE  IsFiniteSet(ToSet(q)) /\ Cardinality(ToSet(q)) = Len(q)
<1>1. q \in Bijection(1 .. Len(q), ToSet(q))
  BY DEF Bijection, Injection, Surjection, ToSet
<1>2. ExistsBijection(1 .. Len(q), ToSet(q)) /\ Len(q) \in Nat
  BY <1>1 DEF ExistsBijection
<1>3. IsFiniteSet(1 .. Len(q)) /\ Cardinality(1 .. Len(q)) = Len(q)
  <2>1. ASSUME NEW n \in Nat
        PROVE  IsFiniteSet(1 .. n) /\ Cardinality(1 .. n) = n
    <3>1. 1 \in Int /\ n \in Int /\ (IF 1 > n THEN 0 ELSE n - 1 + 1) = n
      OBVIOUS
    <3>2. QED
      BY <3>1, FS_Interval
  <2>2. QED
    BY <1>2, <2>1
<1>4. QED
  BY <1>2, <1>3, FS_Bijection

\* A fetch or a build has ended: nobody has had a reference to what it got.
LEMMA EndsFit ==
  ASSUME NEW s, NEW k \in Key, NEW F, AllRight(s, 0, {}, F), Ledger(s, 0, {}), NEW c,
         Ends(s, k, c), CacheWell(c)
  PROVE  LET e == EndOf(s, k, c) IN
         /\ e.cache = c /\ e.closed = s.closed /\ Sane(e)
         /\ \A i \in Job : /\ Fit(e, i, Due(i, ToSet(ToTell(s, k)), k)) /\ Fit(e, i, Due(i, {}, 0))
                           /\ \A x : Claim(e, i, x) <=> Claim(s, i, x)
<1> DEFINE e == EndOf(s, k, c)
           Y == ToSet(ToTell(s, k))
<1>1. /\ e.cache = c /\ e.job = s.job /\ e.tasks = s.tasks \ {k}
      /\ e.digests = s.digests /\ e.timers = s.timers /\ e.closed = s.closed
  BY DEF EndOf, AllRight, Whole, Sound, StateFields
<1>2. \A i \in Job : i \in Y <=> k \in ListedIn(s, i)
  BY ToTellForms
<1>3. Sane(s) /\ \A i \in Job : Fit(s, i, {})
  BY DEF Ledger, Due
<1> HIDE DEF e, Y
<1>4. Sane(e)
  <2>1. ASSUME NEW x \in e.tasks
        PROVE  x \in Key /\ e.cache.entry[x].st = "getting"
    BY <1>1, <1>3 DEF Sane, TasksGet, Ends
  <2>2. QED
    BY <1>1, <1>3, <2>1 DEF Sane, TasksGet, TimersOnce
<1>5. ASSUME NEW i \in Job
      PROVE  /\ Fit(e, i, Due(i, Y, k)) /\ Fit(e, i, Due(i, {}, 0))
             /\ \A x : Claim(e, i, x) <=> Claim(s, i, x)
  <2>1. \A x : Claim(e, i, x) <=> Claim(s, i, x)
    BY <1>1 DEF Claim
  <2>2. ListedIn(e, i) \subseteq ListedIn(s, i)
    BY <1>1 DEF Ends, ListedIn
  <2>3. Due(i, Y, k) \subseteq ListedIn(s, i) /\ Due(i, {}, 0) = {}
    BY <1>2 DEF Due
  <2>4. QED
    BY <1>1, <1>3, <2>1, <2>2, <2>3 DEF Fit
<1>6. QED
  BY <1>1, <1>4, <1>5 DEF e, Y

LEMMA GettingOwes ==
  ASSUME NEW s, Ledger(s, 0, {}), NEW k \in Key, s.cache.entry[k].st = "getting"
  PROVE  \A i \in Job : ~Claim(s, i, k)
<1> DEFINE S == Owing(s, 0, {}, k)
           r == Cache!Refs(s.cache, k)
           n == Cardinality(S)
<1>1. r \in Nat /\ ~(r > 0)
  BY RefsForms DEF Ledger, Sane, CacheWell
<1>2. IsFiniteSet(S) /\ r >= n
  BY DEF Ledger, Covered
<1>3. \A i \in Job : Claim(s, i, k) => i \in S
  BY DEF Owing, Owed
<1> HIDE DEF S, r
<1>4. n \in Nat
  BY <1>2, FS_CardinalityType
<1>5. n = 0
  BY <1>1, <1>2, <1>4
<1>6. S = {}
  BY <1>2, <1>5, FS_EmptySet
<1>7. QED
  BY <1>3, <1>6

\* Those that waited are counted before they are told of it.
LEMMA LedgerToTell ==
  ASSUME NEW s, NEW k \in Key, NEW F, AllRight(s, 0, {}, F), Ledger(s, 0, {}), NEW c, Ends(s, k, c),
         s.cache.entry[k].st = "getting", Counted(s.cache, k, Len(ToTell(s, k)), c)
  PROVE  Ledger(EndOf(s, k, c), k, ToSet(ToTell(s, k)))
<1> DEFINE e == EndOf(s, k, c)
           q == ToTell(s, k)
           Y == ToSet(q)
<1>1. /\ e.cache = c /\ e.closed = s.closed /\ Sane(e)
      /\ \A i \in Job : /\ Fit(e, i, Due(i, Y, k))
                        /\ \A x : Claim(e, i, x) <=> Claim(s, i, x)
  BY EndsFit DEF Counted
<1>2. \A i \in Job : ~Claim(s, i, k)
  BY GettingOwes
<1>3. q \in Seq(Job) /\ IsInjective(q)
  BY ToTellForms
<1> HIDE DEF e, q
<1>4. IsFiniteSet(Y) /\ Cardinality(Y) = Len(q) /\ Len(q) \in Nat
  BY <1>3, SizeOnce
<1>5. Y \subseteq Job
  BY <1>3 DEF ToSet
<1> HIDE DEF Y
<1>6. Owing(e, k, Y, k) = Y
  BY <1>1, <1>2, <1>5 DEF Owing, Owed, Due
<1>7. ASSUME NEW x \in Key
      PROVE  Covered(e, k, Y, x)
  <2>1. CASE x = k
    <3>1. Cache!Refs(e.cache, x) = Len(q)
      BY <1>1, <2>1 DEF Counted, q
    <3>2. QED
      BY <1>4, <1>6, <2>1, <3>1 DEF Covered
  <2>2. CASE x # k
    <3>1. Owing(e, k, Y, x) = Owing(s, 0, {}, x)
      BY <1>1, <2>2 DEF Owing, Owed, Due
    <3>2. Cache!Refs(e.cache, x) = Cache!Refs(s.cache, x)
      BY <1>1, <2>2 DEF Counted
    <3>3. QED
      BY <1>1, <3>1, <3>2 DEF Covered, Ledger
  <2>3. QED
    BY <2>1, <2>2
<1>8. QED
  BY <1>1, <1>7 DEF Ledger, e, Y, q

\* Those that are failed have no reference to it.
LEMMA LedgerToFail ==
  ASSUME NEW s, NEW k \in Key, NEW F, AllRight(s, 0, {}, F), Ledger(s, 0, {}), NEW c, Ends(s, k, c),
         s.cache.entry[k].st = "getting", Counted(s.cache, k, 0, c)
  PROVE  Ledger(EndOf(s, k, c), 0, {})
<1> DEFINE e == EndOf(s, k, c)
<1>a. CacheWell(c)
  BY DEF Counted
<1>b. /\ e.cache = c /\ e.closed = s.closed /\ Sane(e)
      /\ \A i \in Job : /\ Fit(e, i, Due(i, ToSet(ToTell(s, k)), k)) /\ Fit(e, i, Due(i, {}, 0))
                        /\ \A x : Claim(e, i, x) <=> Claim(s, i, x)
  BY <1>a, EndsFit
<1>1. /\ e.cache = c /\ e.closed = s.closed /\ Sane(e)
      /\ \A i \in Job : /\ Fit(e, i, Due(i, {}, 0))
                        /\ \A x : Claim(e, i, x) <=> Claim(s, i, x)
  BY <1>b
<1> HIDE DEF e
<1>2. ASSUME NEW x \in Key
      PROVE  Covered(e, 0, {}, x)
  <2>1. Owing(e, 0, {}, x) = Owing(s, 0, {}, x)
    BY <1>1 DEF Owing, Owed
  <2>2. Cache!Refs(e.cache, x) = Cache!Refs(s.cache, x)
    <3>1. Cache!Refs(s.cache, k) = 0
      BY RefsForms DEF Ledger, Sane, CacheWell
    <3>2. QED
      BY <1>1, <3>1 DEF Counted
  <2>3. QED
    BY <1>1, <2>1, <2>2 DEF Covered, Ledger
<1>3. QED
  BY <1>1, <1>2 DEF Ledger, e

\* One of the jobs that waited for k is told of it.
LEMMA OneIsCounted ==
  ASSUME NEW s, NEW k \in Key, NEW Y, NEW F, AllRight(s, k, Y, F), Ledger(s, k, Y), NEW j \in Y, j \in Job
  PROVE  LET t == AdvanceJob(s, j, k, Told(s, j, k)) IN
         Ledger(t, k, Y \ {j}) /\ t.closed = s.closed
<1> DEFINE told == Told(s, j, k)
           t == AdvanceJob(s, j, k, told)
           M == OtherRefs(s, j, {k})
<1>1. Due(j, Y, k) = {k}
  BY DEF Due
<1>2. Whole(s) /\ JobRight(s, j, {k}) /\ \A i \in Job : JobRight(s, i, Due(i, Y, k))
  BY <1>1 DEF AllRight
<1>3. M \in [Key -> Nat] /\ Balanced(s, j, {k}, M)
  BY <1>1, OtherRefsNat
<1>4. Sane(s) /\ Fit(s, j, {k})
  BY <1>1 DEF Ledger
<1> HIDE DEF M, told
<1>5. s.job[j].st = "awaiting" => /\ Right(s, j, told, {}, {}, {}, {}) /\ ~s.closed
                                  /\ Charged(j, told, M, {}, {})
  <2>1. ASSUME s.job[j].st = "awaiting"
        PROVE  /\ Right(s, j, told, {}, {}, {}, {}) /\ ~s.closed
               /\ Charged(j, told, M, {}, {})
    <3>1. /\ TrackerRight(j, s.job[j], ListedIn(s, j), ReadFor(s.digests, j), {k}, {}, {}, {})
          /\ OnceIn(s, j)
      BY <1>2, <2>1, SettledIsRight
    <3>2. Right(s, j, s, {k}, {}, {}, {})
      BY <1>2, <3>1, WorksStarts
    <3>3. ~s.closed /\ NotYet(j, s.job[j], {})
      BY <1>4, <2>1 DEF Fit
    <3>4. \A x \in Key : Owed(s, j, {k}, x) <=> x \in s.job[j].keys \cup {k}
      BY <2>1 DEF Owed, Claim, NoJob
    <3>5. \A x \in Key : Numeral(Owed(s, j, {k}, x)) = IF x \in s.job[j].keys \cup {k} THEN 1 ELSE 0
      BY <3>4 DEF Numeral
    <3>6. Booked(j, s, M, {k})
      BY <1>3, <1>4, <3>3, <3>5 DEF Booked, Balanced, Sane, TasksGet
    <3>7. Charged(j, s, M, {k}, {})
      BY <3>3, <3>6 DEF Charged
    <3>8. Charged(j, told, M, {}, {})
      BY <1>3, <3>2, <3>7, ChargedTold DEF told
    <3>9. QED
      BY <3>2, <3>3, <3>8, RightTold DEF told
  <2>2. QED
    BY <2>1
<1>6. s.job[j].st # "awaiting" => Fit(s, j, {}) /\ Balanced(s, j, {k}, M) /\ ~Claim(s, j, k)
  BY <1>3, <1>4 DEF Fit
<1>7. \A i \in Job \ {j} : s.job[i].st = "available" => Runs(i, s.job[i])
  BY <1>2, SettledIsRight
<1>8. Settling(s, t, j, M)
  BY <1>2, <1>3, <1>4, <1>5, <1>6, <1>7, AdvanceSettles
<1> HIDE DEF t
<1>9. Ledger(t, k, Y \ {j})
  BY <1>1, <1>8, LedgerSettles DEF M
<1>10. QED
  BY <1>8, <1>9 DEF Settling, t, told

ToCount(r, i, t) ==
  AllRight(t, r.k, Rest(r.q, i), r.f) /\ Ledger(t, r.k, Rest(r.q, i)) /\ t.closed = r.closed
AllCounting == INSTANCE FoldTheorems WITH Op <- AdvanceStep, Inv <- ToCount

LEMMA CountFold ==
  ASSUME NEW s, NEW k, NEW q
  PROVE  AllAdvance(s, k, q) = AllCounting!Fold(k, 0, s, q)
<1>1. AllCounting!Fold(k, 0, s, q)
        = FoldLeft(LAMBDA h, j : AdvanceJob(h, j, k, Told(h, j, k)), s, q)
  BY DEF AllCounting!Fold, AdvanceStep, FoldLeft, MapThenFoldSet, Max,
         AllCounting!Greatest
<1>2. QED
  BY <1>1, Zenon DEF AllAdvance

LEMMA AllAreCounted ==
  ASSUME NEW s, NEW k \in Key, NEW F, NEW q \in Seq(Job), IsInjective(q), AllRight(s, k, ToSet(q), F),
         Ledger(s, k, ToSet(q))
  PROVE  Ledger(AllAdvance(s, k, q), k, {}) /\ AllAdvance(s, k, q).closed = s.closed
<1> DEFINE r == [k |-> k, q |-> q, f |-> F, closed |-> s.closed]
           u == AllAdvance(s, k, q)
<1>1. u = AllCounting!Fold(k, 0, s, q)
  BY CountFold
<1>2. r.k = k /\ r.q = q /\ r.f = F /\ r.closed = s.closed
  OBVIOUS
<1> HIDE DEF r, u
<1>3. ToCount(r, 0, s)
  BY <1>2, RestForms DEF ToCount
<1>4. ASSUME NEW a, NEW n \in 1 .. Len(q), q[n] \in Job, ToCount(r, n - 1, a)
      PROVE  ToCount(r, n, AdvanceStep(k, 0, a, q[n]))
  <2> DEFINE Y == Rest(q, n - 1)
             j == q[n]
             b == AdvanceJob(a, j, k, Told(a, j, k))
  <2>1. AllRight(a, k, Y, F) /\ Ledger(a, k, Y) /\ a.closed = r.closed /\ j \in Job
    BY <1>2, <1>4 DEF ToCount
  <2>2. j \in Y /\ Rest(q, n) = Y \ {j}
    BY RestForms
  <2> HIDE DEF Y, j
  <2>3. AllRight(b, k, Y \ {j}, F)
    BY <2>1, <2>2, OneAdvances
  <2>4. Ledger(b, k, Y \ {j}) /\ b.closed = a.closed
    BY <2>1, <2>2, OneIsCounted
  <2>5. b = AdvanceStep(k, 0, a, q[n])
    BY DEF AdvanceStep, j
  <2> HIDE DEF b
  <2>6. QED
    BY <1>2, <2>1, <2>2, <2>3, <2>4, <2>5 DEF ToCount
<1>5. ToCount(r, Len(q), u)
  BY <1>1, <1>3, <1>4, LeastOf, AllCounting!FoldKeeps
<1>6. Rest(q, Len(q)) = {}
  BY RestForms
<1>7. QED
  BY <1>2, <1>5, <1>6 DEF ToCount, u

\* Nobody is about to be told, whatever the key.
LEMMA NoneIsDue ==
  ASSUME NEW s, NEW k
  PROVE  Ledger(s, k, {}) <=> Ledger(s, 0, {})
<1>1. \A i : Due(i, {}, k) = Due(i, {}, 0)
  BY DEF Due
<1>2. \A x : Owing(s, k, {}, x) = Owing(s, 0, {}, x)
  BY <1>1 DEF Owing
<1>3. QED
  BY <1>1, <1>2 DEF Ledger, Covered

LEMMA SuccessCounted ==
  ASSUME TrackersRight, RefsCounted, NEW k \in Key, CacheFillSuccess(k)
  PROVE  RefsCounted'
<1> DEFINE s == Now
           F == Job \ enqueued
           got == Cache!GotArtifactSuccess(cache, k, TRUE)
           c == got.cache
           q == ToTell(s, k)
           e == EndOf(s, k, c)
           t == AllAdvance(e, k, q)
<1>1. AllRight(s, 0, {}, F) /\ CacheTyped(cache) /\ s.cache = cache /\ s.closed = shutDown
  BY NowRight, NowFields DEF Whole, Sound
<1>2. Ends(s, k, c) /\ got.jobs = q
  BY <1>1, GotSuccessTyped DEF Ends, ToTell
<1>3. Become(t)
  BY <1>2, Zenon DEF CacheFillSuccess, AllAdvance, EndOf
<1>4. k \in tasks /\ shutDown' = shutDown
  BY Zenon DEF CacheFillSuccess
<1>5. Ledger(s, 0, {})
  BY DEF RefsCounted
<1>6. cache.entry[k].st = "getting" /\ CacheWell(cache)
  BY <1>1, <1>4, <1>5, NowFields DEF Ledger, Sane, TasksGet
<1>7. Counted(cache, k, Len(cache.entry[k].jobs), c)
  BY <1>6, GotSuccessWell
<1> HIDE DEF s, F, c
<1>8. Counted(s.cache, k, Len(q), c)
  BY <1>1, <1>6, <1>7 DEF ToTell
<1> HIDE DEF q, e, t
<1>9. q \in Seq(Job) /\ IsInjective(q)
  BY <1>1, ToTellForms DEF q
<1>10. AllRight(e, k, ToSet(q), F)
  BY <1>1, <1>2, AllToBeTold DEF e, q
<1>11. Ledger(e, k, ToSet(q))
  BY <1>1, <1>2, <1>5, <1>6, <1>8, LedgerToTell DEF e, q
<1>12. Ledger(t, k, {}) /\ t.closed = e.closed
  BY <1>9, <1>10, <1>11, AllAreCounted DEF t
<1>13. e.closed = s.closed
  BY <1>1 DEF e, EndOf, AllRight, Whole, Sound, StateFields
<1>14. QED
  BY <1>1, <1>3, <1>4, <1>12, <1>13, NoneIsDue, LedgerBecomes DEF RefsCounted

\* One of the jobs that waited fails.
LEMMA OneFailsCounted ==
  ASSUME NEW s, NEW k, NEW Y, NEW F, AllRight(s, k, Y, F), Ledger(s, 0, {}), NEW j \in Job,
         NEW ord \in KeyOrders
  PROVE  LET t == JobFailure(s, j, ord) IN Ledger(t, 0, {}) /\ t.closed = s.closed
<1> DEFINE t == JobFailure(s, j, ord)
           M == OtherRefs(s, j, {})
<1>1. Whole(s) /\ OnceIn(s, j)
  BY DEF AllRight, JobRight
<1>2. Sane(s) /\ Fit(s, j, {}) /\ M \in [Key -> Nat] /\ Balanced(s, j, {}, M)
  BY LedgerOne
<1> HIDE DEF M
<1>3. Settling(s, t, j, M)
  BY <1>1, <1>2, FailSettles
<1> HIDE DEF t
<1>4. Ledger(t, 0, {})
  BY <1>3, SettlesOne DEF M
<1>5. QED
  BY <1>3, <1>4 DEF Settling, t

ToLose(r, i, t) ==
  AllRight(t, r.k, Rest(r.q, i), r.f) /\ Ledger(t, 0, {}) /\ t.closed = r.closed
AllLosing == INSTANCE FoldTheorems WITH Op <- FailStep, Inv <- ToLose

LEMMA LoseFold ==
  ASSUME NEW s, NEW ord, NEW q
  PROVE  AllAreFailed(s, ord, q) = AllLosing!Fold(ord, 0, s, q)
<1>1. AllLosing!Fold(ord, 0, s, q) = FoldLeft(LAMBDA h, j : JobFailure(h, j, ord), s, q)
  BY DEF AllLosing!Fold, FailStep, FoldLeft, MapThenFoldSet, Max, AllLosing!Greatest
<1>2. QED
  BY <1>1, Zenon DEF AllAreFailed

LEMMA AllFailedCounted ==
  ASSUME NEW s, NEW k, NEW F, NEW q \in Seq(Job), IsInjective(q), AllRight(s, k, ToSet(q), F),
         Ledger(s, 0, {}), NEW ord \in KeyOrders
  PROVE  Ledger(AllAreFailed(s, ord, q), 0, {}) /\ AllAreFailed(s, ord, q).closed = s.closed
<1> DEFINE r == [k |-> k, q |-> q, f |-> F, closed |-> s.closed]
           u == AllAreFailed(s, ord, q)
<1>1. u = AllLosing!Fold(ord, 0, s, q)
  BY LoseFold
<1>2. r.k = k /\ r.q = q /\ r.f = F /\ r.closed = s.closed
  OBVIOUS
<1> HIDE DEF r, u
<1>3. ToLose(r, 0, s)
  BY <1>2, RestForms DEF ToLose
<1>4. ASSUME NEW a, NEW n \in 1 .. Len(q), q[n] \in Job, ToLose(r, n - 1, a)
      PROVE  ToLose(r, n, FailStep(ord, 0, a, q[n]))
  <2> DEFINE Y == Rest(q, n - 1)
             j == q[n]
             b == JobFailure(a, j, ord)
  <2>1. AllRight(a, k, Y, F) /\ Ledger(a, 0, {}) /\ a.closed = r.closed /\ j \in Job
    BY <1>2, <1>4 DEF ToLose
  <2>2. j \in Y /\ Rest(q, n) = Y \ {j}
    BY RestForms
  <2> HIDE DEF Y, j
  <2>3. AllRight(b, k, Y \ {j}, F)
    BY <2>1, <2>2, OneIsFailed
  <2>4. Ledger(b, 0, {}) /\ b.closed = a.closed
    BY <2>1, OneFailsCounted
  <2>5. b = FailStep(ord, 0, a, q[n])
    BY DEF FailStep, j
  <2> HIDE DEF b
  <2>6. QED
    BY <1>2, <2>1, <2>2, <2>3, <2>4, <2>5 DEF ToLose
<1>5. ToLose(r, Len(q), u)
  BY <1>1, <1>3, <1>4, LeastOf, AllLosing!FoldKeeps
<1>6. QED
  BY <1>2, <1>5 DEF ToLose, u

LEMMA FailureCounted ==
  ASSUME TrackersRight, RefsCounted, NEW k \in Key, CacheFillFailure(k)
  PROVE  RefsCounted'
<1> DEFINE s == Now
           F == Job \ enqueued
           got == Cache!GotArtifactFailure(cache, k)
           c == got.cache
           q == ToTell(s, k)
           e == EndOf(s, k, c)
           t(ord) == AllAreFailed(e, ord, q)
<1>1. AllRight(s, 0, {}, F) /\ CacheTyped(cache) /\ s.cache = cache /\ s.closed = shutDown
  BY NowRight, NowFields DEF Whole, Sound
<1>2. Ends(s, k, c) /\ got.jobs = q
  <2>1. CacheTyped(c) /\ c.entry = [cache.entry EXCEPT ![k] = Cache!Absent]
    BY <1>1, GotFailureTyped
  <2>2. got.jobs = q
    BY <1>1 DEF Cache!GotArtifactFailure, ToTell
  <2> HIDE DEF c, s
  <2>3. c.entry[k] = Cache!Absent /\ \A x \in Key \ {k} : c.entry[x] = cache.entry[x]
    BY <1>1, <2>1 DEF CacheTyped
  <2>4. QED
    BY <1>1, <2>1, <2>2, <2>3 DEF Ends, Cache!Absent
<1>3. PICK ord \in KeyOrders : Become(t(ord))
  BY <1>2, Zenon DEF CacheFillFailure, AllAreFailed, EndOf
<1>4. k \in tasks /\ shutDown' = shutDown
  <2>1. k \in tasks \cap MayFail /\ UNCHANGED <<shutDown, enqueued, cancelled>>
    BY Zenon DEF CacheFillFailure
  <2>2. QED
    BY <2>1
<1>5. Ledger(s, 0, {})
  BY DEF RefsCounted
<1>6. cache.entry[k].st = "getting" /\ CacheWell(cache)
  BY <1>1, <1>4, <1>5, NowFields DEF Ledger, Sane, TasksGet
<1>7. Counted(cache, k, 0, c)
  BY <1>6, GotFailureWell
<1> HIDE DEF s, F, c, q, e
<1>8. q \in Seq(Job) /\ IsInjective(q)
  BY <1>1, ToTellForms DEF q
<1>9. AllRight(e, k, ToSet(q), F)
  BY <1>1, <1>2, AllToBeTold DEF e, q
<1>10. Ledger(e, 0, {})
  BY <1>1, <1>2, <1>5, <1>6, <1>7, LedgerToFail DEF e
<1>11. Ledger(t(ord), 0, {}) /\ t(ord).closed = e.closed
  BY <1>8, <1>9, <1>10, AllFailedCounted
<1>12. e.closed = s.closed
  BY <1>1 DEF e, EndOf, AllRight, Whole, Sound, StateFields
<1>13. QED
  BY <1>1, <1>3, <1>4, <1>11, <1>12, LedgerBecomes DEF RefsCounted

LEMMA ManifestReadCounted ==
  ASSUME TrackersRight, RefsCounted, NEW m \in Manifest, NEW ok \in BOOLEAN, ManifestRead(m, ok)
  PROVE  RefsCounted'
<1> DEFINE s == Now
           g == Digests!FillCache(digests, m, ok)
<1>1. /\ Whole(s) /\ digests' = g
      /\ UNCHANGED <<cache, job, shutDown, tasks, timers, status, responses>>
  BY NowRight DEF ManifestRead, dispatcherVars
<1>2. ReadsOnce(digests)
  BY <1>1, NowFields DEF Whole, Sound
<1>3. \A i \in Job : ReadFor(g, i) = ReadFor(digests, i)
  BY <1>2, FilledReads
<1> HIDE DEF g
<1>4. PICK t : t = Now'
  OBVIOUS
<1>5. /\ t.cache = s.cache /\ t.job = s.job /\ t.tasks = s.tasks /\ t.digests = g
      /\ t.timers = s.timers /\ t.closed = s.closed /\ s.digests = digests
  BY <1>1, <1>4 DEF Now
<1> HIDE DEF s
<1>6. \A i \in Job : Keeps(s, t, i)
  BY <1>3, <1>5 DEF Keeps, SameFor, ListedIn, OnceIn
<1>7. Ledger(s, 0, {})
  BY DEF RefsCounted, s
<1>8. TimersOnce(t)
  BY <1>5, <1>7 DEF Ledger, Sane, TimersOnce
<1>9. Ledger(t, 0, {})
  BY <1>5, <1>6, <1>7, <1>8, LedgerKeeps
<1>10. QED
  BY <1>4, <1>9 DEF RefsCounted

-----------------------------------------------------------------------------
\* The end of a read.

\* j has not yet been told that the read of m has ended; a job that was dropped
\* keeps its reference to m until it is.
ReadDone(s, m, j, h) ==
  /\ h.cache = s.cache /\ h.job = s.job /\ h.closed = s.closed /\ Sane(h)
  /\ Leaves(s, h, j) /\ OnceIn(h, j) /\ ListedIn(h, j) = ListedIn(s, j)
  /\ m \in ReadFor(s.digests, j) /\ ReadFor(h.digests, j) = ReadFor(s.digests, j) \ {m}
  /\ s.job[j].st = "awaiting" => Right(h, j, h, {}, {}, {m}, Entries[m])
  /\ s.job[j] = NoJob \/ Runs(j, s.job[j]) \/ s.job[j].st = "awaiting"

LEMMA ReadIsDone ==
  ASSUME NEW s, NEW F, AllRight(s, 0, {}, F), Ledger(s, 0, {}), NEW m \in Manifest, NEW j \in Job,
         NEW message \in s.digests.sent, message = Well(m, j) \/ message = Badly(m, j)
  PROVE  ReadDone(s, m, j, ReadIsOver(s, message))
<1> DEFINE h == ReadIsOver(s, message)
           g == Digests!Received(s.digests, message)
<1>1. Whole(s) /\ JobRight(s, j, {}) /\ ReadsOnce(s.digests)
  BY DEF AllRight, Due, Whole, Sound
<1>2. EndsFor(s.digests, m, j, g)
  BY <1>1, ReceivedReads
<1>3. HasEnded(s, F, m, j, h)
  BY ReadEnds
<1>4. /\ h.cache = s.cache /\ h.job = s.job /\ h.tasks = s.tasks /\ h.digests = g
      /\ h.timers = s.timers /\ h.closed = s.closed
  BY <1>1 DEF ReadIsOver, Whole, Sound, StateFields
<1> HIDE DEF h, g
<1>5. Sane(h)
  BY <1>4 DEF Ledger, Sane, TasksGet, TimersOnce
<1>6. ListedIn(h, j) = ListedIn(s, j)
  BY <1>4 DEF ListedIn
<1>7. s.job[j] = NoJob \/ Runs(j, s.job[j]) \/ s.job[j].st = "awaiting"
  BY <1>1, SettledIsRight DEF Settled
<1>8. QED
  BY <1>2, <1>3, <1>4, <1>5, <1>6, <1>7 DEF ReadDone, HasEnded, EndsFor, h

\* What one job does after the read belongs to the read.
LEMMA SettlesAfterRead ==
  ASSUME NEW s, NEW m, NEW j \in Job, NEW h, ReadDone(s, m, j, h), NEW t, NEW M, Settling(h, t, j, M)
  PROVE  Settling(s, t, j, M)
<1>1. \A i \in Job \ {j} : Keeps(s, h, i) /\ Keeps(h, t, i)
  BY DEF ReadDone, Leaves, Settling
<1>2. \A i \in Job \ {j} : Keeps(s, t, i)
  BY <1>1, KeepsTrans
<1>3. QED
  BY <1>2 DEF Settling, ReadDone

\* No job that still reads a manifest is cancelled or fails before the
\* dispatcher is shut down.
Undisturbed == ~shutDown => \A r \in Digests!Reads(digests) : job[r[2]].st = "awaiting"

\* The job is told of the manifest, or gives back its reference to it.
LEMMA DigestsSettle ==
  ASSUME NEW s, NEW m \in Manifest, NEW j \in Job, NEW h, ReadDone(s, m, j, h), NEW M \in [Key -> Nat],
         Fit(s, j, {}), Balanced(s, j, {}, M), s.closed \/ s.job[j].st = "awaiting",
         \A i \in Job : s.job[i].st = "available" => Runs(i, s.job[i])
  PROVE  Settling(h, AdvanceJob(h, j, Blob(m), GotManifestDigests(h, j, m)), j, M)
<1> DEFINE told == GotManifestDigests(h, j, m)
           k == Blob(m)
<1>1. /\ h.cache = s.cache /\ h.job = s.job /\ h.closed = s.closed /\ Sane(h) /\ Whole(h)
      /\ ListedIn(h, j) = ListedIn(s, j)
      /\ m \in ReadFor(s.digests, j) /\ ReadFor(h.digests, j) = ReadFor(s.digests, j) \ {m}
  BY DEF ReadDone, Leaves
<1>2. k \in Key /\ \A n : Blob(n) = k => n = m
  BY KeyForms, LayersAssumption DEF Blob
<1>3. \A i \in Job \ {j} : h.job[i].st = "available" => Runs(i, h.job[i])
  BY <1>1
<1>4. ASSUME h.job[j].st = "awaiting"
      PROVE  /\ Right(h, j, told, {}, {}, {}, {}) /\ ~h.closed
             /\ Charged(j, told, M, {}, {})
  <2>1. Right(h, j, h, {}, {}, {m}, Entries[m])
    BY <1>1, <1>4 DEF ReadDone
  <2>2. ~h.closed /\ NotYet(j, h.job[j], {})
    BY <1>1, <1>4 DEF Fit
  <2>3. \A x \in Key : Owed(s, j, {}, x) <=> x \in h.job[j].keys
    BY <1>1, <1>4 DEF Owed, Claim, NoJob
  <2>4. \A x \in Key : Numeral(Owed(s, j, {}, x)) = IF x \in h.job[j].keys \cup {} THEN 1 ELSE 0
    BY <2>3 DEF Numeral
  <2>5. Booked(j, h, M, {})
    BY <1>1, <2>2, <2>4 DEF Booked, Balanced, Sane, TasksGet
  <2>6. Charged(j, h, M, {}, {})
    BY <2>2, <2>5 DEF Charged
  <2>7. Charged(j, told, M, {}, {})
    BY <2>1, <2>6, ChargedManifestDigests
  <2>8. QED
    BY <2>1, <2>2, <2>7, RightManifestDigests
<1>5. ASSUME h.job[j].st # "awaiting"
      PROVE  Fit(h, j, {}) /\ Balanced(h, j, {k}, M) /\ ~Claim(h, j, k)
  <2>1. s.closed /\ s.job[j] = NoJob
    <3>1. s.job[j] = NoJob \/ Runs(j, s.job[j])
      BY <1>1, <1>5 DEF ReadDone
    <3>2. Runs(j, s.job[j]) => s.job[j].st \in {"available", "executing"}
      BY RunsForms
    <3>3. QED
      BY <1>1, <1>5, <3>1, <3>2 DEF Fit
  <2>2. \A x : Claim(s, j, x) <=> x = k \/ Claim(h, j, x)
    BY <1>1, <2>1 DEF Claim
  <2>3. ~Claim(h, j, k)
    BY <1>1, <1>2, <2>1 DEF Claim
  <2>4. Fit(h, j, {})
    BY <1>1, <2>1, <2>2 DEF Fit, NoJob
  <2>5. \A x : Owed(h, j, {k}, x) <=> Owed(s, j, {}, x)
    BY <2>2 DEF Owed
  <2>6. \A x : Numeral(Owed(h, j, {k}, x)) = Numeral(Owed(s, j, {}, x))
    BY <2>5 DEF Numeral
  <2>7. Balanced(h, j, {k}, M)
    BY <1>1, <2>6 DEF Balanced
  <2>8. QED
    BY <2>3, <2>4, <2>7
<1> HIDE DEF told, k
<1>6. Settling(h, AdvanceJob(h, j, k, told), j, M)
  BY <1>1, <1>2, <1>3, <1>4, <1>5, AdvanceSettles
<1>7. QED
  BY <1>6 DEF told, k

\* The job fails, if it still awaits its layers.
LEMMA ReadFailureSettles ==
  ASSUME NEW s, NEW m \in Manifest, NEW j \in Job, NEW h, ReadDone(s, m, j, h), NEW M \in [Key -> Nat],
         Fit(s, j, {}), Balanced(s, j, {}, M), NEW ord \in KeyOrders
  PROVE  Settling(h, JobFailure(h, j, ord), j, M)
<1>1. /\ h.cache = s.cache /\ h.job = s.job /\ h.closed = s.closed /\ Sane(h) /\ Whole(h)
      /\ ListedIn(h, j) = ListedIn(s, j) /\ OnceIn(h, j)
      /\ ReadFor(h.digests, j) = ReadFor(s.digests, j) \ {m}
  BY DEF ReadDone, Leaves
<1>2. \A x : Claim(h, j, x) => Claim(s, j, x)
  BY <1>1 DEF Claim
<1>3. ~s.closed => \A x : Claim(h, j, x) <=> Claim(s, j, x)
  BY <1>1 DEF Claim
<1>4. Fit(h, j, {})
  BY <1>1, <1>2 DEF Fit
<1>5. ASSUME NEW k \in Key
      PROVE  LET n == M[k] + Numeral(Owed(h, j, {}, k)) IN
             /\ Cache!Refs(h.cache, k) >= n
             /\ ~h.closed => Cache!Refs(h.cache, k) = n
  <2> DEFINE a == Numeral(Owed(s, j, {}, k))
             b == Numeral(Owed(h, j, {}, k))
             r == Cache!Refs(s.cache, k)
  <2>1. a \in {0, 1} /\ b \in {0, 1} /\ (b = 1 => a = 1) /\ (~s.closed => b = a)
    BY <1>2, <1>3 DEF Owed, Numeral
  <2>2. r \in Nat /\ M[k] \in Nat
    BY <1>1, RefsForms DEF Sane, CacheWell
  <2>3. r >= M[k] + a /\ (~s.closed => r = M[k] + a)
    BY DEF Balanced
  <2> HIDE DEF a, b, r
  <2>4. r >= M[k] + b /\ (~s.closed => r = M[k] + b)
    BY <2>1, <2>2, <2>3
  <2>5. QED
    BY <1>1, <2>4 DEF b, r
<1>6. Balanced(h, j, {}, M)
  BY <1>5 DEF Balanced
<1>7. QED
  BY <1>1, <1>4, <1>6, FailSettles

LEMMA ReadDigestsCounted ==
  ASSUME TrackersRight, Undisturbed, RefsCounted, NEW m \in Manifest, NEW j \in Job,
         ReadManifestDigests(m, j)
  PROVE  RefsCounted'
<1> DEFINE s == Now
           F == Job \ enqueued
           message == Well(m, j)
           h == ReadIsOver(s, message)
           k == Blob(m)
           told == GotManifestDigests(h, j, m)
           t == AdvanceJob(h, j, k, told)
           M == OtherRefs(s, j, {})
<1>1. /\ AllRight(s, 0, {}, F) /\ message \in s.digests.sent /\ s.closed = shutDown
      /\ s.digests = digests /\ s.job = job /\ Whole(s)
      /\ \A i \in Job : s.job[i].st = "available" => Runs(i, s.job[i])
  BY NowRight, NowFields, Zenon DEF ReadManifestDigests, Well
<1>2. Become(t) /\ shutDown' = shutDown
  BY Zenon DEF ReadManifestDigests, ReadIsOver, Well
<1>3. /\ Fit(s, j, {}) /\ M \in [Key -> Nat] /\ Balanced(s, j, {}, M) /\ Ledger(s, 0, {})
  BY LedgerOne DEF RefsCounted
<1>a. message = Well(m, j) \/ message = Badly(m, j)
  OBVIOUS
<1> HIDE DEF s, F, message, h, M
<1>4. ReadDone(s, m, j, h)
  BY <1>a, <1>1, <1>3, ReadIsDone DEF h
<1>5. s.closed \/ s.job[j].st = "awaiting"
  <2>1. ReadsOnce(digests) /\ m \in ReadFor(digests, j)
    BY <1>1, <1>4 DEF Whole, Sound, ReadDone
  <2>2. <<m, j>> \in Digests!Reads(digests)
    BY <2>1, ReadsForJob
  <2>3. QED
    BY <1>1, <2>2 DEF Undisturbed
<1>6. Settling(h, t, j, M)
  BY <1>1, <1>3, <1>4, <1>5, DigestsSettle
<1> HIDE DEF t
<1>7. Settling(s, t, j, M)
  BY <1>4, <1>6, SettlesAfterRead
<1>8. QED
  BY <1>2, <1>7, CountedStep DEF s, M

LEMMA ReadFailureCounted ==
  ASSUME TrackersRight, RefsCounted, NEW m \in Manifest, NEW j \in Job, ReadManifestFailure(m, j)
  PROVE  RefsCounted'
<1> DEFINE s == Now
           F == Job \ enqueued
           message == Badly(m, j)
           h == ReadIsOver(s, message)
           M == OtherRefs(s, j, {})
<1>1. /\ AllRight(s, 0, {}, F) /\ message \in s.digests.sent
  BY NowRight, NowFields, Zenon DEF ReadManifestFailure, Badly
<1>2. PICK ord \in KeyOrders : Become(JobFailure(h, j, ord))
  BY Zenon DEF ReadManifestFailure, ReadIsOver, Badly
<1>3. shutDown' = shutDown
  BY Zenon DEF ReadManifestFailure
<1>4. /\ Fit(s, j, {}) /\ M \in [Key -> Nat] /\ Balanced(s, j, {}, M) /\ Ledger(s, 0, {})
  BY LedgerOne DEF RefsCounted
<1>a. message = Well(m, j) \/ message = Badly(m, j)
  OBVIOUS
<1> DEFINE t == JobFailure(h, j, ord)
<1> HIDE DEF s, F, message, h, M
<1>5. ReadDone(s, m, j, h)
  BY <1>a, <1>1, <1>4, ReadIsDone DEF h
<1>6. Settling(h, t, j, M)
  BY <1>4, <1>5, ReadFailureSettles
<1> HIDE DEF t
<1>7. Settling(s, t, j, M)
  BY <1>5, <1>6, SettlesAfterRead
<1>8. Become(t)
  BY <1>2 DEF t
<1>9. QED
  BY <1>3, <1>7, <1>8, CountedStep DEF s, M

-----------------------------------------------------------------------------
\* The dispatcher is shut down, starts, and takes any step.

\* A job that still reads a manifest has it: it goes on counting when the job is
\* dropped.
LEMMA ShutDownCounted ==
  ASSUME TrackersRight, Undisturbed, RefsCounted, ShutDown
  PROVE  RefsCounted'
<1> DEFINE s == Now
<1>1. /\ Whole(s) /\ s.job = job /\ s.digests = digests /\ s.closed = shutDown
      /\ \A i \in Job : JobRight(s, i, {})
      /\ ~shutDown /\ shutDown' = TRUE
      /\ UNCHANGED <<cache, tasks, digests, timers>>
      /\ job' = [i \in Job |-> IF job[i].st = "executing"
                               THEN Executing("canceled", job[i].keys) ELSE NoJob]
  BY NowRight, NowFields DEF ShutDown, envVars
<1>2. Ledger(s, 0, {}) /\ Sane(s) /\ \A i \in Job : Fit(s, i, {})
  BY DEF RefsCounted, Ledger, Due
<1>3. PICK t : t = Now'
  OBVIOUS
<1>4. /\ t.cache = s.cache /\ t.tasks = s.tasks /\ t.digests = s.digests /\ t.timers = s.timers
      /\ t.job = job' /\ t.closed = TRUE
  BY <1>1, <1>3 DEF Now
<1> HIDE DEF s
<1>5. ASSUME NEW i \in Job, job[i].st # "executing", NEW n \in ReadFor(s.digests, i)
      PROVE  Blob(n) \in s.job[i].keys /\ job[i].st = "awaiting"
  <2>1. ReadsOnce(digests) /\ n \in Manifest
    BY <1>1 DEF Whole, Sound, ReadFor
  <2>2. <<n, i>> \in Digests!Reads(digests)
    BY <1>1, <1>5, <2>1, ReadsForJob
  <2>3. job[i].st = "awaiting"
    BY <1>1, <2>2 DEF Undisturbed
  <2>4. TrackerRight(i, s.job[i], ListedIn(s, i), ReadFor(s.digests, i), {}, {}, {}, {})
    BY <1>1, <2>3, SettledIsRight
  <2>5. n \in DOMAIN s.job[i].bottom /\ s.job[i].bottom[n].st = "digests"
    BY <1>5, <2>4 DEF TrackerRight, Reads
  <2>6. QED
    BY <2>3, <2>4, <2>5 DEF TrackerRight, Has
<1>6. ASSUME NEW i \in Job
      PROVE  /\ \A x : Claim(t, i, x) => Claim(s, i, x)
             /\ Fit(t, i, {})
  <2>1. ListedIn(t, i) = ListedIn(s, i)
    BY <1>4 DEF ListedIn
  <2>2. CASE job[i].st = "executing"
    <3>1. t.job[i] = Executing("canceled", s.job[i].keys) /\ s.job[i] # NoJob /\ s.job[i].st = "executing"
      BY <1>1, <1>4, <2>2 DEF NoJob
    <3>2. t.job[i] # NoJob /\ t.job[i].keys = s.job[i].keys /\ t.job[i].st = "executing"
      BY <3>1 DEF Executing, NoJob
    <3>3. \A x : Claim(t, i, x) <=> Claim(s, i, x)
      BY <3>1, <3>2 DEF Claim
    <3>4. QED
      BY <1>2, <1>4, <2>1, <3>1, <3>2, <3>3 DEF Fit
  <2>3. CASE job[i].st # "executing"
    <3>1. t.job[i] = NoJob
      BY <1>1, <1>4, <2>3
    <3>2. ASSUME NEW x, Claim(t, i, x)
          PROVE  Claim(s, i, x)
      <4>1. PICK n \in ReadFor(s.digests, i) : x = Blob(n)
        BY <1>4, <3>1, <3>2 DEF Claim
      <4>2. x \in s.job[i].keys /\ s.job[i] # NoJob
        BY <1>1, <1>5, <2>3, <4>1 DEF NoJob
      <4>3. QED
        BY <4>2 DEF Claim
    <3>3. QED
      BY <1>2, <2>1, <3>1, <3>2 DEF Fit, NoJob
  <2>4. QED
    BY <2>2, <2>3
<1>7. Sane(t)
  <2>1. \A i \in Job : t.job[i].st = "executing" => t.job[i].mode = "canceled"
    BY <1>1, <1>4 DEF Executing, NoJob
  <2>2. QED
    BY <1>2, <1>4, <2>1 DEF Sane, TasksGet, TimersOnce
<1>8. ASSUME NEW k \in Key
      PROVE  Covered(t, 0, {}, k)
  <2> DEFINE S == Owing(s, 0, {}, k)
             T == Owing(t, 0, {}, k)
             r == Cache!Refs(s.cache, k)
  <2>1. IsFiniteSet(S) /\ r >= Cardinality(S)
    BY <1>2 DEF Ledger, Covered
  <2>2. T \subseteq S
    BY <1>6 DEF Owing, Owed
  <2>3. r \in Nat
    BY <1>2, RefsForms DEF Sane, CacheWell
  <2> HIDE DEF S, T, r
  <2>4. IsFiniteSet(T) /\ Cardinality(T) <= Cardinality(S)
    BY <2>1, <2>2, FS_Subset
  <2>5. Cardinality(T) \in Nat /\ Cardinality(S) \in Nat
    BY <2>1, <2>4, FS_CardinalityType
  <2>6. r >= Cardinality(T)
    BY <2>1, <2>3, <2>4, <2>5
  <2>7. QED
    BY <1>4, <2>4, <2>6 DEF Covered, T, r
<1>9. Ledger(t, 0, {})
  <2>1. \A i : Due(i, {}, 0) = {}
    BY DEF Due
  <2>2. QED
    BY <1>6, <1>7, <1>8, <2>1 DEF Ledger
<1>10. QED
  BY <1>3, <1>9 DEF RefsCounted

LEMMA CountedInit ==
  ASSUME Init
  PROVE  RefsCounted
<1>1. PICK s : s = Now
  OBVIOUS
<1>2. /\ s.cache = Cache!EmptyCache /\ s.job = [j \in Job |-> NoJob] /\ s.closed = FALSE
      /\ s.tasks = {} /\ s.digests = Digests!EmptyDigestCache /\ s.timers = {}
  BY <1>1 DEF Init, Now
<1>3. /\ CacheTyped(s.cache) /\ ~s.cache.panicked /\ s.cache.heap = <<>>
      /\ \A k \in Key : s.cache.entry[k] = Cache!Absent /\ s.cache.entry[k].st = "absent"
  BY <1>2 DEF CacheTyped, CacheEntry, Cache!EmptyCache, Cache!Absent
<1>4. CacheWell(s.cache)
  BY <1>3 DEF CacheWell, IsInjective, ToSet
<1>5. Sane(s)
  BY <1>2, <1>4 DEF Sane, TasksGet, TimersOnce, NoJob
<1>6. ASSUME NEW i \in Job
      PROVE  Fit(s, i, {}) /\ \A x : ~Claim(s, i, x)
  BY <1>2 DEF Fit, Claim, NoJob
<1>7. ASSUME NEW k \in Key
      PROVE  Covered(s, 0, {}, k)
  <2>1. Owing(s, 0, {}, k) = {}
    BY <1>6 DEF Owing, Owed, Due
  <2>2. Cache!Refs(s.cache, k) \in Nat /\ ~(Cache!Refs(s.cache, k) > 0)
    BY <1>3, RefsForms
  <2>3. IsFiniteSet({}) /\ Cardinality({}) = 0
    BY FS_EmptySet
  <2>4. QED
    BY <2>1, <2>2, <2>3 DEF Covered
<1>8. \A i : Due(i, {}, 0) = {}
  BY DEF Due
<1>9. QED
  BY <1>1, <1>5, <1>6, <1>7, <1>8 DEF RefsCounted, Ledger

LEMMA CountedAlways ==
  ASSUME TrackersRight, Undisturbed, RefsCounted, [WorkerNext]_workerVars
  PROVE  RefsCounted'
<1>1. ASSUME NEW j \in Job, EnqueueJob(j)
      PROVE  RefsCounted'
  BY <1>1, EnqueueCounted
<1>2. ASSUME NEW j \in Job, CancelJob(j)
      PROVE  RefsCounted'
  BY <1>2, CancelCounted
<1>3. ASSUME NEW j \in Job, JobCompleted(j)
      PROVE  RefsCounted'
  BY <1>3, CompletedCounted
<1>4. ASSUME NEW j \in Job, JobTimer(j)
      PROVE  RefsCounted'
  BY <1>4, TimerCounted
<1>5. ASSUME NEW k \in Key, CacheFillSuccess(k)
      PROVE  RefsCounted'
  BY <1>5, SuccessCounted
<1>6. ASSUME NEW k \in Key, CacheFillFailure(k)
      PROVE  RefsCounted'
  BY <1>6, FailureCounted
<1>7. ASSUME NEW m \in Manifest, NEW j \in Job, ReadManifestDigests(m, j)
      PROVE  RefsCounted'
  BY <1>7, ReadDigestsCounted
<1>8. ASSUME NEW m \in Manifest, NEW j \in Job, ReadManifestFailure(m, j)
      PROVE  RefsCounted'
  BY <1>8, ReadFailureCounted
<1>9. ASSUME NEW m \in Manifest, NEW ok \in BOOLEAN, ManifestRead(m, ok)
      PROVE  RefsCounted'
  BY <1>9, ManifestReadCounted
<1>10. CASE ShutDown
  BY <1>10, ShutDownCounted
<1>11. CASE UNCHANGED workerVars
  BY <1>11 DEF workerVars, dispatcherVars, envVars, RefsCounted, Now
<1>12. QED
  BY <1>1, <1>2, <1>3, <1>4, <1>5, <1>6, <1>7, <1>8, <1>9, <1>10, <1>11 DEF WorkerNext

\* What the invariant says of the properties.
LEMMA CountedIsExact ==
  ASSUME RefsCounted
  PROVE  RefsExact /\ NoPanic
<1>1. Ledger(Now, 0, {}) /\ Now.cache = cache /\ Now.job = job /\ Now.closed = shutDown
  BY NowFields DEF RefsCounted
<1>2. NoPanic
  BY <1>1 DEF Ledger, Sane, CacheWell, NoPanic
<1>3. ASSUME ~shutDown, NEW k \in Key
      PROVE  Cache!Refs(cache, k) = Cardinality({j \in Job : k \in Held(j)})
  <2>1. \A i \in Job : Claim(Now, i, k) <=> k \in Held(i)
    BY <1>1, <1>3 DEF Claim, Held
  <2>2. Owing(Now, 0, {}, k) = {j \in Job : k \in Held(j)}
    BY <2>1 DEF Owing, Owed, Due
  <2>3. QED
    BY <1>1, <1>3, <2>2 DEF Ledger, Covered
<1>4. QED
  BY <1>2, <1>3 DEF RefsExact

LEMMA UndisturbedCounts ==
  Spec /\ []Undisturbed => []RefsCounted
<1>1. Init => RefsCounted
  BY CountedInit
<1>2. TrackersRight /\ Undisturbed /\ RefsCounted /\ [Next]_vars => RefsCounted'
  BY CountedAlways, WorkerSteps
<1>3. QED
  BY <1>1, <1>2, TrackersStayRight, PTL DEF Spec

\* While no job that reads a manifest is cancelled or fails, each reference the
\* cache counts is some job's and each job's is counted, until the dispatcher is
\* shut down: nothing is evicted that a job uses, and nothing is kept for ever
\* (dispatcher.rs and cache.rs, get_artifact and decrement_ref_count).
THEOREM RefsStayExact == Spec /\ []Undisturbed => []RefsExact
<1>1. RefsCounted => RefsExact
  BY CountedIsExact
<1>2. QED
  BY <1>1, UndisturbedCounts, PTL

\* Under the same condition no expect, unwrap or assertion of the dispatcher, the
\* trackers and the cache fails, also when what was under way at a shutdown ends
\* after it.
THEOREM NeverPanics == Spec /\ []Undisturbed => []NoPanic
<1>1. RefsCounted => NoPanic
  BY CountedIsExact
<1>2. QED
  BY <1>1, UndisturbedCounts, PTL

-----------------------------------------------------------------------------
\* Constants under which no job is disturbed.

ManifestsOf(j) == ToSet(Layers[j]) \cap Manifest

\* A job with manifests is not cancelled and has no fetch or build that may
\* fail; if one of its reads may, it has only that manifest.
Careful ==
  \A j \in Job : \A m \in ManifestsOf(j) :
    /\ j \notin Cancellable /\ Needed(j) \cap MayFail = {}
    /\ <<m, j>> \in MayFail => ManifestsOf(j) = {m}

\* What the induction needs: a job is told that a read went badly if it may.
Tame ==
  /\ Undisturbed
  /\ \A m \in Manifest, j \in Job : Badly(m, j) \in digests.sent => <<m, j>> \in MayFail

\* A job that awaits its layers reads its manifests, and waits for what it needs.
LEMMA AwaitingReads ==
  ASSUME TrackersRight, NEW j \in Job, job[j].st = "awaiting"
  PROVE  /\ ReadFor(digests, j) \subseteq ManifestsOf(j)
         /\ ListedIn(Now, j) \subseteq Needed(j)
<1> DEFINE x == job[j]
           L == ListedIn(Now, j)
           R == ReadFor(digests, j)
<1>1. TrackerRight(j, x, L, R, {}, {}, {}, {}) /\ ~IsComplete(x, j)
  <2>1. JobRight(Now, j, {}) /\ Now.job = job /\ Now.digests = digests
    BY NowRight, NowFields
  <2>2. x # NoJob /\ ~Runs(j, x)
    <3>1. Runs(j, x) => x.st \in {"available", "executing"}
      BY RunsForms
    <3>2. QED
      BY <3>1 DEF NoJob
  <2>3. QED
    BY <2>1, <2>2 DEF JobRight
<1>2. /\ TrackerTyped(j, x) /\ Listens(j, x, L, {}) /\ Reads(x, R, {}) /\ Depends(x, {}, {})
      /\ DOMAIN x.bottom = ToSet(Layers[j])
  BY <1>1 DEF TrackerRight, TrackerTyped
<1>3. R \subseteq ManifestsOf(j)
  BY <1>2 DEF Reads, ManifestsOf, ReadFor
<1>4. ASSUME NEW k \in L
      PROVE  k \in Needed(j)
  <2>1. k \in Key /\ Wants(j, x, k)
    BY <1>2 DEF Listens, ListedIn
  <2> HIDE DEF x, L, R
  <2>2. CASE k[1] = "blob" /\ k = Blob(k[2]) /\ k[2] \in Digest
    <3>1. CASE k[2] \in DOMAIN x.bottom
      BY <1>2, <2>2, <3>1, NeededKeys
    <3>2. CASE x.deps[k[2]] # <<>>
      <4>1. PICK m \in ToSet(x.deps[k[2]]) : TRUE
        <5>1. x.deps[k[2]] \in Seq(Manifest)
          BY <1>2, <2>2 DEF TrackerTyped
        <5>2. 1 \in DOMAIN x.deps[k[2]]
          BY <3>2, <5>1
        <5>3. x.deps[k[2]][1] \in ToSet(x.deps[k[2]])
          BY <5>2 DEF ToSet
        <5>4. QED
          BY <5>3
      <4>2. m \in DOMAIN x.bottom /\ k[2] \in Entries[m] /\ m \in Manifest
        <5>1. x.deps[k[2]] \in Seq(Manifest)
          BY <1>2, <2>2 DEF TrackerTyped
        <5>2. m \in Manifest
          BY <5>1 DEF ToSet
        <5>3. QED
          BY <1>2, <2>2, <5>2 DEF Depends
      <4>3. QED
        BY <1>2, <2>2, <4>2, NeededKeys
    <3>3. QED
      BY <2>1, <2>2, <3>1, <3>2 DEF Wants
  <2>3. CASE k[1] = "bottom" /\ k = Bottom(k[2])
    BY <1>2, <2>1, <2>3, NeededKeys DEF Wants
  <2>4. CASE k[1] = "upper"
    <3>1. x.stacked \in 1 .. Len(Layers[j]) /\ x.stacked < Len(Layers[j])
          /\ k = Upper(Prefix(j, x.stacked + 1))
      BY <1>2, <2>1, <2>4 DEF TrackerTyped, Wants
    <3>2. Len(Layers[j]) \in Nat
      BY LayersTyped
    <3>3. x.stacked + 1 \in 2 .. Len(Layers[j])
      BY <3>1, <3>2
    <3>4. QED
      BY <3>1, <3>3, NeededKeys
  <2>5. QED
    BY <2>1, <2>2, <2>3, <2>4, KeyForms
<1>5. QED
  BY <1>3, <1>4

\* A step is tame if the jobs that it ends read nothing.
LEMMA TameStep ==
  ASSUME TrackersRight, TrackersRight', RefsCounted', Tame, NEW J, Ending(J), shutDown' = shutDown,
         \A j \in J \cap Job : job[j].st = "awaiting" => ReadFor(digests', j) = {}
  PROVE  Tame'
<1>1. PICK t : t = Now'
  OBVIOUS
<1>2. /\ AllRight(t, 0, {}, Job \ enqueued') /\ Ledger(t, 0, {})
      /\ t.job = job' /\ t.digests = digests'
  BY <1>1 DEF TrackersRight, RefsCounted, Now
<1>3. ReadsOnce(digests) /\ ReadsOnce(digests')
  BY <1>2, NowRight, NowFields DEF AllRight, Whole, Sound
<1>4. ASSUME NEW i \in Job
      PROVE  /\ job'[i] = NoJob \/ Runs(i, job'[i]) \/ job'[i].st = "awaiting"
             /\ Runs(i, job'[i]) => ReadFor(digests', i) = {}
  <2>1. Due(i, {}, 0) = {}
    BY DEF Due
  <2>2. JobRight(t, i, {}) /\ Fit(t, i, {})
    BY <1>2, <2>1 DEF AllRight, Ledger
  <2>3. Runs(i, job'[i]) => job'[i].st \in {"available", "executing"}
    BY RunsForms
  <2>4. QED
    BY <1>2, <2>2, <2>3 DEF JobRight, Fit, TrackerRight, TrackerTyped
<1>5. /\ \A message \in digests'.sent :
           message \in digests.sent \/ (message[2] \in Living(job') /\ message[3] = TRUE)
      /\ \A m \in Manifest : digests'.pending[m] \subseteq digests.pending[m] \cup Living(job')
      /\ \A j \in Job \ J : job'[j] = NoJob => job[j] = NoJob
  BY DEF Ending, ReadsStart
<1>6. \A m, i : /\ Badly(m, i)[3] = FALSE /\ Badly(m, i)[2] = i /\ Well(m, i)[2] = i
  BY DEF Badly, Well
<1>7. \A m \in Manifest, j \in Job : Badly(m, j) \in digests'.sent => <<m, j>> \in MayFail
  BY <1>5, <1>6 DEF Tame
<1>8. ASSUME ~shutDown, NEW m \in Manifest, NEW i \in Job, m \in ReadFor(digests', i)
      PROVE  job'[i].st = "awaiting"
  <2>1. ASSUME job'[i] = NoJob
        PROVE  FALSE
    <3>1. i \notin Living(job')
      BY <2>1 DEF Living
    <3>2. \/ i \in digests'.pending[m]
          \/ Well(m, i) \in digests'.sent
          \/ Badly(m, i) \in digests'.sent
      BY <1>8 DEF ReadFor, Well, Badly
    <3>3. \/ i \in digests.pending[m]
          \/ Well(m, i) \in digests.sent
          \/ Badly(m, i) \in digests.sent
      BY <1>5, <1>6, <3>1, <3>2
    <3>4. m \in ReadFor(digests, i)
      BY <3>3 DEF ReadFor, Well, Badly
    <3>5. job[i].st = "awaiting"
      <4>1. <<m, i>> \in Digests!Reads(digests)
        BY <1>3, <3>4, ReadsForJob
      <4>2. <<m, i>>[2] = i
        OBVIOUS
      <4>3. QED
        BY <1>8, <4>1, <4>2 DEF Tame, Undisturbed
    <3>6. i \in J
      BY <1>5, <2>1, <3>5 DEF NoJob
    <3>7. QED
      BY <1>8, <3>5, <3>6
  <2>2. QED
    BY <1>4, <1>8, <2>1
<1>9. Undisturbed'
  <2>1. ASSUME ~shutDown', NEW r \in Digests!Reads(digests')
        PROVE  job'[r[2]].st = "awaiting"
    <3>1. PICK m \in Manifest, i \in Job : r = <<m, i>>
      <4>1. \/ \E n \in Manifest : \E j \in digests'.pending[n] : r = <<n, j>>
            \/ \E message \in digests'.sent : r = <<message[1], message[2]>>
        BY ReadsAre
      <4>2. /\ \A n \in Manifest : digests'.pending[n] \subseteq Job
            /\ \A message \in digests'.sent : message[1] \in Manifest /\ message[2] \in Job
        BY <1>3 DEF ReadsOnce
      <4>3. QED
        BY <4>1, <4>2
    <3>2. m \in ReadFor(digests', i)
      BY <1>3, <3>1, ReadsForJob
    <3>3. r[2] = i
      BY <3>1
    <3>4. QED
      BY <1>8, <2>1, <3>2, <3>3
  <2>2. QED
    BY <2>1 DEF Undisturbed
<1>10. QED
  BY <1>7, <1>9 DEF Tame

\* Who waited for what could not be got has no manifests.
LEMMA FailureTame ==
  ASSUME Careful, TrackersRight, TrackersRight', RefsCounted', Control, Tame, NEW k \in Key,
         CacheFillFailure(k)
  PROVE  Tame'
<1> DEFINE got == Cache!GotArtifactFailure(cache, k)
           J == ToSet(got.jobs)
<1>1. Ending(J) /\ digests' = digests /\ shutDown' = shutDown /\ k \in MayFail
  <2>1. k \in tasks \cap MayFail /\ UNCHANGED <<shutDown, enqueued, cancelled>>
    BY Zenon DEF CacheFillFailure
  <2>2. QED
    BY <2>1, FailureStep
<1>2. got.jobs = ToTell(Now, k)
  BY NowFields DEF Cache!GotArtifactFailure, ToTell
<1> HIDE DEF got
<1>3. ASSUME NEW j \in J \cap Job, job[j].st = "awaiting"
      PROVE  ReadFor(digests', j) = {}
  <2>1. k \in ListedIn(Now, j)
    BY <1>2, <1>3, NowRight, ToTellForms
  <2>2. ManifestsOf(j) = {}
    BY <1>1, <1>3, <2>1, AwaitingReads DEF Careful
  <2>3. QED
    BY <1>1, <1>3, <2>2, AwaitingReads
<1> HIDE DEF J
<1>4. QED
  BY <1>1, <1>3, TameStep

\* A job that a read fails has read nothing else.
LEMMA ReadFailureTame ==
  ASSUME Careful, TrackersRight, TrackersRight', RefsCounted, RefsCounted', Control, Tame,
         NEW m \in Manifest, NEW j \in Job, ReadManifestFailure(m, j)
  PROVE  Tame'
<1> DEFINE message == Badly(m, j)
           d == Digests!Received(digests, message)
<1>1. /\ Ending({j}) /\ digests' = d /\ shutDown' = shutDown /\ message \in digests.sent
  <2>1. message \in digests.sent /\ UNCHANGED <<shutDown, enqueued, cancelled>>
    BY Zenon DEF ReadManifestFailure, Badly
  <2>2. QED
    BY <2>1, ReadFailureStep DEF Badly
<1>2. ASSUME job[j].st = "awaiting"
      PROVE  ReadFor(digests', j) = {}
  <2>1. <<m, j>> \in MayFail
    BY <1>1 DEF Tame
  <2>2. ReadsOnce(digests)
    BY NowRight, NowFields DEF Whole, Sound
  <2>3. m \in ReadFor(digests, j)
    BY <1>1 DEF ReadFor, Badly
  <2>4. ReadFor(digests, j) = {m}
    BY <1>2, <2>1, <2>3, AwaitingReads DEF Careful
  <2>5. d.pending = digests.pending /\ d.sent = digests.sent \ {message}
    BY <2>2 DEF ReadsOnce, Digests!Received
  <2> HIDE DEF d, message
  <2>6. \A n \in Manifest : n \in ReadFor(d, j) => n \in ReadFor(digests, j)
    BY <2>5 DEF ReadFor
  <2>7. m \notin ReadFor(d, j)
    BY <1>1, <2>2, <2>5, MessagesDiffer DEF ReadFor, ReadsOnce, message, Well, Badly
  <2>8. ReadFor(d, j) \subseteq Manifest
    BY DEF ReadFor
  <2>9. QED
    BY <1>1, <2>4, <2>6, <2>7, <2>8
<1> HIDE DEF d, message
<1>3. QED
  BY <1>1, <1>2, TameStep

LEMMA CancelTame ==
  ASSUME Careful, TrackersRight, TrackersRight', RefsCounted', Control, Tame, NEW j \in Job,
         CancelJob(j)
  PROVE  Tame'
<1>1. Ending({j}) /\ digests' = digests
  BY CancelStep
<1>2. shutDown' = shutDown /\ j \in Cancellable
  BY DEF CancelJob
<1>3. job[j].st = "awaiting" => ReadFor(digests', j) = {}
  BY <1>1, <1>2, AwaitingReads DEF Careful
<1>4. QED
  BY <1>1, <1>2, <1>3, TameStep

\* A read that ends badly may.
LEMMA ManifestReadTame ==
  ASSUME TrackersRight, Control, Tame, NEW m \in Manifest, NEW ok \in BOOLEAN, ManifestRead(m, ok)
  PROVE  Tame'
<1> DEFINE g == Digests!FillCache(digests, m, ok)
           news == {<<m, j, ok>> : j \in digests.pending[m]}
<1>1. /\ job' = job /\ Digests!Reads(digests') \subseteq Digests!Reads(digests)
      /\ shutDown' = shutDown /\ digests' = g
      /\ ok \/ \A j \in digests.pending[m] : <<m, j>> \in MayFail
  BY ManifestReadStep DEF ManifestRead, dispatcherVars
<1>2. g.sent = digests.sent \cup news
  <2>1. ReadsOnce(digests)
    BY NowRight, NowFields DEF Whole, Sound
  <2>2. QED
    BY <2>1 DEF ReadsOnce, Digests!FillCache
<1> HIDE DEF g
<1>3. Undisturbed'
  BY <1>1 DEF Tame, Undisturbed
<1>4. ASSUME NEW n \in Manifest, NEW i \in Job, Badly(n, i) \in digests'.sent
      PROVE  <<n, i>> \in MayFail
  <2>1. CASE Badly(n, i) \in digests.sent
    BY <2>1 DEF Tame
  <2>2. CASE Badly(n, i) \in news
    <3>1. PICK j \in digests.pending[m] : <<n, i, FALSE>> = <<m, j, ok>>
      BY <2>2 DEF Badly
    <3>2. n = m /\ i = j /\ ok = FALSE
      BY <3>1
    <3>3. QED
      BY <1>1, <3>2
  <2>3. QED
    BY <1>1, <1>2, <1>4, <2>1, <2>2
<1>5. QED
  BY <1>3, <1>4 DEF Tame

LEMMA TameAlways ==
  ASSUME Careful, TrackersRight, TrackersRight', RefsCounted, Control, Tame, [WorkerNext]_workerVars
  PROVE  RefsCounted' /\ Tame'
<1>1. RefsCounted'
  BY CountedAlways DEF Tame
<1>2. ASSUME NEW j \in Job, EnqueueJob(j)
      PROVE  Tame'
  <2>1. Ending({}) /\ shutDown' = shutDown
    BY <1>2, EnqueueStep DEF EnqueueJob
  <2>2. QED
    BY <1>1, <2>1, TameStep
<1>3. ASSUME NEW j \in Job, CancelJob(j)
      PROVE  Tame'
  BY <1>1, <1>3, CancelTame
<1>4. ASSUME NEW j \in Job, JobCompleted(j)
      PROVE  Tame'
  <2>1. Ending({j}) /\ shutDown' = shutDown /\ job[j].st = "executing"
    BY <1>4, CompletedStep DEF JobCompleted
  <2>2. QED
    BY <1>1, <2>1, TameStep
<1>5. ASSUME NEW j \in Job, JobTimer(j)
      PROVE  Tame'
  <2>1. Ending({})
    BY <1>5, TimerStep
  <2>2. shutDown' = shutDown
    BY <1>5, Zenon DEF JobTimer
  <2>3. QED
    BY <1>1, <2>1, <2>2, TameStep
<1>6. ASSUME NEW k \in Key, CacheFillSuccess(k)
      PROVE  Tame'
  <2>1. UNCHANGED <<shutDown, enqueued, cancelled>>
    BY <1>6, Zenon DEF CacheFillSuccess
  <2>2. Ending({}) /\ shutDown' = shutDown
    BY <1>6, <2>1, SuccessStep
  <2>3. QED
    BY <1>1, <2>2, TameStep
<1>7. ASSUME NEW k \in Key, CacheFillFailure(k)
      PROVE  Tame'
  BY <1>1, <1>7, FailureTame
<1>8. ASSUME NEW m \in Manifest, NEW j \in Job, ReadManifestDigests(m, j)
      PROVE  Tame'
  <2>1. Ending({}) /\ shutDown' = shutDown
    BY <1>8, ReadDigestsStep DEF ReadManifestDigests
  <2>2. QED
    BY <1>1, <2>1, TameStep
<1>9. ASSUME NEW m \in Manifest, NEW j \in Job, ReadManifestFailure(m, j)
      PROVE  Tame'
  BY <1>1, <1>9, ReadFailureTame
<1>10. ASSUME NEW m \in Manifest, NEW ok \in BOOLEAN, ManifestRead(m, ok)
       PROVE  Tame'
  BY <1>10, ManifestReadTame
<1>11. CASE ShutDown
  BY <1>1, <1>11 DEF ShutDown, envVars, Tame, Undisturbed
<1>12. CASE UNCHANGED workerVars
  BY <1>1, <1>12 DEF workerVars, dispatcherVars, envVars, Tame, Undisturbed
<1>13. QED
  BY <1>1, <1>2, <1>3, <1>4, <1>5, <1>6, <1>7, <1>8, <1>9, <1>10, <1>11, <1>12 DEF WorkerNext

LEMMA TameInit ==
  ASSUME Init
  PROVE  Tame
<1>1. digests.sent = {} /\ \A m \in Manifest : digests.pending[m] = {}
  BY DEF Init, Digests!EmptyDigestCache
<1>2. Digests!Reads(digests) = {}
  BY <1>1, ReadsAre
<1>3. QED
  BY <1>1, <1>2 DEF Tame, Undisturbed

\* Careful constants disturb no job, and so meet the condition of the theorems
\* above: no reference is lost or kept, and nothing panics, unless a job with
\* manifests can be cancelled, or something else of it fail, while they are read
\* (receive_cancel_job, job_failure).
THEOREM CarefulIsUndisturbed ==
  ASSUME Careful
  PROVE  Spec => []Undisturbed
<1>1. Init => RefsCounted /\ Tame
  BY CountedInit, TameInit
<1>2. TrackersRight /\ TrackersRight' /\ Control /\ RefsCounted /\ Tame /\ [Next]_vars
        => RefsCounted' /\ Tame'
  BY TameAlways, WorkerSteps
<1>3. Tame => Undisturbed
  BY DEF Tame
<1>4. QED
  BY <1>1, <1>2, <1>3, TrackersStayRight, DispatcherControl, PTL DEF Spec

\* With careful constants the counts stay exact and nothing panics, whatever else
\* happens and in whatever order (the dispatcher, its trackers and its cache).
THEOREM CarefulStaysExact ==
  ASSUME Careful
  PROVE  Spec => [](RefsExact /\ NoPanic)
<1>1. Spec => []Undisturbed
  BY CarefulIsUndisturbed
<1>2. QED
  BY <1>1, RefsStayExact, NeverPanics, PTL
=============================================================================
