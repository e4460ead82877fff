--------------------------- MODULE GathererProofs ---------------------------
(***************************************************************************)
(* Proofs about the artifact gatherer (ArtifactGatherer), for any clients, *)
(* jobs, layers, manifests, sizes and limits.                              *)
(*                                                                         *)
(* A handler is a composition of steps on the record of the gatherer's     *)
(* state, so what is kept is stated of such a record, with what is in the  *)
(* middle of changing as parameters; Right says it of the variables.       *)
(***************************************************************************)
EXTENDS ArtifactGatherer, FiniteSetTheorems, SequenceTheorems, WellFoundedInduction, TLAPS

-----------------------------------------------------------------------------
\* What FoldTheorems needs of the naturals: a set of them has a least element.
LEMMA LeastOf ==
  \A D \in SUBSET Nat : D # {} => \E m \in D : \A k \in D : ~(k < m)
<1> SUFFICES ASSUME NEW D \in SUBSET Nat, D # {}
             PROVE  \E m \in D : \A k \in D : ~(k < m)
  OBVIOUS
<1>1. PICK m \in D : \A k \in D : ~(<<k, m>> \in OpToRel(<, Nat))
  <2>1. IsWellFoundedOn(OpToRel(<, Nat), Nat)
    BY NatLessThanWellFounded
  <2>2. QED
    BY <2>1, WFMin
<1>2. ASSUME NEW k \in D, k < m PROVE FALSE
  <2>1. <<k, m>> \in OpToRel(<, Nat)
    BY <1>2 DEF OpToRel
  <2>2. QED
    BY <1>1, <2>1
<1>3. QED
  BY <1>2

-----------------------------------------------------------------------------
(***************************************************************************)
(* What the handlers keep.                                                 *)
(***************************************************************************)
CacheTyped(c) ==
  /\ DOMAIN c = {"entry", "heap", "bytes", "panicked", "lost", "left", "stopped"}
  /\ c.entry \in [Digest -> Entry]
  /\ c.heap \in Seq(Digest)
  /\ c.bytes \in Int /\ c.lost \in Nat /\ c.panicked \in BOOLEAN

\* The size of some digests, in whatever order they are added up.
SumStep(p, o, a, x) == IF x \in p THEN a + Size[x] ELSE a
SumTo(r, n, a) == a \in Nat /\ (r = {} => a = 0)
Sums == INSTANCE FoldTheorems WITH Op <- SumStep, Inv <- SumTo
SumOf(D) == Sums!Fold(D, 0, 0, SetToSeq(Digest))

\* The bytes that the cache counts and that nothing takes.
Spare(c) == (c.bytes - c.lost) - SumOf(Stored(c))

JobRecord ==
  {NoJob} \cup [st : {"job"}, acquired : SUBSET Digest,
                being : SUBSET (Digest \X BOOLEAN), reading : SUBSET Digest]
ReadRecord ==
  {NoRead} \cup [st : {"read"}, jobs : SUBSET Job, entries : SUBSET Digest]
ReaderRecord ==
  {NoReader} \cup [st : {"requested", "open", "failed"}, next : Nat \ {0}]

Typed(g) ==
  /\ DOMAIN g = {"cache", "job", "reads", "known", "waiting", "inProgress", "asked",
                 "reader", "ready", "failed"}
  /\ CacheTyped(g.cache)
  /\ g.job \in [Job -> JobRecord] /\ g.reads \in [Digest -> ReadRecord]
  /\ g.known \in Seq(Digest) /\ g.waiting \in Seq(Digest) /\ g.inProgress \in Nat
  /\ g.asked \in [Client \X Digest -> Nat] /\ g.reader \in [Digest -> ReaderRecord]
  /\ g.ready \subseteq Job /\ g.failed \subseteq Job

LiveIn(g) == {j \in Job : g.job[j] # NoJob}

\* The live jobs were started, and none waits for what it has, or waits for an
\* artifact both as a manifest and as a file.
LiveRight(g, S) ==
  /\ LiveIn(g) \subseteq S /\ IsFiniteSet(LiveIn(g))
  /\ \A j \in LiveIn(g) : \A b \in g.job[j].being :
       /\ b[1] \notin g.job[j].acquired
       /\ \A x \in g.job[j].being : x[1] = b[1] => x = b

\* j is once in the list of an artifact that is on its way.
Listed(e, j) ==
  /\ e.st = "getting"
  /\ \E i \in DOMAIN e.jobs :
       e.jobs[i] = j /\ \A k \in DOMAIN e.jobs : e.jobs[k] = j => k = i

\* The jobs that wait for d, and the clients that were asked for it, of those
\* that are still there.
ListRight(g, S, U, C, d) ==
  LET e == g.cache.entry[d] IN
  /\ e.getters \subseteq C
  /\ \A c \in e.getters : g.asked[<<c, d>>] + U[<<c, d>>] > 0
  /\ \A i \in DOMAIN e.jobs :
       /\ e.jobs[i] \in S /\ Owner(e.jobs[i]) \in e.getters
       /\ e.jobs[i] \in LiveIn(g) => d \in BeingAcquired(g.job[e.jobs[i]])

\* The jobs of the clients C are listed by the cache for all they wait for, but
\* for the pairs in E, which the handler has still to go through.
WaitsRight(g, S, U, C, E) ==
  /\ \A j \in LiveIn(g) : Owner(j) \in C =>
       \A d \in BeingAcquired(g.job[j]) : <<d, j>> \in E \/ Listed(g.cache.entry[d], j)
  /\ \A d \in Digest : g.cache.entry[d].st = "getting" => ListRight(g, S, U, C, d)

Has(r) == r.acquired \cup BeingAcquired(r)
Manifests(j) == {l[1] : l \in {x \in ToSet(Layers[j]) : x[2]}}

\* The job's manifests are not files of it as well.
Apart(j) ==
  \A d \in Manifests(j) :
    /\ <<d, FALSE>> \notin ToSet(Layers[j])
    /\ \A n \in Manifests(j) : d \notin ToSet(Entries[n])

\* Jobs and reads agree about who reads what; it is manifests that are read.
ReadsRight(g) ==
  /\ \A j \in Job, d \in Digest :
       (j \in LiveIn(g) /\ d \in g.job[j].reading)
         <=> (g.reads[d] # NoRead /\ j \in g.reads[d].jobs)
  /\ \A j \in LiveIn(g) : Apart(j) => g.job[j].reading \subseteq Manifests(j)

ReadersOf(g) == {d \in Digest : g.reader[d] # NoReader}
InReads(g) == {d \in Digest : g.reads[d] # NoRead}

\* What is read has a reader or waits for one, and is not known.
ReadersRight(g) ==
  /\ g.inProgress = Cardinality(ReadersOf(g)) /\ g.inProgress <= MaxReads
  /\ InReads(g) = ReadersOf(g) \cup ToSet(g.waiting)
  /\ ReadersOf(g) \cap ToSet(g.waiting) = {}
  /\ IsInjective(g.waiting)
  /\ InReads(g) \cap ToSet(g.known) = {}

WaitFull(g) == g.waiting # <<>> => g.inProgress = MaxReads

\* A read knows the entries that its reader has sent.
EntriesRight(g) ==
  \A d \in Digest : g.reads[d] # NoRead =>
    /\ g.reader[d].next <= Len(Entries[d]) + 1
    /\ g.reads[d].entries = {Entries[d][i] : i \in 1 .. g.reader[d].next - 1}

\* What a job was told of a manifest's entries.
Seen(g, j, d) ==
  IF d \in g.job[j].reading THEN g.reads[d].entries ELSE ToSet(Entries[d])

\* Such a job has, or waits for, all its layers and what their manifests list
\* as far as they have been read, but for the layers in Y and the manifests in
\* X, which the handler has still to go through.
LayersRight(g, X, Y) ==
  \A j \in LiveIn(g) : Apart(j) =>
    /\ \A l \in ToSet(Layers[j]) : <<j, l[1]>> \in Y \/ l[1] \in Has(g.job[j])
    /\ \A b \in g.job[j].being : b[2] <=> b[1] \in Manifests(j)
    /\ \A d \in Manifests(j) : d \in g.job[j].acquired =>
         <<j, d>> \in X \/ Seen(g, j, d) \subseteq Has(g.job[j])

\* What the scheduler is told, and was told before (A).
TellsRight(g, A, D, C) ==
  /\ \A j \in LiveIn(g) :
       /\ A[j] \in {<<>>, <<"ready">>}
       /\ A[j] = <<"ready">> \/ j \in g.ready => HaveAll(g.job[j])
  /\ \A j \in g.ready \cup g.failed : A[j] = <<>>
  /\ g.ready \subseteq LiveIn(g) /\ g.failed \cap LiveIn(g) = {}
  /\ \A j \in Job : A[j] = <<"ready">> /\ Owner(j) \in C /\ j \notin D => j \in LiveIn(g)

\* The heap has what has no reference, once.
HeapRight(c) ==
  /\ IsInjective(c.heap)
  /\ ToSet(c.heap) = {d \in Digest : c.entry[d] = InHeap}

CacheOk(c) == HeapRight(c) /\ ~c.panicked
CacheGood(c) == CacheOk(c) /\ (c.bytes > Target => c.heap = <<>> \/ c.stopped)

\* There are references for all the claims N.
Covers(c, N) == \A d \in Digest : N[d] > 0 => c.entry[d].st = "inUse" /\ c.entry[d].refs >= N[d]

HeldBy(g, d) == {j \in LiveIn(g) : d \in g.job[j].acquired}
ClaimsIn(g, F) == [d \in Digest |-> Cardinality(HeldBy(g, d)) + F[d]]

HeldRight(g, F) ==
  /\ CacheGood(g.cache) /\ Spare(g.cache) = 0
  /\ Covers(g.cache, ClaimsIn(g, F))

\* An artifact is uploaded once at a time, and its file is there.
UploadsRight ==
  \A d \in Digest, c \in Client : uploaded[<<c, d>>] > 0 =>
    /\ d \in landed /\ uploaded[<<c, d>>] = 1
    /\ \A e \in Client : uploaded[<<e, d>>] > 0 => e = c

\* What is true of g between the steps of a handler.  Of p, the first six are
\* the variables that are not part of g, as they were or as they will be; the
\* others are what the handler has still to go through.
Kept(g, p) ==
  /\ Typed(g) /\ Spare(g.cache) >= 0 /\ g.failed \subseteq p.started
  /\ DOMAIN p = {"started", "uploaded", "clients", "fetching", "announced", "completed",
                 "unlisted", "unread", "unasked"}
  /\ p.fetching \in [Digest -> Nat] /\ p.uploaded \in [Client \X Digest -> Nat]
  /\ LiveRight(g, p.started)
  /\ WaitsRight(g, p.started, p.uploaded, p.clients, p.unlisted)
  /\ ReadsRight(g) /\ ReadersRight(g) /\ EntriesRight(g)
  /\ LayersRight(g, p.unread, p.unasked)
  /\ TellsRight(g, p.announced, p.completed, p.clients)
  /\ ~Overlap => HeldRight(g, p.fetching)

Around ==
  [started |-> started, uploaded |-> uploaded, clients |-> clients,
   fetching |-> fetching, announced |-> announced, completed |-> completed,
   unlisted |-> {}, unread |-> {}, unasked |-> {}]

Right ==
  /\ clients \subseteq Client /\ landed \subseteq Digest
  /\ announced \in [Job -> {<<>>, <<"ready">>, <<"failed">>}]
  /\ completed \subseteq started
  /\ \A j \in Job : announced[j] # <<>> => j \in started
  /\ \A j \in LiveIn(Now) : Owner(j) \in clients
  /\ Kept(Now, Around) /\ WaitFull(Now)
  /\ ~Overlap => UploadsRight
-----------------------------------------------------------------------------
\* Sequences in which nothing comes twice.
LEMMA InSequence ==
  ASSUME NEW S, NEW q \in Seq(S)
  PROVE  /\ \A y : y \in ToSet(q) <=> \E i \in 1 .. Len(q) : q[i] = y
         /\ ToSet(q) \subseteq S
BY DEF ToSet

LEMMA AppendedIn ==
  ASSUME NEW S, NEW q \in Seq(S), NEW x \in S
  PROVE  Append(q, x) \in Seq(S) /\ ToSet(Append(q, x)) \subseteq ToSet(q) \cup {x}
<1> DEFINE p == Append(q, x)
<1>1. /\ p \in Seq(S) /\ DOMAIN p = 1 .. Len(q) + 1 /\ p[Len(q) + 1] = x
      /\ DOMAIN q = 1 .. Len(q) /\ Len(q) \in Nat /\ \A a \in 1 .. Len(q) : p[a] = q[a]
  OBVIOUS
<1> HIDE DEF p
<1>2. \A a \in DOMAIN p : a \in DOMAIN q \/ a = Len(q) + 1
  BY <1>1
<1>3. ToSet(p) \subseteq ToSet(q) \cup {x}
  BY <1>1, <1>2 DEF ToSet
<1>4. QED
  BY <1>1, <1>3 DEF p

LEMMA AppendedOnce ==
  ASSUME NEW S, NEW q \in Seq(S), IsInjective(q), NEW x \in S, x \notin ToSet(q)
  PROVE  /\ Append(q, x) \in Seq(S) /\ IsInjective(Append(q, x))
         /\ ToSet(Append(q, x)) = ToSet(q) \cup {x}
<1> DEFINE p == Append(q, x)
<1>1. /\ p \in Seq(S) /\ Len(p) = Len(q) + 1 /\ p[Len(q) + 1] = x
      /\ \A a \in 1 .. Len(q) : p[a] = q[a]
  OBVIOUS
<1> HIDE DEF p
<1>2. DOMAIN p = 1 .. Len(q) + 1 /\ DOMAIN q = 1 .. Len(q) /\ Len(q) \in Nat
  BY <1>1
<1>3. \A a \in DOMAIN p : a \in 1 .. Len(q) \/ a = Len(q) + 1
  BY <1>2
<1>4. \A a \in 1 .. Len(q) : q[a] # x
  BY InSequence
<1>5. IsInjective(p)
  BY <1>1, <1>2, <1>3, <1>4 DEF IsInjective
<1>6. ToSet(p) = ToSet(q) \cup {x}
  <2>1. \A y : y \in ToSet(p) <=> y \in ToSet(q) \/ y = x
    <3>1. \A y : y \in ToSet(p) <=> \E a \in 1 .. Len(p) : p[a] = y
      BY <1>1, InSequence
    <3>2. \A y : y \in ToSet(q) <=> \E a \in 1 .. Len(q) : q[a] = y
      BY InSequence
    <3>3. QED
      BY <1>1, <1>2, <1>3, <3>1, <3>2
  <2>2. QED
    BY <2>1
<1>7. QED
  BY <1>1, <1>5, <1>6 DEF p

LEMMA TailOnce ==
  ASSUME NEW S, NEW q \in Seq(S), IsInjective(q), q # <<>>
  PROVE  /\ Tail(q) \in Seq(S) /\ IsInjective(Tail(q)) /\ Head(q) \in S
         /\ Head(q) \notin ToSet(Tail(q)) /\ ToSet(q) = ToSet(Tail(q)) \cup {Head(q)}
<1> DEFINE p == Tail(q)
           h == Head(q)
<1>1. /\ p \in Seq(S) /\ Len(p) = Len(q) - 1 /\ h = q[1] /\ h \in S
      /\ \A a \in 1 .. Len(p) : p[a] = q[a + 1]
  OBVIOUS
<1> HIDE DEF p, h
<1>2. /\ DOMAIN p = 1 .. Len(p) /\ DOMAIN q = 1 .. Len(q) /\ Len(q) \in Nat
      /\ \A a \in DOMAIN p : a + 1 \in DOMAIN q
      /\ \A a \in DOMAIN q : a = 1 \/ a - 1 \in DOMAIN p
      /\ 1 \in DOMAIN q
  BY <1>1
<1>3. IsInjective(p)
  <2>1. ASSUME NEW a \in DOMAIN p, NEW b \in DOMAIN p, p[a] = p[b]
        PROVE  a = b
    <3>1. a \in Nat /\ b \in Nat /\ q[a + 1] = q[b + 1]
      BY <1>1, <1>2, <2>1
    <3>2. a + 1 = b + 1
      BY <1>2, <3>1 DEF IsInjective
    <3>3. QED
      BY <3>1, <3>2
  <2>2. QED
    BY <2>1 DEF IsInjective
<1>4. \A y : y \in ToSet(p) <=> \E a \in 1 .. Len(p) : p[a] = y
  BY <1>1, InSequence
<1>5. \A y : y \in ToSet(q) <=> \E a \in 1 .. Len(q) : q[a] = y
  BY InSequence
<1>6. h \notin ToSet(p)
  <2>1. ASSUME NEW a \in 1 .. Len(p), p[a] = h
        PROVE  FALSE
    <3>1. q[a + 1] = q[1] /\ a + 1 \in DOMAIN q /\ a + 1 # 1
      BY <1>1, <1>2, <2>1
    <3>2. QED
      BY <1>2, <3>1 DEF IsInjective
  <2>2. QED
    BY <1>4, <2>1
<1>7. ToSet(q) = ToSet(p) \cup {h}
  <2>1. \A y : y \in ToSet(q) => y \in ToSet(p) \/ y = h
    <3>1. ASSUME NEW a \in 1 .. Len(q), a # 1
          PROVE  q[a] \in ToSet(p)
      <4>1. a - 1 \in 1 .. Len(p) /\ p[a - 1] = q[a]
        BY <1>1, <3>1
      <4>2. QED
        BY <1>4, <4>1
    <3>2. QED
      BY <1>1, <1>5, <3>1
  <2>2. \A y : y \in ToSet(p) \/ y = h => y \in ToSet(q)
    <3>1. \A a \in 1 .. Len(p) : a + 1 \in 1 .. Len(q) /\ p[a] = q[a + 1]
      BY <1>1
    <3>2. 1 \in 1 .. Len(q) /\ h = q[1]
      BY <1>1, <1>2
    <3>3. QED
      BY <1>4, <1>5, <3>1, <3>2
  <2>3. QED
    BY <2>1, <2>2
<1>8. QED
  BY <1>1, <1>3, <1>6, <1>7 DEF p, h

LEMMA CountOnce ==
  ASSUME NEW S, NEW q \in Seq(S), IsInjective(q)
  PROVE  Cardinality(ToSet(q)) = Len(q)
<1>1. q \in Bijection(1 .. Len(q), ToSet(q))
  <2>1. \A y : y \in ToSet(q) <=> \E a \in 1 .. Len(q) : q[a] = y
    BY InSequence
  <2>2. q \in [1 .. Len(q) -> ToSet(q)]
    BY <2>1
  <2>3. DOMAIN q = 1 .. Len(q)
    OBVIOUS
  <2>4. QED
    BY <2>1, <2>2, <2>3 DEF Bijection, Injection, Surjection, IsInjective
<1>2. ExistsBijection(1 .. Len(q), ToSet(q)) /\ Len(q) \in Nat
  BY <1>1 DEF ExistsBijection
<1>3. QED
  BY <1>2, FS_CountingElements

\* A set is gone through in some order.
LEMMA SetInOrder ==
  ASSUME NEW D, IsFiniteSet(D)
  PROVE  /\ SetToSeq(D) \in Seq(D) /\ ToSet(SetToSeq(D)) = D
         /\ IsInjective(SetToSeq(D))
<1> DEFINE n == Cardinality(D)
           Is(f) == f \in [1 .. n -> D] /\ IsInjective(f)
<1>1. n \in Nat /\ ExistsBijection(1 .. n, D)
  BY FS_CardinalityType
<1>2. PICK g : g \in Bijection(1 .. n, D)
  BY <1>1 DEF ExistsBijection
<1>3. Is(g)
  BY <1>2 DEF Bijection, Injection, IsInjective
<1>4. Is(SetToSeq(D))
  BY <1>3 DEF SetToSeq
<1>5. SetToSeq(D) \in Seq(D)
  BY <1>1, <1>4
<1>6. SetToSeq(D) \in Injection(1 .. n, D)
  BY <1>4 DEF Injection, IsInjective
<1>7. SetToSeq(D) \in Surjection(1 .. n, D)
  <2>1. IsFiniteSet(1 .. n) /\ Cardinality(1 .. n) = n
    BY <1>1, FS_Interval
  <2>2. QED
    BY <1>6, <2>1, FS_Injection
<1>8. DOMAIN SetToSeq(D) = 1 .. n
  BY <1>4
<1>9. QED
  BY <1>4, <1>5, <1>7, <1>8 DEF Surjection, ToSet

LEMMA AnyOrder ==
  ASSUME NEW D, IsFiniteSet(D), NEW q \in SetToSeqs(D)
  PROVE  q \in Seq(D) /\ ToSet(q) = D /\ IsInjective(q)
<1> DEFINE n == Cardinality(D)
<1>1. n \in Nat
  BY FS_CardinalityType
<1>2. q \in [1 .. n -> D] /\ \A i, k \in 1 .. n : i # k => q[i] # q[k]
  BY DEF SetToSeqs
<1>3. q \in Seq(D) /\ DOMAIN q = 1 .. n
  BY <1>1, <1>2
<1>4. IsInjective(q)
  BY <1>2, <1>3 DEF IsInjective
<1>5. q \in Injection(1 .. n, D)
  BY <1>2, <1>4 DEF Injection, IsInjective
<1>6. q \in Surjection(1 .. n, D)
  <2>1. IsFiniteSet(1 .. n) /\ Cardinality(1 .. n) = n
    BY <1>1, FS_Interval
  <2>2. QED
    BY <1>5, <2>1, FS_Injection
<1>7. QED
  BY <1>3, <1>4, <1>6 DEF Surjection, ToSet

\* The code removes from the heap by an index, the model by the element.
LEMMA RemovedOnce ==
  ASSUME NEW S, NEW q \in Seq(S), NEW d
  PROVE  /\ RemoveFirst(q, d) \in Seq(S)
         /\ ToSet(RemoveFirst(q, d)) \subseteq ToSet(q)
         /\ IsInjective(q) => IsInjective(RemoveFirst(q, d))
                              /\ ToSet(RemoveFirst(q, d)) = ToSet(q) \ {d}
<1> DEFINE I == {i \in 1 .. Len(q) : q[i] = d}
<1>1. CASE I # {}
  <2>1. PICK m \in I : \A k \in I : ~(k < m)
    <3>1. I \in SUBSET Nat
      OBVIOUS
    <3>2. QED
      BY <1>1, <3>1, LeastOf
  <2>2. Min(I) \in I
    <3>1. m \in I /\ \A k \in I : m <= k
      BY <2>1
    <3>2. QED
      BY <3>1 DEF Min
  <2>3. RemoveFirst(q, d) = SubSeq(q, 1, Min(I) - 1) \o SubSeq(q, Min(I) + 1, Len(q))
    BY <1>1 DEF RemoveFirst, SelectInSeq, RemoveAt
  <2> DEFINE i == Min(I)
             a == SubSeq(q, 1, i - 1)
             b == SubSeq(q, i + 1, Len(q))
             p == a \o b
  <2>4. i \in 1 .. Len(q) /\ q[i] = d /\ Len(q) \in Nat
    BY <2>2
  <2> HIDE DEF i
  <2>5. a \in Seq(S) /\ Len(a) = i - 1 /\ \A x \in 1 .. i - 1 : a[x] = q[x]
    <3>1. \A x \in 1 .. i - 1 : x \in 1 .. Len(q)
      BY <2>4
    <3>2. QED
      BY <2>4, <3>1, SubSeqProperties
  <2>6. b \in Seq(S) /\ Len(b) = Len(q) - i /\ \A x \in 1 .. Len(q) - i : b[x] = q[x + i]
    <3>1. \A x \in i + 1 .. Len(q) : x \in 1 .. Len(q)
      BY <2>4
    <3>2. /\ b \in Seq(S) /\ Len(b) = Len(q) - i
          /\ \A x \in 1 .. Len(q) - i : b[x] = q[i + 1 + x - 1]
      BY <2>4, <3>1, SubSeqProperties
    <3>3. \A x \in 1 .. Len(q) - i : i + 1 + x - 1 = x + i
      BY <2>4
    <3>4. QED
      BY <3>2, <3>3
  <2> HIDE DEF a, b
  <2>7. /\ p \in Seq(S) /\ Len(p) = Len(q) - 1
        /\ \A x \in 1 .. i - 1 : p[x] = q[x]
        /\ \A x \in i .. Len(q) - 1 : p[x] = q[x + 1]
    <3>1. /\ p \in Seq(S) /\ Len(p) = Len(a) + Len(b)
          /\ \A x \in 1 .. Len(a) + Len(b) :
               p[x] = IF x <= Len(a) THEN a[x] ELSE b[x - Len(a)]
      BY <2>5, <2>6, ConcatProperties
    <3>2. ASSUME NEW x \in 1 .. i - 1
          PROVE  p[x] = q[x]
      <4>1. Len(a) + Len(b) = Len(q) - 1 /\ i \in Nat /\ i <= Len(q)
        BY <2>4, <2>5, <2>6
      <4>3. x \in 1 .. Len(q) - 1 /\ x <= i - 1
        BY <2>4, <4>1
      <4>4. x \in 1 .. Len(a) + Len(b) /\ x <= Len(a)
        BY <2>5, <4>1, <4>3
      <4>2. QED
        BY <2>5, <3>1, <4>4
    <3>3. ASSUME NEW x \in i .. Len(q) - 1
          PROVE  p[x] = q[x + 1]
      <4>1. x \in 1 .. Len(a) + Len(b) /\ ~(x <= Len(a)) /\ x - Len(a) \in 1 .. Len(q) - i
        BY <2>4, <2>5, <2>6
      <4>2. p[x] = q[x - Len(a) + i] /\ x - Len(a) + i = x + 1
        BY <2>4, <2>5, <2>6, <3>1, <4>1
      <4>3. QED
        BY <4>2
    <3>4. QED
      BY <2>4, <2>5, <2>6, <3>1, <3>2, <3>3
  <2> HIDE DEF p
  <2>8. DOMAIN p = 1 .. Len(q) - 1 /\ DOMAIN q = 1 .. Len(q)
    BY <2>7
  <2> DEFINE at(x) == IF x < i THEN x ELSE x + 1
  <2>9. ASSUME NEW x \in DOMAIN p
        PROVE  at(x) \in DOMAIN q /\ p[x] = q[at(x)] /\ at(x) # i
    <3>1. x \in 1 .. Len(q) - 1 /\ x \in Nat
      BY <2>4, <2>8
    <3>2. CASE x < i
      <4>1. x \in 1 .. i - 1 /\ x \in 1 .. Len(q)
        BY <2>4, <3>1, <3>2
      <4>2. at(x) = x /\ x # i
        BY <2>4, <3>1, <3>2
      <4>3. p[x] = q[x] /\ x \in DOMAIN q
        BY <2>7, <2>8, <4>1
      <4>4. QED
        BY <4>2, <4>3
    <3>3. CASE ~(x < i)
      <4>1. x \in i .. Len(q) - 1 /\ x + 1 \in 1 .. Len(q)
        BY <2>4, <3>1, <3>3
      <4>2. QED
        BY <2>4, <2>7, <2>8, <3>3, <4>1
    <3>4. QED
      BY <3>2, <3>3
  <2>10. ASSUME IsInjective(q)
         PROVE  IsInjective(p) /\ ToSet(p) = ToSet(q) \ {d}
    <3>1. ASSUME NEW x \in DOMAIN p, NEW y \in DOMAIN p, p[x] = p[y]
          PROVE  x = y
      <4>1. at(x) = at(y)
        BY <2>9, <2>10, <3>1 DEF IsInjective
      <4>2. QED
        BY <2>4, <2>8, <4>1
    <3>2. ASSUME NEW x \in DOMAIN p
          PROVE  p[x] \in ToSet(q) \ {d}
      <4>1. p[x] # d
        BY <2>4, <2>8, <2>9, <2>10 DEF IsInjective
      <4>2. QED
        BY <2>9, <4>1 DEF ToSet
    <3>3. ASSUME NEW y \in DOMAIN q, q[y] # d
          PROVE  q[y] \in ToSet(p)
      <4>1. CASE y < i
        <5>1. y \in DOMAIN p /\ p[y] = q[y]
          BY <2>4, <2>7, <2>8, <4>1
        <5>2. QED
          BY <5>1 DEF ToSet
      <4>2. CASE ~(y < i)
        <5>1. y - 1 \in DOMAIN p /\ p[y - 1] = q[y]
          BY <2>4, <2>7, <2>8, <3>3, <4>2
        <5>2. QED
          BY <5>1 DEF ToSet
      <4>3. QED
        BY <4>1, <4>2
    <3>4. QED
      BY <3>1, <3>2, <3>3 DEF IsInjective, ToSet
  <2>11. RemoveFirst(q, d) = p
    BY <2>3 DEF p, a, b, i
  <2>12. ToSet(p) \subseteq ToSet(q)
    BY <2>9 DEF ToSet
  <2>13. QED
    BY <2>7, <2>10, <2>11, <2>12
<1>2. CASE I = {}
  <2>1. RemoveFirst(q, d) = q
    BY <1>2 DEF RemoveFirst
  <2>2. d \notin ToSet(q)
    BY <1>2, InSequence
  <2>3. QED
    BY <2>1, <2>2
<1>3. QED
  BY <1>1, <1>2

LEMMA SumTyped ==
  ASSUME NEW D
  PROVE  SumOf(D) \in Nat /\ (D = {} => SumOf(D) = 0)
<1> DEFINE q == SetToSeq(Digest)
<1>1. q \in Seq(Digest)
  BY SetInOrder, GathererAssumption
<1> HIDE DEF q
<1>2. SumTo(D, 0, 0)
  BY DEF SumTo
<1>3. ASSUME NEW a, NEW n \in 1 .. Len(q), q[n] \in Digest, SumTo(D, n - 1, a)
      PROVE  SumTo(D, n, SumStep(D, 0, a, q[n]))
  <2>1. Size[q[n]] \in Nat
    BY <1>3, SizeAssumption
  <2>2. QED
    BY <1>3, <2>1 DEF SumTo, SumStep
<1>4. SumTo(D, Len(q), Sums!Fold(D, 0, 0, q))
  BY <1>1, <1>2, <1>3, LeastOf, Sums!FoldKeeps
<1>5. QED
  BY <1>4 DEF SumTo, SumOf, q

LEMMA SumAdds ==
  ASSUME NEW D, NEW x \in Digest, x \notin D
  PROVE  SumOf(D \cup {x}) = SumOf(D) + Size[x]
<1> DEFINE q == SetToSeq(Digest)
<1>1. q \in Seq(Digest) /\ ToSet(q) = Digest /\ IsInjective(q)
  BY SetInOrder, GathererAssumption
<1>2. SumOf(D) = Sums!Fold(D, 0, 0, q) /\ SumOf(D \cup {x}) = Sums!Fold(D \cup {x}, 0, 0, q)
  BY DEF SumOf
<1> HIDE DEF q
<1>3. PICK k \in 1 .. Len(q) : q[k] = x
  BY <1>1, InSequence
<1>4. PICK f : Sums!StatesOf(f, D, 0, 0, q)
  BY <1>1, LeastOf, Sums!FoldSteps
<1>5. PICK h : Sums!StatesOf(h, D \cup {x}, 0, 0, q)
  BY <1>1, LeastOf, Sums!FoldSteps
<1>6. /\ SumOf(D) = f[Len(q)] /\ f[0] = 0
      /\ \A n \in 1 .. Len(q) : f[n] = SumStep(D, 0, f[n - 1], q[n])
  BY <1>2, <1>4 DEF Sums!StatesOf
<1>7. /\ SumOf(D \cup {x}) = h[Len(q)] /\ h[0] = 0
      /\ \A n \in 1 .. Len(q) : h[n] = SumStep(D \cup {x}, 0, h[n - 1], q[n])
  BY <1>2, <1>5 DEF Sums!StatesOf
<1> DEFINE As(n) == f[n] \in Nat /\ h[n] = f[n] + (IF k <= n THEN Size[x] ELSE 0)
           Bad == {n \in 0 .. Len(q) : ~As(n)}
<1>8. Len(q) \in Nat /\ Size[x] \in Nat /\ k \in Nat
  BY <1>1, <1>3, SizeAssumption
<1>9. As(0)
  BY <1>3, <1>6, <1>7, <1>8
<1>10. ASSUME NEW n \in 1 .. Len(q), As(n - 1)
       PROVE  As(n)
  <2>1. /\ f[n] = SumStep(D, 0, f[n - 1], q[n])
        /\ h[n] = SumStep(D \cup {x}, 0, h[n - 1], q[n])
    BY <1>6, <1>7
  <2>2. q[n] \in Digest /\ Size[q[n]] \in Nat /\ n \in Nat
    BY <1>1, <1>8, SizeAssumption
  <2>3. q[n] = x <=> n = k
    <3>1. n \in DOMAIN q /\ k \in DOMAIN q
      BY <1>1, <1>3
    <3>2. QED
      BY <1>1, <1>3, <3>1 DEF IsInjective
  <2>4. CASE n = k
    <3>1. f[n] = f[n - 1] /\ h[n] = h[n - 1] + Size[x] /\ ~(k <= n - 1) /\ k <= n
      BY <1>8, <2>1, <2>3, <2>4 DEF SumStep
    <3>2. QED
      BY <1>8, <1>10, <3>1
  <2>5. CASE n # k
    <3>1. k <= n - 1 <=> k <= n
      BY <1>8, <2>2, <2>5
    <3>2. q[n] \in D <=> q[n] \in D \cup {x}
      BY <2>3, <2>5
    <3>3. \/ f[n] = f[n - 1] /\ h[n] = h[n - 1]
          \/ f[n] = f[n - 1] + Size[q[n]] /\ h[n] = h[n - 1] + Size[q[n]]
      BY <2>1, <3>2 DEF SumStep
    <3>4. f[n - 1] \in Nat /\ h[n - 1] = f[n - 1] + (IF k <= n THEN Size[x] ELSE 0)
      BY <1>10, <3>1
    <3> DEFINE more == IF k <= n THEN Size[x] ELSE 0
               fl == f[n - 1]
               hl == h[n - 1]
               z == Size[q[n]]
    <3>5. more \in Nat /\ z \in Nat
      BY <1>8, <2>2
    <3>6. fl \in Nat /\ hl = fl + more
      BY <3>4
    <3>7. (f[n] = fl /\ h[n] = hl) \/ (f[n] = fl + z /\ h[n] = hl + z)
      BY <3>3
    <3> HIDE DEF fl, hl, more, z
    <3>8. f[n] \in Nat /\ h[n] = f[n] + more
      BY <3>5, <3>6, <3>7
    <3>9. QED
      BY <3>8 DEF more
  <2>6. QED
    BY <2>4, <2>5
<1>11. Bad = {}
  <2>1. SUFFICES ASSUME Bad # {} PROVE FALSE
    OBVIOUS
  <2>2. Bad \in SUBSET Nat
    BY <1>8
  <2>3. PICK n \in Bad : \A m \in Bad : ~(m < n)
    BY <2>1, <2>2, LeastOf
  <2> HIDE DEF As
  <2>4. n # 0 /\ n \in 0 .. Len(q)
    BY <1>9
  <2>5. n \in 1 .. Len(q) /\ n - 1 \in 0 .. Len(q) /\ n - 1 < n
    BY <1>8, <2>4
  <2>6. As(n - 1)
    BY <2>3, <2>5
  <2>7. QED
    BY <1>10, <2>5, <2>6
<1>12. As(Len(q))
  BY <1>8, <1>11
<1>13. QED
  BY <1>3, <1>6, <1>7, <1>8, <1>12

AddStep(p, o, a, x) == a + Size[x]
AddsTo(r, n, a) == a = SumOf({r[i] : i \in 1 .. n})
Adds == INSTANCE FoldTheorems WITH Op <- AddStep, Inv <- AddsTo

LEMMA AddsUp ==
  ASSUME NEW D \in SUBSET Digest
  PROVE  FoldLeft(LAMBDA n, d : n + Size[d], 0, SetToSeq(D)) = SumOf(D)
<1> DEFINE q == SetToSeq(D)
           first(n) == {q[i] : i \in 1 .. n}
<1>1. q \in Seq(D) /\ ToSet(q) = D /\ IsInjective(q)
  <2>1. IsFiniteSet(D)
    BY GathererAssumption, FS_Subset
  <2>2. QED
    BY <2>1, SetInOrder
<1>2. FoldLeft(LAMBDA n, d : n + Size[d], 0, q) = Adds!Fold(0, 0, 0, q)
  BY DEF Adds!Fold, AddStep, FoldLeft, MapThenFoldSet, Max,
         Adds!Greatest
<1> HIDE DEF q
<1>3. AddsTo(q, 0, 0)
  <2>1. first(0) = {}
    OBVIOUS
  <2>2. QED
    BY <2>1, SumTyped DEF AddsTo
<1>4. ASSUME NEW a, NEW n \in 1 .. Len(q), q[n] \in D, AddsTo(q, n - 1, a)
      PROVE  AddsTo(q, n, AddStep(0, 0, a, q[n]))
  <2>1. n \in Nat /\ DOMAIN q = 1 .. Len(q) /\ Len(q) \in Nat
    BY <1>1
  <2>2. \A i \in 1 .. n : i \in 1 .. n - 1 \/ i = n
    BY <2>1
  <2>3. \A i \in 1 .. n - 1 : i \in 1 .. n /\ i # n /\ i \in DOMAIN q
    BY <2>1
  <2>4. n \in 1 .. n /\ n \in DOMAIN q
    BY <2>1
  <2>5. first(n) = first(n - 1) \cup {q[n]}
    BY <2>2, <2>3, <2>4
  <2>6. q[n] \notin first(n - 1)
    BY <1>1, <2>3, <2>4 DEF IsInjective
  <2> DEFINE F == first(n - 1)
             G == first(n)
  <2>7. a = SumOf(F) /\ G = F \cup {q[n]} /\ q[n] \notin F /\ q[n] \in Digest
    BY <1>4, <2>5, <2>6 DEF AddsTo
  <2> HIDE DEF F
  <2>8. SumOf(G) = a + Size[q[n]]
    <3> HIDE DEF G
    <3>1. QED
      BY <2>7, SumAdds
  <2>9. QED
    BY <2>8 DEF AddsTo, AddStep
<1>5. AddsTo(q, Len(q), Adds!Fold(0, 0, 0, q))
  BY <1>1, <1>3, <1>4, LeastOf, Adds!FoldKeeps
<1>6. first(Len(q)) = D
  BY <1>1, InSequence
<1>7. Adds!Fold(0, 0, 0, q) = SumOf(D)
  BY <1>5, <1>6 DEF AddsTo
<1>8. QED
  BY <1>2, <1>7, Zenon DEF q

-----------------------------------------------------------------------------
(***************************************************************************)
(* What the operations of the cache keep.                                  *)
(***************************************************************************)
LEMMA EntryForms ==
  /\ Absent \in Entry /\ Absent.st = "absent" /\ InHeap \in Entry /\ InHeap.st = "inHeap"
  /\ \A n \in Nat \ {0} : InUse(n) \in Entry /\ InUse(n).st = "inUse" /\ InUse(n).refs = n
  /\ \A q \in Seq(Job), G \in SUBSET Client :
       /\ Getting(q, G).st = "getting" /\ Getting(q, G).jobs = q /\ Getting(q, G).getters = G
       /\ q # <<>> => Getting(q, G) \in Entry
BY DEF Entry, Absent, InHeap, InUse, Getting

LEMMA FormsOfEntry ==
  ASSUME NEW e \in Entry
  PROVE  /\ e.st \in {"absent", "inHeap", "inUse", "getting"}
         /\ e.st = "absent" => e = Absent
         /\ e.st = "inHeap" => e = InHeap
         /\ e.st = "inUse" => e.refs \in Nat \ {0} /\ e = InUse(e.refs)
         /\ e.st = "getting" => /\ e.jobs \in Seq(Job) /\ e.jobs # <<>>
                                /\ e.getters \in SUBSET Client
                                /\ e = Getting(e.jobs, e.getters)
BY DEF Entry, Absent, InHeap, InUse, Getting

\* An entry is changed and with it the heap, the bytes and what is left behind.
SetEntry(c, d, e, hp, n, L) ==
  [c EXCEPT !.entry[d] = e, !.heap = hp, !.bytes = n, !.left = L]

EntrySet(c, d, e, hp, n, b) ==
  /\ CacheTyped(b) /\ b.heap = hp /\ b.bytes = n /\ b.panicked = c.panicked
  /\ b.lost = c.lost /\ b.stopped = c.stopped
  /\ b.entry[d] = e /\ \A x \in Digest \ {d} : b.entry[x] = c.entry[x]
  /\ SumOf(Stored(b)) = SumOf(Stored(c))
       + (IF e.st \in {"inUse", "inHeap"} THEN Size[d] ELSE 0)
       - (IF c.entry[d].st \in {"inUse", "inHeap"} THEN Size[d] ELSE 0)

LEMMA EntryIsSet ==
  ASSUME NEW c, CacheTyped(c), NEW d \in Digest, NEW e \in Entry, NEW hp \in Seq(Digest),
         NEW n \in Int, NEW L, NEW b, b = SetEntry(c, d, e, hp, n, L)
  PROVE  EntrySet(c, d, e, hp, n, b)
<1>1. /\ b.entry = [c.entry EXCEPT ![d] = e] /\ b.heap = hp /\ b.bytes = n
      /\ b.panicked = c.panicked /\ DOMAIN b = DOMAIN c
      /\ b.lost = c.lost /\ b.stopped = c.stopped
  BY DEF CacheTyped, SetEntry
<1>2. CacheTyped(b)
  BY <1>1 DEF CacheTyped
<1>3. b.entry[d] = e /\ \A x \in Digest \ {d} : b.entry[x] = c.entry[x]
  BY <1>1 DEF CacheTyped
<1>4. Stored(c) \in SUBSET Digest /\ Stored(b) \in SUBSET Digest
  BY DEF Stored
<1>5. Stored(b) \ {d} = Stored(c) \ {d}
  BY <1>3 DEF Stored
<1> DEFINE R == Stored(c) \ {d}
           s == SumOf(R)
           z == Size[d]
<1>6. s \in Nat /\ z \in Nat
  BY SumTyped, SizeAssumption
<1>7. SumOf(Stored(c)) = s + (IF c.entry[d].st \in {"inUse", "inHeap"} THEN z ELSE 0)
  <2>1. CASE d \in Stored(c)
    <3>1. Stored(c) = R \cup {d} /\ d \notin R
      BY <2>1
    <3> HIDE DEF R
    <3>2. SumOf(Stored(c)) = s + z
      BY <3>1, SumAdds
    <3>3. QED
      BY <2>1, <3>2 DEF Stored
  <2>2. CASE d \notin Stored(c)
    <3>1. Stored(c) = R
      BY <2>2
    <3>2. c.entry[d].st \notin {"inUse", "inHeap"}
      BY <2>2 DEF Stored
    <3>3. SumOf(Stored(c)) = s
      BY <3>1
    <3>4. QED
      BY <1>6, <3>2, <3>3
  <2>3. QED
    BY <2>1, <2>2
<1>8. SumOf(Stored(b)) = s + (IF e.st \in {"inUse", "inHeap"} THEN z ELSE 0)
  <2>1. R = Stored(b) \ {d}
    BY <1>5
  <2> HIDE DEF R
  <2>2. CASE d \in Stored(b)
    <3>1. Stored(b) = R \cup {d} /\ d \notin R
      BY <2>1, <2>2
    <3>2. SumOf(Stored(b)) = s + z
      BY <3>1, SumAdds
    <3>3. QED
      BY <1>3, <2>2, <3>2 DEF Stored
  <2>3. CASE d \notin Stored(b)
    <3>1. Stored(b) = R
      BY <2>1, <2>3
    <3>2. e.st \notin {"inUse", "inHeap"}
      BY <1>3, <2>3 DEF Stored
    <3>3. SumOf(Stored(b)) = s
      BY <3>1
    <3>4. QED
      BY <1>6, <3>2, <3>3
  <2>4. QED
    BY <2>2, <2>3
<1> HIDE DEF s, z, R
<1>9. SumOf(Stored(b)) = SumOf(Stored(c)) + (IF e.st \in {"inUse", "inHeap"} THEN z ELSE 0)
              - (IF c.entry[d].st \in {"inUse", "inHeap"} THEN z ELSE 0)
  BY <1>6, <1>7, <1>8
<1>10. QED
  BY <1>1, <1>2, <1>3, <1>9 DEF z, EntrySet

\* From r to c nothing has changed but that unused artifacts were removed.
Evicts(r, c) ==
  /\ CacheTyped(c)
  /\ \A d \in Digest :
       c.entry[d] = r.entry[d] \/ (r.entry[d] = InHeap /\ c.entry[d] = Absent)
  /\ Spare(c) = Spare(r)

\* The caches that eviction goes through: it is done or has stopped, or the first
\* n have been removed.
Evicting(r, n, c) ==
  /\ Len(c.heap) >= Len(r.heap) - n
  /\ CacheOk(r) =>
       /\ CacheOk(c)
       /\ \/ c.bytes <= Target \/ c.stopped
          \/ /\ Len(c.heap) = Len(r.heap) - n
             /\ \A i \in 1 .. Len(c.heap) : c.heap[i] = r.heap[i + n]

EvictStep(p, o, c, d) == RemoveOne(c, d)
EvictInv(r, n, c) == Evicts(r, c) /\ Evicting(r, n, c)
Evictions == INSTANCE FoldTheorems WITH Op <- EvictStep, Inv <- EvictInv

LEMMA EvictedFold ==
  ASSUME NEW c
  PROVE  Evicted(c) = Evictions!Fold(0, 0, [c EXCEPT !.stopped = FALSE], c.heap)
BY DEF Evicted, Evictions!Fold, EvictStep, FoldLeft, MapThenFoldSet, Max,
       Evictions!Greatest

EvictsNext(r, n, a) ==
  CacheTyped(r) /\ n \in 1 .. Len(r.heap) /\ EvictInv(r, n - 1, a)

LEMMA OneIsEvicted ==
  ASSUME NEW r, NEW n, NEW a, EvictsNext(r, n, a)
  PROVE  EvictInv(r, n, RemoveOne(a, r.heap[n]))
<1> DEFINE rh == r.heap
           ah == a.heap
           nb == a.bytes
           lr == Len(rh)
           la == Len(ah)
           k == n - 1
           d == rh[n]
           z == Size[d]
           u == [a EXCEPT !.entry[d] = Absent, !.heap = Tail(@), !.bytes = @ - z]
           w == [a EXCEPT !.entry[d] = Absent, !.heap = Tail(@), !.lost = @ + z,
                          !.left = @ \cup {d}, !.stopped = TRUE]
           b == IF d \in stuck THEN w ELSE u
           done == nb <= Target \/ a.stopped
           p == [a EXCEPT !.panicked = TRUE]
<1>1. rh \in Seq(Digest) /\ n \in 1 .. lr /\ lr \in Nat /\ d \in Digest
  BY DEF EvictsNext, CacheTyped
<1>2. CacheTyped(a) /\ ah \in Seq(Digest) /\ la \in Nat /\ nb \in Int
  BY DEF EvictsNext, EvictInv, Evicts, CacheTyped
<1>3. RemoveOne(a, d) = IF done THEN a
                        ELSE IF a.entry[d].st # "inHeap" THEN p ELSE b
  BY DEF RemoveOne, Panicked
<1>4. Evicts(r, a) /\ (CacheOk(r) => CacheOk(a)) /\ la >= lr - k
  BY DEF EvictsNext, EvictInv, Evicting
<1>10. ASSUME ~done, CacheOk(r)
       PROVE  la = lr - k /\ \A i \in 1 .. la : ah[i] = rh[i + k]
  BY <1>10 DEF EvictsNext, EvictInv, Evicting
<1>11. z \in Nat /\ Target \in Nat
  BY <1>1, SizeAssumption
<1>12. n \in Nat /\ k \in Nat /\ n = k + 1
  BY <1>1
<1>15. done => a.bytes <= Target \/ a.stopped
  OBVIOUS
<1> HIDE DEF rh, ah, nb, lr, la, k, d, z, done
<1>13. la >= 1 /\ la - 1 >= lr - n /\ la >= lr - n
  BY <1>1, <1>2, <1>4, <1>12
<1>14. ah # <<>> /\ Head(ah) = ah[1] /\ 1 \in 1 .. la
  BY <1>2, <1>13 DEF la
<1>5. CASE done
  <2>1. Evicting(r, n, a)
    <3>1. Len(a.heap) >= Len(r.heap) - n
      BY <1>13 DEF la, lr, ah, rh
    <3>2. a.bytes <= Target \/ a.stopped
      BY <1>5, <1>15
    <3>3. QED
      BY <1>4, <3>1, <3>2 DEF Evicting
  <2>2. QED
    BY <1>3, <1>4, <1>5, <2>1 DEF EvictInv, d, rh
<1>6. ASSUME ~done, CacheOk(r)
      PROVE  Head(ah) = d
  <2>1. ah[1] = rh[1 + k]
    BY <1>6, <1>10, <1>14
  <2>2. 1 + k = n
    BY <1>12
  <2>3. QED
    BY <1>14, <2>1, <2>2 DEF d
<1>7. CASE ~done /\ a.entry[d].st # "inHeap"
  <2>1. ~CacheOk(r)
    <3>1. SUFFICES ASSUME CacheOk(r) PROVE FALSE
      OBVIOUS
    <3>2. Head(ah) = d /\ ToSet(ah) = {x \in Digest : a.entry[x] = InHeap}
      BY <1>4, <1>6, <1>7, <3>1 DEF CacheOk, HeapRight, ah
    <3>3. d \in ToSet(ah)
      BY <1>2, <1>14, <3>2, InSequence DEF la
    <3>4. QED
      BY <1>7, <3>2, <3>3, EntryForms
  <2>2. /\ p.entry = a.entry /\ p.heap = a.heap /\ p.bytes = a.bytes /\ p.lost = a.lost
        /\ DOMAIN p = DOMAIN a /\ p.panicked = TRUE
    BY <1>2 DEF CacheTyped
  <2> HIDE DEF p
  <2>3. CacheTyped(p) /\ Stored(p) = Stored(a)
    BY <1>2, <2>2 DEF CacheTyped, Stored
  <2>4. Evicts(r, p)
    BY <1>4, <2>2, <2>3 DEF Evicts, Spare
  <2>5. Len(p.heap) >= Len(r.heap) - n
    BY <1>13, <2>2 DEF la, lr, ah, rh
  <2>6. Evicting(r, n, p)
    BY <2>1, <2>5 DEF Evicting
  <2>7. RemoveOne(a, d) = p
    BY <1>3, <1>7
  <2>8. QED
    BY <2>4, <2>6, <2>7 DEF EvictInv, d, rh
<1>8. CASE ~done /\ a.entry[d].st = "inHeap"
  <2> DEFINE tl == Tail(ah)
             m == IF d \in stuck THEN nb ELSE nb - z
             L == IF d \in stuck THEN a.left \cup {d} ELSE a.left
             ls == IF d \in stuck THEN a.lost + z ELSE a.lost
             b0 == SetEntry(a, d, Absent, tl, m, L)
             lt == Len(tl)
  <2>1. tl \in Seq(Digest) /\ lt = la - 1 /\ \A i \in 1 .. lt : tl[i] = ah[i + 1]
    BY <1>2, <1>14 DEF la
  <2>2. m \in Int
    BY <1>2, <1>11
  <2>3. /\ b.entry = b0.entry /\ b.heap = b0.heap /\ b.bytes = b0.bytes
        /\ b.panicked = b0.panicked /\ DOMAIN b = DOMAIN b0 /\ b.lost = ls
    BY <1>2 DEF SetEntry, CacheTyped, ah, nb
  <2>18. a.lost \in Nat /\ ls \in Nat /\ m - ls = (nb - a.lost) - z
    BY <1>2, <1>11 DEF CacheTyped
  <2> HIDE DEF tl, m, lt, b, L, ls
  <2>4. Absent \in Entry /\ Absent.st \notin {"inUse", "inHeap"}
    BY EntryForms
  <2>5. /\ CacheTyped(b) /\ b.heap = tl /\ b.bytes = m /\ b.panicked = a.panicked
        /\ b.entry[d] = Absent /\ \A x \in Digest \ {d} : b.entry[x] = a.entry[x]
        /\ SumOf(Stored(b)) = SumOf(Stored(a))
             + (IF Absent.st \in {"inUse", "inHeap"} THEN Size[d] ELSE 0)
             - (IF a.entry[d].st \in {"inUse", "inHeap"} THEN Size[d] ELSE 0)
    <3> HIDE DEF b0
    <3>1. EntrySet(a, d, Absent, tl, m, b0)
      BY <1>1, <1>2, <2>1, <2>2, <2>4, EntryIsSet DEF b0
    <3>2. CacheTyped(b) /\ Stored(b) = Stored(b0)
      BY <2>3, <2>18, <3>1 DEF EntrySet, CacheTyped, Stored
    <3>3. QED
      BY <2>3, <3>1, <3>2 DEF EntrySet
  <2> HIDE DEF b0
  <2> DEFINE sa == SumOf(Stored(a))
             sb == SumOf(Stored(b))
  <2>6. sa \in Nat
    BY SumTyped
  <2>7. sb = sa + 0 - z
    BY <1>8, <2>4, <2>5 DEF z
  <2> HIDE DEF sa, sb
  <2>8. (m - ls) - sb = (nb - a.lost) - sa
    BY <1>2, <1>11, <2>2, <2>6, <2>7, <2>18
  <2>9. Spare(b) = Spare(a)
    BY <2>3, <2>5, <2>8 DEF Spare, sa, sb, nb
  <2>10. a.entry[d] = InHeap
    <3>1. a.entry[d] \in Entry
      BY <1>1, <1>2 DEF CacheTyped
    <3>2. QED
      BY <1>8, <3>1, FormsOfEntry
  <2>11. Evicts(r, b)
    <3>1. ASSUME NEW x \in Digest
          PROVE  b.entry[x] = r.entry[x] \/ (r.entry[x] = InHeap /\ b.entry[x] = Absent)
      <4>1. a.entry[x] = r.entry[x] \/ (r.entry[x] = InHeap /\ a.entry[x] = Absent)
        BY <1>4 DEF Evicts
      <4>2. QED
        BY <2>5, <2>10, <4>1
    <3>2. Spare(a) = Spare(r)
      BY <1>4 DEF Evicts
    <3>3. QED
      BY <2>5, <2>9, <3>1, <3>2 DEF Evicts
  <2>12. ASSUME CacheOk(r)
         PROVE  CacheOk(b)
    <3>1. /\ IsInjective(ah) /\ ToSet(ah) = {x \in Digest : a.entry[x] = InHeap}
          /\ ~a.panicked /\ Head(ah) = d
      BY <1>4, <1>6, <1>8, <2>12 DEF CacheOk, HeapRight, ah
    <3>2. /\ IsInjective(tl) /\ d \notin ToSet(tl) /\ ToSet(ah) = ToSet(tl) \cup {d}
      BY <1>2, <1>14, <3>1, TailOnce DEF tl
    <3>3. ToSet(tl) = {x \in Digest : b.entry[x] = InHeap}
      <4>1. Absent # InHeap
        BY EntryForms
      <4>2. ASSUME NEW x \in Digest PROVE b.entry[x] = InHeap <=> x \in ToSet(tl)
        BY <2>5, <3>1, <3>2, <4>1
      <4>3. ToSet(tl) \subseteq Digest
        BY <2>1, InSequence
      <4>4. QED
        BY <4>2, <4>3
    <3>4. QED
      BY <2>5, <3>1, <3>2, <3>3 DEF CacheOk, HeapRight
  <2>13. Len(b.heap) >= Len(r.heap) - n
    <3>1. lt >= lr - n
      BY <1>13, <2>1
    <3>2. QED
      BY <2>5, <3>1 DEF lt, lr, rh
  <2>14. ASSUME CacheOk(r)
         PROVE  /\ Len(b.heap) = Len(r.heap) - n
                /\ \A i \in 1 .. Len(b.heap) : b.heap[i] = r.heap[i + n]
    <3>1. la = lr - k /\ \A i \in 1 .. la : ah[i] = rh[i + k]
      BY <1>8, <1>10, <2>14
    <3>2. lt = lr - n
      BY <1>1, <1>12, <2>1, <3>1
    <3>3. ASSUME NEW i \in 1 .. lt
          PROVE  tl[i] = rh[i + n]
      <4>1. i + 1 \in 1 .. la /\ (i + 1) + k = i + n
        BY <1>2, <1>12, <2>1
      <4>2. ah[i + 1] = rh[(i + 1) + k]
        BY <3>1, <4>1
      <4>3. QED
        BY <2>1, <4>1, <4>2
    <3>4. QED
      BY <2>5, <3>2, <3>3 DEF lt, lr, rh
  <2>15. Evicting(r, n, b)
    BY <2>12, <2>13, <2>14 DEF Evicting
  <2>16. RemoveOne(a, d) = b
    BY <1>3, <1>8
  <2>17. QED
    BY <2>11, <2>15, <2>16 DEF EvictInv, d, rh
<1>9. QED
  BY <1>5, <1>7, <1>8

LEMMA EvictedIsRight ==
  ASSUME NEW c, CacheTyped(c)
  PROVE  /\ Evicts(c, Evicted(c))
         /\ CacheOk(c) => /\ CacheOk(Evicted(c))
                          /\ Evicted(c).bytes > Target =>
                               Evicted(c).heap = <<>> \/ Evicted(c).stopped
<1> DEFINE q == c.heap
           start == [c EXCEPT !.stopped = FALSE]
           e == Evictions!Fold(0, 0, start, q)
<1>1. q \in Seq(Digest)
  BY DEF CacheTyped
<1>2. EvictInv(c, 0, start)
  <2>1. /\ start.entry = c.entry /\ start.heap = c.heap /\ start.bytes = c.bytes
        /\ start.lost = c.lost /\ start.panicked = c.panicked /\ DOMAIN start = DOMAIN c
    BY DEF CacheTyped
  <2> HIDE DEF start
  <2>2. CacheTyped(start) /\ Stored(start) = Stored(c)
    BY <2>1 DEF CacheTyped, Stored
  <2>3. Evicts(c, start) /\ (CacheOk(c) => CacheOk(start))
    BY <2>1, <2>2 DEF Evicts, Spare, CacheOk, HeapRight
  <2>4. \A i \in 1 .. Len(c.heap) : i + 0 = i
    OBVIOUS
  <2>5. Evicting(c, 0, start)
    BY <1>1, <2>1, <2>3, <2>4 DEF Evicting
  <2>6. QED
    BY <2>3, <2>5 DEF EvictInv
<1> HIDE DEF start
<1>3. ASSUME NEW a, NEW n \in 1 .. Len(q), q[n] \in Digest, EvictInv(c, n - 1, a)
      PROVE  EvictInv(c, n, EvictStep(0, 0, a, q[n]))
  <2>1. EvictsNext(c, n, a)
    BY <1>3 DEF EvictsNext
  <2>2. QED
    BY <2>1, OneIsEvicted DEF EvictStep
<1>4. EvictInv(c, Len(q), e)
  <2> HIDE DEF q
  <2>1. QED
    BY <1>1, <1>2, <1>3, LeastOf, Evictions!FoldKeeps
<1>5. e = Evicted(c)
  BY EvictedFold DEF start
<1> HIDE DEF e
<1>6. Evicts(c, e) /\ Evicting(c, Len(c.heap), e)
  BY <1>4 DEF EvictInv
<1>7. e.heap \in Seq(Digest) /\ e.bytes \in Int
  BY <1>6 DEF Evicts, CacheTyped
<1>8. ASSUME CacheOk(c)
      PROVE  CacheOk(e) /\ (e.bytes > Target => e.heap = <<>> \/ e.stopped)
  <2>1. CacheOk(e) /\ (e.bytes <= Target \/ e.stopped \/ Len(e.heap) = Len(c.heap) - Len(c.heap))
    BY <1>6, <1>8 DEF Evicting
  <2>2. Len(c.heap) - Len(c.heap) = 0
    BY <1>1
  <2>3. e.bytes > Target => Len(e.heap) = 0 \/ e.stopped
    BY <1>7, <2>1, <2>2, SizeAssumption
  <2>4. QED
    BY <1>7, <2>1, <2>3
<1>9. QED
  BY <1>5, <1>6, <1>8

\* The same artifacts are on their way, for the same jobs.
SameWaits(c, b) ==
  \A d \in Digest :
    c.entry[d].st = "getting" \/ b.entry[d].st = "getting" => b.entry[d] = c.entry[d]

LEMMA SameWaitsTrans ==
  ASSUME NEW c, NEW d, NEW e, SameWaits(c, d), SameWaits(d, e)
  PROVE  SameWaits(c, e)
<1>1. ASSUME NEW k \in Digest, c.entry[k].st = "getting" \/ e.entry[k].st = "getting"
      PROVE  e.entry[k] = c.entry[k]
  <2>1. CASE c.entry[k].st = "getting"
    BY <2>1 DEF SameWaits
  <2>2. CASE e.entry[k].st = "getting"
    BY <2>2 DEF SameWaits
  <2>3. QED
    BY <1>1, <2>1, <2>2
<1>2. QED
  BY <1>1 DEF SameWaits

LEMMA EvictedWaits ==
  ASSUME NEW c, NEW b, Evicts(c, b)
  PROVE  /\ SameWaits(c, b)
         /\ \A d \in Digest : c.entry[d].st = "inUse" => b.entry[d] = c.entry[d]
         /\ \A N : Covers(c, N) => Covers(b, N)
<1>1. \A d \in Digest : c.entry[d].st \in {"getting", "inUse"} => b.entry[d] = c.entry[d]
  BY EntryForms DEF Evicts
<1>2. \A d \in Digest : b.entry[d].st = "getting" => b.entry[d] = c.entry[d]
  BY EntryForms DEF Evicts
<1>3. QED
  BY <1>1, <1>2 DEF SameWaits, Covers

\* One reference less is claimed.
Less(N, d) == [N EXCEPT ![d] = @ - 1]

\* One reference was given back.
GivenBack(c, d, b) ==
  /\ CacheTyped(b) /\ Spare(b) = Spare(c) /\ SameWaits(c, b)
  /\ \A N \in [Digest -> Nat] :
       CacheGood(c) /\ Covers(c, N) /\ N[d] > 0 => CacheGood(b) /\ Covers(b, Less(N, d))

LEMMA DecrementedIsRight ==
  ASSUME NEW c, CacheTyped(c), NEW d \in Digest
  PROVE  GivenBack(c, d, Decremented(c, d))
<1> DEFINE e == c.entry[d]
           hp == c.heap
           n == c.bytes
<1>1. e \in Entry /\ hp \in Seq(Digest) /\ n \in Int /\ Stored(c) \in SUBSET Digest
  BY DEF CacheTyped, Stored
<1>2. CASE e.st # "inUse"
  <2> DEFINE p == [c EXCEPT !.panicked = TRUE]
  <2>1. /\ p.entry = c.entry /\ p.heap = c.heap /\ p.bytes = c.bytes /\ p.lost = c.lost
        /\ DOMAIN p = DOMAIN c /\ p.panicked = TRUE
    BY DEF CacheTyped
  <2>2. Decremented(c, d) = p
    BY <1>2 DEF Decremented, Panicked
  <2> HIDE DEF p
  <2>3. CacheTyped(p) /\ Spare(p) = Spare(c) /\ SameWaits(c, p)
    BY <2>1 DEF CacheTyped, Spare, Stored, SameWaits
  <2>4. \A N : ~(Covers(c, N) /\ N[d] > 0)
    BY <1>2 DEF Covers
  <2>5. QED
    BY <2>2, <2>3, <2>4 DEF GivenBack
<1>3. CASE e.st = "inUse" /\ e.refs > 1
  <2> DEFINE f == InUse(e.refs - 1)
             b == [c EXCEPT !.entry[d] = f]
  <2>1. e.refs \in Nat /\ e.refs - 1 \in Nat \ {0}
    BY <1>1, <1>3, FormsOfEntry
  <2>2. f \in Entry /\ f.st = "inUse" /\ f.refs = e.refs - 1
    BY <2>1, EntryForms
  <2>3. Decremented(c, d) = b
    BY <1>3 DEF Decremented
  <2>4. b = SetEntry(c, d, f, hp, n, c.left)
    BY DEF SetEntry, CacheTyped
  <2> HIDE DEF b, f
  <2>5. EntrySet(c, d, f, hp, n, b)
    BY <1>1, <2>2, <2>4, EntryIsSet
  <2>6. /\ CacheTyped(b) /\ b.heap = hp /\ b.bytes = n /\ b.panicked = c.panicked
        /\ b.lost = c.lost /\ b.stopped = c.stopped
        /\ b.entry[d] = f /\ \A x \in Digest \ {d} : b.entry[x] = c.entry[x]
    BY <2>5 DEF EntrySet
  <2>7. Stored(b) = Stored(c)
    BY <1>3, <2>2, <2>6 DEF Stored
  <2>8. SameWaits(c, b)
    BY <1>3, <2>2, <2>6 DEF SameWaits
  <2>9. {x \in Digest : b.entry[x] = InHeap} = {x \in Digest : c.entry[x] = InHeap}
    BY <1>3, <2>2, <2>6, EntryForms
  <2>10. CacheGood(c) => CacheGood(b)
    BY <2>6, <2>9 DEF CacheGood, CacheOk, HeapRight
  <2>11. ASSUME NEW N \in [Digest -> Nat], Covers(c, N), N[d] > 0
         PROVE  Covers(b, Less(N, d))
    <3>1. ASSUME NEW x \in Digest, Less(N, d)[x] > 0
          PROVE  b.entry[x].st = "inUse" /\ b.entry[x].refs >= Less(N, d)[x]
      <4>1. CASE x = d
        <5>1. e.refs >= N[d] /\ N[d] \in Nat /\ Less(N, d)[d] = N[d] - 1
          BY <2>11 DEF Covers, Less
        <5>2. QED
          BY <2>1, <2>2, <2>6, <4>1, <5>1
      <4>2. CASE x # d
        <5>1. Less(N, d)[x] = N[x]
          BY <4>2 DEF Less
        <5>2. QED
          BY <2>6, <2>11, <3>1, <4>2, <5>1 DEF Covers
      <4>3. QED
        BY <4>1, <4>2
    <3>2. QED
      BY <3>1 DEF Covers
  <2>12. QED
    BY <2>3, <2>6, <2>7, <2>8, <2>10, <2>11 DEF GivenBack, Spare
<1>4. CASE e.st = "inUse" /\ ~(e.refs > 1)
  <2> DEFINE h2 == Append(hp, d)
             b == [c EXCEPT !.entry[d] = InHeap, !.heap = Append(@, d)]
  <2>1. Decremented(c, d) = Evicted(b)
    BY <1>4 DEF Decremented
  <2>2. b = SetEntry(c, d, InHeap, h2, n, c.left)
    BY DEF SetEntry, CacheTyped
  <2>3. h2 \in Seq(Digest) /\ InHeap \in Entry /\ InHeap.st = "inHeap"
    BY <1>1, EntryForms
  <2> HIDE DEF b, h2
  <2>4. EntrySet(c, d, InHeap, h2, n, b)
    BY <1>1, <2>2, <2>3, EntryIsSet
  <2>5. /\ CacheTyped(b) /\ b.heap = h2 /\ b.bytes = n /\ b.panicked = c.panicked
        /\ b.lost = c.lost
        /\ b.entry[d] = InHeap /\ \A x \in Digest \ {d} : b.entry[x] = c.entry[x]
    BY <2>4 DEF EntrySet
  <2>6. Stored(b) = Stored(c)
    BY <1>4, <2>3, <2>5 DEF Stored
  <2>7. SameWaits(c, b)
    BY <1>4, <2>3, <2>5 DEF SameWaits
  <2>8. CacheOk(c) => CacheOk(b)
    <3>1. SUFFICES ASSUME CacheOk(c) PROVE CacheOk(b)
      OBVIOUS
    <3>2. IsInjective(hp) /\ ToSet(hp) = {x \in Digest : c.entry[x] = InHeap} /\ ~c.panicked
      BY <3>1 DEF CacheOk, HeapRight
    <3>3. d \notin ToSet(hp)
      BY <1>4, <3>2, EntryForms
    <3>4. IsInjective(h2) /\ ToSet(h2) = ToSet(hp) \cup {d}
      <4> HIDE DEF hp
      <4>1. QED
        BY <1>1, <3>2, <3>3, AppendedOnce DEF h2
    <3>5. ToSet(h2) = {x \in Digest : b.entry[x] = InHeap}
      BY <2>5, <3>2, <3>4
    <3>6. QED
      BY <2>5, <3>2, <3>4, <3>5 DEF CacheOk, HeapRight
  <2> DEFINE a == Evicted(b)
  <2>9. /\ Evicts(b, a)
        /\ CacheOk(b) => CacheOk(a) /\ (a.bytes > Target => a.heap = <<>> \/ a.stopped)
    BY <2>5, EvictedIsRight
  <2> HIDE DEF a
  <2>10. CacheTyped(a) /\ Spare(a) = Spare(c)
    BY <2>5, <2>6, <2>9 DEF Evicts, Spare
  <2>11. SameWaits(b, a) /\ \A N : Covers(b, N) => Covers(a, N)
    BY <2>9, EvictedWaits
  <2>12. SameWaits(c, a)
    BY <2>7, <2>11, SameWaitsTrans
  <2>13. CacheGood(c) => CacheGood(a)
    BY <2>8, <2>9 DEF CacheGood
  <2>14. ASSUME NEW N \in [Digest -> Nat], Covers(c, N), N[d] > 0
         PROVE  Covers(a, Less(N, d))
    <3>1. ASSUME NEW x \in Digest, Less(N, d)[x] > 0
          PROVE  b.entry[x].st = "inUse" /\ b.entry[x].refs >= Less(N, d)[x]
      <4>1. CASE x = d
        <5>1. e.refs >= N[d] /\ N[d] \in Nat /\ Less(N, d)[d] = N[d] - 1
          BY <2>14 DEF Covers, Less
        <5>2. e.refs \in Nat
          BY <1>1, <1>4, FormsOfEntry
        <5>3. FALSE
          BY <1>4, <3>1, <4>1, <5>1, <5>2
        <5>4. QED
          BY <5>3
      <4>2. CASE x # d
        <5>1. Less(N, d)[x] = N[x]
          BY <4>2 DEF Less
        <5>2. QED
          BY <2>5, <2>14, <3>1, <4>2, <5>1 DEF Covers
      <4>3. QED
        BY <4>1, <4>2
    <3>2. Covers(b, Less(N, d))
      BY <3>1 DEF Covers
    <3>3. QED
      BY <2>11, <3>2
  <2>15. QED
    BY <2>1, <2>10, <2>12, <2>13, <2>14 DEF GivenBack, a
<1>5. QED
  BY <1>2, <1>3, <1>4

\* Each of the references to D is claimed once less.
Without(N, D) == [d \in Digest |-> IF d \in D THEN N[d] - 1 ELSE N[d]]

\* One reference to each of D was given back.
Released(c, D, b) ==
  /\ CacheTyped(b) /\ Spare(b) = Spare(c) /\ SameWaits(c, b)
  /\ \A N \in [Digest -> Nat] :
       CacheGood(c) /\ Covers(c, N) /\ (\A d \in D : N[d] > 0)
         => CacheGood(b) /\ Covers(b, Without(N, D))

ReleaseStep(p, o, b, d) == IF d \in p THEN Decremented(b, d) ELSE b
ReleaseInv(r, n, b) == Released(r.cache, {d \in r.set : \E i \in 1 .. n : r.order[i] = d}, b)
Releases == INSTANCE FoldTheorems WITH Op <- ReleaseStep, Inv <- ReleaseInv

LEMMA ReleasedFold ==
  ASSUME NEW c, NEW D, NEW ord
  PROVE  Release(c, D, ord) = Releases!Fold(D, 0, c, ord)
BY DEF Release, Releases!Fold, ReleaseStep, FoldLeft, MapThenFoldSet, Max,
       Releases!Greatest

LEMMA OneIsReleased ==
  ASSUME NEW c, NEW D, NEW x \in Digest, x \notin D, NEW a, Released(c, D, a)
  PROVE  Released(c, D \cup {x}, Decremented(a, x))
<1> DEFINE b == Decremented(a, x)
           E == D \cup {x}
<1>1. CacheTyped(a) /\ Spare(a) = Spare(c) /\ SameWaits(c, a)
  BY DEF Released
<1>2. GivenBack(a, x, b)
  BY <1>1, DecrementedIsRight
<1> HIDE DEF b
<1>3. CacheTyped(b) /\ Spare(b) = Spare(c) /\ SameWaits(c, b)
  BY <1>1, <1>2, SameWaitsTrans DEF GivenBack
<1>4. ASSUME NEW N \in [Digest -> Nat], CacheGood(c), Covers(c, N), \A d \in E : N[d] > 0
      PROVE  CacheGood(b) /\ Covers(b, Without(N, E))
  <2> DEFINE M == Without(N, D)
  <2>1. CacheGood(a) /\ Covers(a, M)
    BY <1>4 DEF Released
  <2>2. M \in [Digest -> Nat] /\ M[x] = N[x] /\ N[x] > 0
    BY <1>4 DEF Without
  <2>3. Less(M, x) = Without(N, E)
    BY <2>2 DEF Without, Less
  <2> HIDE DEF M
  <2>4. CacheGood(b) /\ Covers(b, Less(M, x))
    BY <1>2, <2>1, <2>2 DEF GivenBack
  <2>5. QED
    BY <2>3, <2>4
<1>5. QED
  BY <1>3, <1>4 DEF Released, b

LEMMA ReleaseIsRight ==
  ASSUME NEW c, CacheTyped(c), NEW D \in SUBSET Digest, NEW ord \in Orders
  PROVE  Released(c, D, Release(c, D, ord))
<1> DEFINE r == [cache |-> c, set |-> D, order |-> ord]
           upTo(n) == {d \in D : \E i \in 1 .. n : ord[i] = d}
           e == Releases!Fold(D, 0, c, ord)
<1>1. ord \in Seq(Digest) /\ ToSet(ord) = Digest /\ IsInjective(ord)
  BY AnyOrder, GathererAssumption DEF Orders
<1>2. \A n : \A a : ReleaseInv(r, n, a) <=> Released(c, upTo(n), a)
  BY DEF ReleaseInv
<1> HIDE DEF r
<1>3. ReleaseInv(r, 0, c)
  <2>1. upTo(0) = {}
    OBVIOUS
  <2>2. \A N \in [Digest -> Nat] : Without(N, {}) = N
    BY DEF Without
  <2>3. Released(c, {}, c)
    BY <2>2 DEF Released, SameWaits
  <2>4. QED
    BY <1>2, <2>1, <2>3
<1>4. ASSUME NEW a, NEW n \in 1 .. Len(ord), ord[n] \in Digest, ReleaseInv(r, n - 1, a)
      PROVE  ReleaseInv(r, n, ReleaseStep(D, 0, a, ord[n]))
  <2> DEFINE x == ord[n]
             U == upTo(n - 1)
             V == upTo(n)
  <2>1. Released(c, U, a)
    BY <1>2, <1>4
  <2>2. /\ \A i \in 1 .. n : i \in 1 .. n - 1 \/ i = n
        /\ \A i \in 1 .. n - 1 : i \in 1 .. n /\ i # n /\ i \in DOMAIN ord
        /\ n \in 1 .. n /\ n \in DOMAIN ord
    BY <1>1
  <2>3. x \notin U
    BY <1>1, <2>2 DEF IsInjective
  <2>4. CASE x \in D
    <3>1. V = U \cup {x}
      BY <2>2, <2>4
    <3> HIDE DEF U, V, x
    <3>2. Released(c, U \cup {x}, Decremented(a, x))
      BY <1>4, <2>1, <2>3, OneIsReleased DEF x
    <3>3. ReleaseStep(D, 0, a, x) = Decremented(a, x)
      BY <2>4 DEF ReleaseStep
    <3>4. Released(c, V, ReleaseStep(D, 0, a, x))
      BY <3>1, <3>2, <3>3
    <3>5. QED
      BY <1>2, <3>4 DEF V, x
  <2>5. CASE x \notin D
    <3>1. V = U
      BY <2>2, <2>5
    <3> HIDE DEF U, V, x
    <3>3. ReleaseStep(D, 0, a, x) = a
      BY <2>5 DEF ReleaseStep
    <3>4. Released(c, V, ReleaseStep(D, 0, a, x))
      BY <2>1, <3>1, <3>3
    <3>5. QED
      BY <1>2, <3>4 DEF V, x
  <2>6. QED
    BY <2>4, <2>5
<1>5. ReleaseInv(r, Len(ord), e)
  BY <1>1, <1>3, <1>4, LeastOf, Releases!FoldKeeps
<1>6. upTo(Len(ord)) = D
  BY <1>1, InSequence
<1>7. e = Release(c, D, ord)
  BY ReleasedFold
<1> HIDE DEF e
<1>8. Released(c, upTo(Len(ord)), e)
  BY <1>2, <1>5
<1>9. QED
  BY <1>6, <1>7, <1>8

More(N, d) == [N EXCEPT ![d] = @ + 1]

\* Those who wait for d and were asked for it, when j has joined them.
Joined(c, d, j, b) ==
  LET e == c.entry[d] IN
  \/ e.st = "absent" /\ b.entry[d] = Getting(<<j>>, {Owner(j)})
  \/ /\ e.st = "getting"
     /\ b.entry[d] = Getting(Append(e.jobs, j), e.getters \cup {Owner(j)})

\* j has a reference to d, or waits for it.
GotFor(c, d, j, got) ==
  /\ CacheTyped(got.cache) /\ Spare(got.cache) = Spare(c)
  /\ CacheGood(c) => CacheGood(got.cache)
  /\ \A x \in Digest \ {d} : got.cache.entry[x] = c.entry[x]
  /\ \/ /\ got.result = "success"
        /\ c.entry[d].st # "getting" /\ got.cache.entry[d].st = "inUse"
        /\ \A N \in [Digest -> Nat] : Covers(c, N) => Covers(got.cache, More(N, d))
     \/ /\ got.result \in {"wait", "get"}
        /\ Joined(c, d, j, got.cache)
        /\ got.result = "wait" => c.entry[d].st = "getting" /\ Owner(j) \in c.entry[d].getters
        /\ \A N \in [Digest -> Nat] : Covers(c, N) => Covers(got.cache, N)

\* Only the entry of d is another one, and has references for its claims M.
OnlyEntry(c, d, b, N, M) ==
  /\ Covers(c, N) /\ \A x \in Digest \ {d} : b.entry[x] = c.entry[x] /\ M[x] = N[x]
  /\ M[d] > 0 => b.entry[d].st = "inUse" /\ b.entry[d].refs >= M[d]

LEMMA CoversOthers ==
  ASSUME NEW c, NEW b, NEW d, NEW N, NEW M, OnlyEntry(c, d, b, N, M)
  PROVE  Covers(b, M)
<1> USE DEF OnlyEntry
<1>1. ASSUME NEW x \in Digest, M[x] > 0
      PROVE  b.entry[x].st = "inUse" /\ b.entry[x].refs >= M[x]
  <2>1. CASE x = d
    BY <1>1, <2>1
  <2>2. CASE x # d
    BY <1>1, <2>2 DEF Covers
  <2>3. QED
    BY <2>1, <2>2
<1>2. QED
  BY <1>1 DEF Covers

LEMMA GetIsRight ==
  ASSUME NEW c, CacheTyped(c), NEW d \in Digest, NEW j \in Job
  PROVE  GotFor(c, d, j, GetArtifact(c, d, j))
<1> DEFINE e == c.entry[d]
           hp == c.heap
           n == c.bytes
           Is(f, h, w) == GetArtifact(c, d, j) =
                          [cache |-> [c EXCEPT !.entry[d] = f, !.heap = h], result |-> w]
<1>1. e \in Entry /\ hp \in Seq(Digest) /\ n \in Int /\ Stored(c) \in SUBSET Digest
  BY DEF CacheTyped, Stored
<1>2. Owner(j) \in Client
  BY GathererAssumption DEF Owner
<1>3. ASSUME NEW f \in Entry, NEW h \in Seq(Digest), NEW w, Is(f, h, w)
      PROVE  \E got : got = GetArtifact(c, d, j) /\ got.result = w /\ EntrySet(c, d, f, h, n, got.cache)
  <2> DEFINE b == [c EXCEPT !.entry[d] = f, !.heap = h]
  <2>1. b = SetEntry(c, d, f, h, n, c.left)
    BY DEF SetEntry, CacheTyped
  <2> HIDE DEF b
  <2>2. EntrySet(c, d, f, h, n, b)
    BY <1>1, <2>1, EntryIsSet
  <2>3. GetArtifact(c, d, j) = [cache |-> b, result |-> w]
    BY <1>3 DEF b
  <2>4. QED
    BY <2>2, <2>3
<1>4. CASE e.st \in {"absent", "getting"}
  <2> DEFINE q == IF e.st = "absent" THEN <<j>> ELSE Append(e.jobs, j)
             G == IF e.st = "absent" THEN {Owner(j)} ELSE e.getters \cup {Owner(j)}
             w == IF e.st = "getting" /\ Owner(j) \in e.getters THEN "wait" ELSE "get"
             f == Getting(q, G)
  <2>1. q \in Seq(Job) /\ q # <<>> /\ G \in SUBSET Client
    BY <1>1, <1>2, <1>4, FormsOfEntry
  <2>2. f \in Entry /\ f.st = "getting"
    <3> HIDE DEF q, G
    <3>1. QED
      BY <2>1, EntryForms
  <2>3. Is(f, hp, w)
    <3>1. CASE e.st = "absent"
      BY <3>1 DEF GetArtifact, Owner
    <3>2. CASE e.st = "getting"
      BY <3>2 DEF GetArtifact, Owner
    <3>3. QED
      BY <1>4, <3>1, <3>2
  <2>4. w \in {"wait", "get"} /\ (w = "wait" => e.st = "getting" /\ Owner(j) \in e.getters)
    OBVIOUS
  <2>5. (e.st = "absent" /\ f = Getting(<<j>>, {Owner(j)}))
          \/ (e.st = "getting" /\ f = Getting(Append(e.jobs, j), e.getters \cup {Owner(j)}))
    BY <1>4
  <2> HIDE DEF q, G, w, f
  <2>6. PICK got : got = GetArtifact(c, d, j) /\ got.result = w
                   /\ EntrySet(c, d, f, hp, n, got.cache)
    <3> HIDE DEF Is
    <3>1. QED
      BY <1>1, <1>3, <2>2, <2>3
  <2> DEFINE b == got.cache
  <2>7. /\ CacheTyped(b) /\ b.heap = hp /\ b.bytes = n /\ b.panicked = c.panicked
        /\ b.lost = c.lost /\ b.stopped = c.stopped
        /\ b.entry[d] = f /\ \A x \in Digest \ {d} : b.entry[x] = c.entry[x]
    BY <2>6 DEF EntrySet
  <2> HIDE DEF b
  <2>8. Stored(b) = Stored(c)
    BY <1>4, <2>2, <2>7 DEF Stored
  <2>9. {x \in Digest : b.entry[x] = InHeap} = {x \in Digest : c.entry[x] = InHeap}
    BY <1>4, <2>2, <2>7, EntryForms
  <2>10. CacheGood(c) => CacheGood(b)
    BY <2>7, <2>9 DEF CacheGood, CacheOk, HeapRight
  <2>11. ASSUME NEW N \in [Digest -> Nat], Covers(c, N)
         PROVE  Covers(b, N)
    <3>1. ~(N[d] > 0)
      BY <1>4, <2>11 DEF Covers
    <3>2. OnlyEntry(c, d, b, N, N)
      BY <2>7, <2>11, <3>1 DEF OnlyEntry
    <3>3. QED
      BY <3>2, CoversOthers
  <2>12. Joined(c, d, j, b)
    BY <2>5, <2>7 DEF Joined
  <2>13. Spare(b) = Spare(c)
    BY <2>7, <2>8 DEF Spare
  <2>14. GotFor(c, d, j, got)
    BY <2>4, <2>6, <2>7, <2>10, <2>11, <2>12, <2>13 DEF GotFor, b
  <2>15. QED
    BY <2>6, <2>14
<1>5. CASE e.st \in {"inUse", "inHeap"}
  <2> DEFINE k == IF e.st = "inUse" THEN e.refs + 1 ELSE 1
             h == IF e.st = "inUse" THEN hp ELSE RemoveFirst(hp, d)
             f == InUse(k)
  <2>1. k \in Nat \ {0}
    BY <1>1, FormsOfEntry
  <2>2. f \in Entry /\ f.st = "inUse" /\ f.refs = k
    BY <2>1, EntryForms
  <2>3. RemoveFirst(hp, d) \in Seq(Digest)
    <3> HIDE DEF hp
    <3>1. QED
      BY <1>1, RemovedOnce
  <2>4. h \in Seq(Digest)
    BY <1>1, <2>3
  <2>5. Is(f, h, "success")
    <3>1. CASE e.st = "inUse"
      BY <3>1 DEF GetArtifact
    <3>2. CASE e.st = "inHeap"
      BY <3>2 DEF GetArtifact
    <3>3. QED
      BY <1>5, <3>1, <3>2
  <2> HIDE DEF f
  <2>6. PICK got : got = GetArtifact(c, d, j) /\ got.result = "success"
                   /\ EntrySet(c, d, f, h, n, got.cache)
    <3> HIDE DEF h, Is
    <3>1. QED
      BY <1>1, <1>3, <2>2, <2>4, <2>5
  <2> DEFINE b == got.cache
  <2>7. /\ CacheTyped(b) /\ b.heap = h /\ b.bytes = n /\ b.panicked = c.panicked
        /\ b.lost = c.lost /\ b.stopped = c.stopped
        /\ b.entry[d] = f /\ \A x \in Digest \ {d} : b.entry[x] = c.entry[x]
    BY <2>6 DEF EntrySet
  <2> HIDE DEF b, h
  <2>8. Stored(b) = Stored(c)
    BY <1>5, <2>2, <2>7 DEF Stored
  <2>9. CacheGood(c) => CacheGood(b)
    <3>1. SUFFICES ASSUME CacheGood(c) PROVE CacheGood(b)
      OBVIOUS
    <3>2. /\ IsInjective(hp) /\ ToSet(hp) = {x \in Digest : c.entry[x] = InHeap} /\ ~c.panicked
          /\ n > Target => hp = <<>> \/ c.stopped
      BY <3>1 DEF CacheGood, CacheOk, HeapRight
    <3>3. CASE e.st = "inUse"
      <4>1. h = hp
        BY <3>3 DEF h
      <4>2. {x \in Digest : b.entry[x] = InHeap} = {x \in Digest : c.entry[x] = InHeap}
        BY <2>2, <2>7, <3>3, EntryForms
      <4>3. QED
        BY <2>7, <3>2, <4>1, <4>2 DEF CacheGood, CacheOk, HeapRight
    <3>4. CASE e.st = "inHeap"
      <4>1. h = RemoveFirst(hp, d)
        BY <3>4 DEF h
      <4>2. IsInjective(h) /\ ToSet(h) = ToSet(hp) \ {d}
        <5> HIDE DEF hp
        <5>1. QED
          BY <1>1, <3>2, <4>1, RemovedOnce
      <4>3. {x \in Digest : b.entry[x] = InHeap} = {x \in Digest : c.entry[x] = InHeap} \ {d}
        BY <2>2, <2>7, EntryForms
      <4>4. n <= Target \/ c.stopped
        <5>1. d \in ToSet(hp)
          BY <1>1, <3>2, <3>4, FormsOfEntry
        <5>2. hp # <<>>
          BY <5>1 DEF ToSet
        <5>3. QED
          BY <1>1, <3>2, <5>2, SizeAssumption
      <4>5. ~(n > Target) \/ c.stopped
        BY <1>1, <4>4, SizeAssumption
      <4>6. QED
        BY <2>7, <3>2, <4>2, <4>3, <4>5 DEF CacheGood, CacheOk, HeapRight
    <3>5. QED
      BY <1>5, <3>3, <3>4
  <2>10. ASSUME NEW N \in [Digest -> Nat], Covers(c, N)
         PROVE  Covers(b, More(N, d))
    <3>1. /\ More(N, d) \in [Digest -> Nat] /\ More(N, d)[d] = N[d] + 1 /\ N[d] \in Nat
          /\ \A x \in Digest \ {d} : More(N, d)[x] = N[x]
      BY DEF More
    <3>2. k >= N[d] + 1
      <4>1. CASE N[d] = 0
        BY <2>1, <4>1
      <4>2. CASE N[d] # 0
        <5>1. e.st = "inUse" /\ e.refs >= N[d]
          BY <2>10, <3>1, <4>2 DEF Covers
        <5>2. e.refs \in Nat
          BY <1>1, <5>1, FormsOfEntry
        <5>3. QED
          BY <3>1, <5>1, <5>2
      <4>3. QED
        BY <4>1, <4>2
    <3>3. b.entry[d].st = "inUse" /\ b.entry[d].refs >= More(N, d)[d]
      BY <2>2, <2>7, <3>1, <3>2
    <3>4. OnlyEntry(c, d, b, N, More(N, d))
      BY <2>7, <2>10, <3>1, <3>3 DEF OnlyEntry
    <3>5. QED
      BY <3>4, CoversOthers
  <2>11. Spare(b) = Spare(c)
    BY <2>7, <2>8 DEF Spare
  <2>12. GotFor(c, d, j, got)
    BY <1>5, <2>2, <2>6, <2>7, <2>9, <2>10, <2>11 DEF GotFor, b
  <2>13. QED
    BY <2>6, <2>12
<1>6. QED
  BY <1>1, <1>4, <1>5, FormsOfEntry

\* n more references are claimed.
MoreBy(N, d, n) == [N EXCEPT ![d] = @ + n]

\* Nobody waits for d any more; if it came, all who did have a reference.
Arrived(c, d, got) ==
  /\ CacheTyped(got.cache) /\ Spare(got.cache) >= Spare(c) /\ got.ok \in BOOLEAN
  /\ got.cache.entry[d].st # "getting"
  /\ \A x \in Digest \ {d} :
       c.entry[x].st = "getting" \/ got.cache.entry[x].st = "getting"
         => got.cache.entry[x] = c.entry[x]
  /\ got.jobs = IF c.entry[d].st = "getting" THEN c.entry[d].jobs ELSE <<>>
  /\ got.ok /\ c.entry[d].st = "getting" => got.cache.entry[d].st = "inUse"
  /\ got.ok \/ c.entry[d].st = "getting" =>
       /\ Spare(got.cache) = Spare(c)
       /\ CacheGood(c) => CacheGood(got.cache)
       /\ \A N \in [Digest -> Nat] : Covers(c, N) =>
            Covers(got.cache, IF got.ok THEN MoreBy(N, d, Len(got.jobs)) ELSE N)

\* Nothing is claimed of what is on its way.
LEMMA NothingClaimed ==
  ASSUME NEW c, NEW d \in Digest, c.entry[d].st # "inUse",
         NEW N \in [Digest -> Nat], Covers(c, N)
  PROVE  N[d] = 0
<1>1. ~(N[d] > 0)
  BY DEF Covers
<1>2. QED
  BY <1>1

LEMMA FailureIsRight ==
  ASSUME NEW c, CacheTyped(c), NEW d \in Digest
  PROVE  Arrived(c, d, GotArtifactFailure(c, d))
<1> DEFINE e == c.entry[d]
           hp == c.heap
           n == c.bytes
           b == [c EXCEPT !.entry[d] = Absent]
           js == IF e.st = "getting" THEN e.jobs ELSE <<>>
           got == [cache |-> b, jobs |-> js, ok |-> FALSE]
           s == SumOf(Stored(c))
           t == SumOf(Stored(b))
           z == Size[d]
<1>1. e \in Entry /\ hp \in Seq(Digest) /\ n \in Int
  BY DEF CacheTyped
<1>2. GotArtifactFailure(c, d) = got
  BY DEF GotArtifactFailure
<1>3. b = SetEntry(c, d, Absent, hp, n, c.left)
  BY DEF SetEntry, CacheTyped
<1> HIDE DEF b
<1>4. EntrySet(c, d, Absent, hp, n, b)
  BY <1>1, <1>3, EntryForms, EntryIsSet
<1>5. /\ CacheTyped(b) /\ b.heap = hp /\ b.bytes = n /\ b.panicked = c.panicked
      /\ b.lost = c.lost /\ b.stopped = c.stopped
      /\ b.entry[d] = Absent /\ \A x \in Digest \ {d} : b.entry[x] = c.entry[x]
      /\ t = s + 0 - (IF e.st \in {"inUse", "inHeap"} THEN z ELSE 0)
  BY <1>4, EntryForms DEF EntrySet
<1>6. s \in Nat /\ t \in Nat /\ z \in Nat
  BY SumTyped, SizeAssumption
<1> DEFINE sb == Spare(b)
           sc == Spare(c)
<1> DEFINE l == n - c.lost
<1>7. l \in Int /\ sb = l - t /\ sc = l - s
  BY <1>1, <1>5 DEF Spare, CacheTyped
<1> HIDE DEF s, t, z, sb, sc, l
<1>8. sb >= sc /\ (e.st = "getting" => sb = sc)
  BY <1>5, <1>6, <1>7
<1>9. ASSUME e.st = "getting", CacheGood(c)
      PROVE  CacheGood(b)
  <2>1. {x \in Digest : b.entry[x] = InHeap} = {x \in Digest : c.entry[x] = InHeap}
    BY <1>5, <1>9, EntryForms
  <2>2. QED
    BY <1>5, <1>9, <2>1 DEF CacheGood, CacheOk, HeapRight
<1>10. ASSUME e.st = "getting", NEW N \in [Digest -> Nat], Covers(c, N)
       PROVE  Covers(b, N)
  <2>1. N[d] = 0
    BY <1>10, NothingClaimed
  <2>2. OnlyEntry(c, d, b, N, N)
    BY <1>5, <1>10, <2>1 DEF OnlyEntry
  <2>3. QED
    BY <2>2, CoversOthers
<1>11. /\ got.cache = b /\ got.jobs = js /\ got.ok = FALSE
  OBVIOUS
<1> HIDE DEF got
<1>12. js = IF c.entry[d].st = "getting" THEN c.entry[d].jobs ELSE <<>>
  OBVIOUS
<1> HIDE DEF js
<1>13. Arrived(c, d, got)
  BY <1>5, <1>8, <1>9, <1>10, <1>11, <1>12, EntryForms DEF Arrived, sb, sc
<1>14. QED
  BY <1>2, <1>13

LEMMA SuccessIsRight ==
  ASSUME NEW c, CacheTyped(c), NEW d \in Digest, NEW fsOk \in BOOLEAN
  PROVE  Arrived(c, d, GotArtifactSuccess(c, d, fsOk))
<1> DEFINE e == c.entry[d]
           hp == c.heap
           n == c.bytes
           js == e.jobs
           z == Size[d]
           m == n + z
<1>1. /\ e \in Entry /\ hp \in Seq(Digest) /\ n \in Int /\ z \in Nat /\ m \in Int
      /\ c.lost \in Nat
  BY SizeAssumption DEF CacheTyped
<1>2. CASE e.st # "getting"
  <2> DEFINE got == [cache |-> c, jobs |-> <<>>, ok |-> TRUE]
  <2>1. GotArtifactSuccess(c, d, fsOk) = got
    BY <1>2 DEF GotArtifactSuccess
  <2>2. got.cache = c /\ got.jobs = <<>> /\ got.ok = TRUE /\ Len(<<>>) = 0
    OBVIOUS
  <2> HIDE DEF got
  <2>3. \A N \in [Digest -> Nat] : MoreBy(N, d, 0) = N
    BY DEF MoreBy
  <2>4. Spare(c) >= Spare(c)
    <3>1. SumOf(Stored(c)) \in Nat
      BY SumTyped
    <3>2. QED
      BY <1>1, <3>1 DEF Spare
  <2>5. Arrived(c, d, got)
    BY <1>2, <2>2, <2>3, <2>4 DEF Arrived
  <2>6. QED
    BY <2>1, <2>5
<1>3. CASE e.st = "getting" /\ ~fsOk
  <2>1. GotArtifactSuccess(c, d, fsOk) = GotArtifactFailure(c, d)
    BY <1>3 DEF GotArtifactSuccess
  <2>2. QED
    BY <2>1, FailureIsRight
<1>4. CASE e.st = "getting" /\ fsOk
  <2> DEFINE k == Len(js)
             f == InUse(k)
             b == [c EXCEPT !.entry[d] = f, !.bytes = @ + z, !.left = @ \ {d}]
             a == Evicted(b)
             got == [cache |-> a, jobs |-> js, ok |-> TRUE]
  <2>1. js \in Seq(Job) /\ js # <<>> /\ k \in Nat \ {0}
    BY <1>1, <1>4, FormsOfEntry
  <2>2. GotArtifactSuccess(c, d, fsOk) = got
    BY <1>4, <2>1 DEF GotArtifactSuccess
  <2>3. f \in Entry /\ f.st = "inUse" /\ f.refs = k
    <3> HIDE DEF k
    <3>1. QED
      BY <2>1, EntryForms
  <2>4. b = SetEntry(c, d, f, hp, m, c.left \ {d})
    BY DEF SetEntry, CacheTyped
  <2> HIDE DEF b, f
  <2>5. EntrySet(c, d, f, hp, m, b)
    <3> HIDE DEF m
    <3>1. QED
      BY <1>1, <2>3, <2>4, EntryIsSet
  <2> DEFINE s == SumOf(Stored(c))
             t == SumOf(Stored(b))
  <2>6. /\ CacheTyped(b) /\ b.heap = hp /\ b.bytes = m /\ b.panicked = c.panicked
        /\ b.lost = c.lost
        /\ b.entry[d] = f /\ \A x \in Digest \ {d} : b.entry[x] = c.entry[x]
        /\ t = s + z - 0
    BY <1>4, <2>3, <2>5 DEF EntrySet
  <2>7. s \in Nat /\ t \in Nat
    BY SumTyped
  <2> HIDE DEF s, t
  <2> DEFINE ls == c.lost
  <2>8. (m - ls) - t = (n - ls) - s
    <3>1. n \in Int /\ z \in Nat /\ m = n + z /\ ls \in Nat
      BY <1>1
    <3>2. t = s + z - 0
      BY <2>6
    <3> HIDE DEF n, z, m, ls
    <3>3. QED
      BY <2>7, <3>1, <3>2
  <2>9. Spare(b) = Spare(c)
    BY <2>6, <2>8 DEF Spare, s, t
  <2>10. /\ Evicts(b, a)
         /\ CacheOk(b) => CacheOk(a) /\ (a.bytes > Target => a.heap = <<>> \/ a.stopped)
    BY <2>6, EvictedIsRight
  <2> HIDE DEF a
  <2>11. /\ SameWaits(b, a) /\ \A N : Covers(b, N) => Covers(a, N)
         /\ \A x \in Digest : b.entry[x].st = "inUse" => a.entry[x] = b.entry[x]
    BY <2>10, EvictedWaits
  <2>a. a.entry[d].st = "inUse"
    BY <2>3, <2>6, <2>11
  <2>12. CacheTyped(a) /\ Spare(a) = Spare(c)
    BY <2>9, <2>10 DEF Evicts
  <2>13. Spare(a) >= Spare(c)
    BY <1>1, <2>7, <2>12 DEF Spare, s
  <2>14. a.entry[d].st # "getting"
    BY <2>3, <2>6, <2>11 DEF SameWaits
  <2>15. \A x \in Digest \ {d} : c.entry[x].st = "getting" \/ a.entry[x].st = "getting"
           => a.entry[x] = c.entry[x]
    BY <2>6, <2>11 DEF SameWaits
  <2>16. CacheGood(c) => CacheGood(a)
    <3>1. {x \in Digest : b.entry[x] = InHeap} = {x \in Digest : c.entry[x] = InHeap}
      BY <1>4, <2>3, <2>6, EntryForms
    <3>2. CacheOk(c) => CacheOk(b)
      BY <2>6, <3>1 DEF CacheOk, HeapRight
    <3>3. QED
      BY <2>10, <3>2 DEF CacheGood
  <2>17. ASSUME NEW N \in [Digest -> Nat], Covers(c, N)
         PROVE  Covers(a, MoreBy(N, d, k))
    <3>1. N[d] = 0
      BY <1>4, <2>17, NothingClaimed
    <3>2. MoreBy(N, d, k)[d] = k /\ \A x \in Digest \ {d} : MoreBy(N, d, k)[x] = N[x]
      BY <2>1, <3>1 DEF MoreBy
    <3>3. OnlyEntry(c, d, b, N, MoreBy(N, d, k))
      BY <2>1, <2>3, <2>6, <2>17, <3>2 DEF OnlyEntry
    <3>4. Covers(b, MoreBy(N, d, k))
      BY <3>3, CoversOthers
    <3>5. QED
      BY <2>11, <3>4
  <2>18. got.cache = a /\ got.jobs = js /\ got.ok = TRUE
    OBVIOUS
  <2> HIDE DEF got
  <2>19. Arrived(c, d, got)
    BY <1>4, <2>12, <2>13, <2>14, <2>15, <2>16, <2>17, <2>18, <2>a DEF Arrived
  <2>20. QED
    BY <2>2, <2>19
<1>5. QED
  BY <1>2, <1>3, <1>4

\* Whether the file has landed or not.
LEMMA ArrivedIsRight ==
  ASSUME NEW c, CacheTyped(c), NEW d \in Digest, NEW fsOk \in BOOLEAN, NEW is
  PROVE  Arrived(c, d, IF is THEN GotArtifactSuccess(c, d, fsOk) ELSE GotArtifactFailure(c, d))
<1>1. CASE is
  BY <1>1, SuccessIsRight
<1>2. CASE ~is
  BY <1>2, FailureIsRight
<1>3. QED
  BY <1>1, <1>2

\* j comes once among the first n.
Once(q, n, j) ==
  \E i \in 1 .. n : q[i] = j /\ \A k \in 1 .. n : q[k] = j => k = i

NotOfStep(p, o, kept, j) == IF Getter[j] = p THEN kept ELSE Append(kept, j)
NotOfInv(r, n, kept) ==
  /\ kept \in Seq(Job)
  /\ \A i \in 1 .. Len(kept) : Getter[kept[i]] # r.getter /\ \E k \in 1 .. n : r.jobs[k] = kept[i]
  /\ \A j \in Job : Getter[j] # r.getter /\ Once(r.jobs, n, j) => Once(kept, Len(kept), j)
NotOfs == INSTANCE FoldTheorems WITH Op <- NotOfStep, Inv <- NotOfInv

LEMMA NotOfFold ==
  ASSUME NEW g, NEW js
  PROVE  NotOf(g, js) = NotOfs!Fold(g, 0, <<>>, js)
BY DEF NotOf, NotOfs!Fold, NotOfStep, FoldLeft, MapThenFoldSet, Max,
       NotOfs!Greatest

LEMMA OnceMore ==
  ASSUME NEW q \in Seq(Job), NEW x \in Job
  PROVE  /\ \A j : j # x /\ Once(q, Len(q), j) => Once(Append(q, x), Len(Append(q, x)), j)
         /\ (\A i \in 1 .. Len(q) : q[i] # x) => Once(Append(q, x), Len(Append(q, x)), x)
<1> DEFINE p == Append(q, x)
<1>1. /\ p \in Seq(Job) /\ Len(p) = Len(q) + 1 /\ p[Len(q) + 1] = x /\ Len(q) \in Nat
      /\ \A i \in 1 .. Len(q) : p[i] = q[i] /\ i \in 1 .. Len(p)
      /\ \A i \in 1 .. Len(p) : i \in 1 .. Len(q) \/ i = Len(q) + 1
      /\ Len(q) + 1 \in 1 .. Len(p)
  OBVIOUS
<1> HIDE DEF p
<1>2. \A j : j # x /\ Once(q, Len(q), j) => Once(p, Len(p), j)
  BY <1>1 DEF Once
<1>3. (\A i \in 1 .. Len(q) : q[i] # x) => Once(p, Len(p), x)
  BY <1>1 DEF Once
<1>4. QED
  BY <1>2, <1>3 DEF p

LEMMA NotOfIsRight ==
  ASSUME NEW g, NEW js \in Seq(Job)
  PROVE  /\ NotOf(g, js) \in Seq(Job)
         /\ \A i \in 1 .. Len(NotOf(g, js)) :
              Getter[NotOf(g, js)[i]] # g /\ \E k \in 1 .. Len(js) : js[k] = NotOf(g, js)[i]
         /\ \A j \in Job : Getter[j] # g /\ Once(js, Len(js), j)
              => Once(NotOf(g, js), Len(NotOf(g, js)), j)
<1> DEFINE r == [getter |-> g, jobs |-> js]
           e == NotOfs!Fold(g, 0, <<>>, js)
<1>1. r.getter = g /\ r.jobs = js
  OBVIOUS
<1> HIDE DEF r
<1>2. NotOfInv(r, 0, <<>>)
  <2>1. \A j : ~Once(js, 0, j)
    BY DEF Once
  <2>2. QED
    BY <1>1, <2>1 DEF NotOfInv
<1>3. ASSUME NEW a, NEW n \in 1 .. Len(js), js[n] \in Job, NotOfInv(r, n - 1, a)
      PROVE  NotOfInv(r, n, NotOfStep(g, 0, a, js[n]))
  <2> DEFINE x == js[n]
             b == Append(a, x)
  <2>1. /\ a \in Seq(Job) /\ x \in Job
        /\ \A i \in 1 .. Len(a) : Getter[a[i]] # g /\ \E k \in 1 .. n - 1 : js[k] = a[i]
        /\ \A j \in Job : Getter[j] # g /\ Once(js, n - 1, j) => Once(a, Len(a), j)
    BY <1>1, <1>3 DEF NotOfInv
  <2>2. /\ \A i \in 1 .. n : i \in 1 .. n - 1 \/ i = n
        /\ \A i \in 1 .. n - 1 : i \in 1 .. n /\ i # n
        /\ n \in 1 .. n
    OBVIOUS
  <2>3. \A j : j # x /\ Once(js, n, j) => Once(js, n - 1, j)
    BY <2>2 DEF Once
  <2>4. CASE Getter[x] = g
    <3>1. \A j \in Job : Getter[j] # g /\ Once(js, n, j) => Once(a, Len(a), j)
      BY <2>1, <2>3, <2>4
    <3>2. NotOfInv(r, n, a)
      BY <1>1, <2>1, <2>2, <3>1 DEF NotOfInv
    <3>3. QED
      BY <2>4, <3>2 DEF NotOfStep
  <2>5. CASE Getter[x] # g
    <3>1. /\ b \in Seq(Job) /\ Len(b) = Len(a) + 1 /\ b[Len(a) + 1] = x
          /\ \A i \in 1 .. Len(a) : b[i] = a[i]
          /\ \A i \in 1 .. Len(b) : i \in 1 .. Len(a) \/ i = Len(a) + 1
      BY <2>1
    <3>2. /\ \A j : j # x /\ Once(a, Len(a), j) => Once(b, Len(b), j)
          /\ (\A i \in 1 .. Len(a) : a[i] # x) => Once(b, Len(b), x)
      BY <2>1, OnceMore
    <3> HIDE DEF b
    <3>3. \A i \in 1 .. Len(b) : Getter[b[i]] # g /\ \E k \in 1 .. n : js[k] = b[i]
      <4>1. ASSUME NEW i \in 1 .. Len(a) PROVE Getter[a[i]] # g /\ \E k \in 1 .. n : js[k] = a[i]
        BY <2>1, <2>2
      <4>2. QED
        BY <2>2, <2>5, <3>1, <4>1
    <3>4. ASSUME NEW j \in Job, Getter[j] # g, Once(js, n, j)
          PROVE  Once(b, Len(b), j)
      <4>1. CASE j # x
        BY <2>1, <2>3, <3>2, <3>4, <4>1
      <4>2. CASE j = x
        <5>1. \A k \in 1 .. n - 1 : js[k] # x
          BY <2>2, <3>4, <4>2 DEF Once
        <5>2. \A i \in 1 .. Len(a) : a[i] # x
          BY <2>1, <5>1
        <5>3. QED
          BY <3>2, <4>2, <5>2
      <4>3. QED
        BY <4>1, <4>2
    <3>5. NotOfInv(r, n, b)
      BY <1>1, <3>1, <3>3, <3>4 DEF NotOfInv
    <3>6. QED
      BY <2>5, <3>5 DEF NotOfStep, b
  <2>6. QED
    BY <2>4, <2>5
<1>4. NotOfInv(r, Len(js), e)
  BY <1>2, <1>3, LeastOf, NotOfs!FoldKeeps
<1>5. e = NotOf(g, js)
  BY NotOfFold
<1> HIDE DEF e
<1>6. QED
  BY <1>1, <1>4, <1>5 DEF NotOfInv

\* The jobs of g do not wait any more.
Forgotten(c, g, b) ==
  /\ CacheTyped(b) /\ Spare(b) = Spare(c)
  /\ CacheGood(c) => CacheGood(b)
  /\ \A N : Covers(c, N) => Covers(b, N)
  /\ \A d \in Digest :
       LET e == c.entry[d]  f == b.entry[d] IN
       /\ e.st # "getting" => f = e
       /\ f.st = "getting" => /\ e.st = "getting" /\ f.getters = e.getters \ {g}
                              /\ \A i \in DOMAIN f.jobs :
                                   /\ Owner(f.jobs[i]) # g
                                   /\ \E k \in DOMAIN e.jobs : e.jobs[k] = f.jobs[i]
       /\ \A j \in Job : Owner(j) # g /\ Listed(e, j) => Listed(f, j)

LEMMA ListedOnce ==
  ASSUME NEW e, e.jobs \in Seq(Job), NEW j
  PROVE  Listed(e, j) <=> e.st = "getting" /\ Once(e.jobs, Len(e.jobs), j)
<1>1. DOMAIN e.jobs = 1 .. Len(e.jobs)
  OBVIOUS
<1>2. QED
  BY <1>1 DEF Listed, Once

LEMMA ForgottenIsRight ==
  ASSUME NEW c, CacheTyped(c), NEW g
  PROVE  Forgotten(c, g, GetterDisconnected(c, g))
<1> DEFINE left(d) == IF c.entry[d].st # "getting" THEN c.entry[d]
                      ELSE IF NotOf(g, c.entry[d].jobs) = <<>> THEN Absent
                      ELSE Getting(NotOf(g, c.entry[d].jobs), c.entry[d].getters \ {g})
           b == GetterDisconnected(c, g)
<1>1. /\ b.entry = [d \in Digest |-> left(d)] /\ b.heap = c.heap /\ b.bytes = c.bytes
      /\ b.panicked = c.panicked /\ DOMAIN b = DOMAIN c
      /\ b.lost = c.lost /\ b.stopped = c.stopped
  BY DEF GetterDisconnected, CacheTyped
<1> HIDE DEF b
<1>2. ASSUME NEW d \in Digest
      PROVE  /\ b.entry[d] \in Entry
             /\ c.entry[d].st # "getting" => b.entry[d] = c.entry[d]
             /\ c.entry[d].st = "getting" => b.entry[d].st \in {"getting", "absent"}
             /\ b.entry[d].st = "getting" =>
                  /\ c.entry[d].st = "getting" /\ b.entry[d].getters = c.entry[d].getters \ {g}
                  /\ \A i \in DOMAIN b.entry[d].jobs :
                       /\ Owner(b.entry[d].jobs[i]) # g
                       /\ \E k \in DOMAIN c.entry[d].jobs : c.entry[d].jobs[k] = b.entry[d].jobs[i]
             /\ \A j \in Job : Owner(j) # g /\ Listed(c.entry[d], j) => Listed(b.entry[d], j)
  <2> DEFINE e == c.entry[d]
             f == b.entry[d]
             q == e.jobs
             p == NotOf(g, q)
             G == e.getters \ {g}
  <2>1. e \in Entry /\ f = left(d)
    BY <1>1 DEF CacheTyped
  <2>2. CASE e.st # "getting"
    <3>1. f = e
      BY <2>1, <2>2
    <3>2. QED
      BY <2>1, <2>2, <3>1 DEF Listed
  <2>3. CASE e.st = "getting"
    <3>1. q \in Seq(Job) /\ q # <<>> /\ G \in SUBSET Client /\ DOMAIN q = 1 .. Len(q)
      BY <2>1, <2>3, FormsOfEntry
    <3>2. /\ p \in Seq(Job)
          /\ \A i \in 1 .. Len(p) : Getter[p[i]] # g /\ \E k \in 1 .. Len(q) : q[k] = p[i]
          /\ \A j \in Job : Getter[j] # g /\ Once(q, Len(q), j) => Once(p, Len(p), j)
      <4> HIDE DEF q
      <4>1. QED
        BY <3>1, NotOfIsRight
    <3>3. \A j : Listed(e, j) <=> Once(q, Len(q), j)
      BY <2>3, <3>1, ListedOnce
    <3>4. f = IF p = <<>> THEN Absent ELSE Getting(p, G)
      BY <2>1, <2>3
    <3> HIDE DEF p, q, G
    <3>5. CASE p = <<>>
      <4>1. f = Absent /\ f.st = "absent" /\ f \in Entry
        BY <3>4, <3>5, EntryForms
      <4>2. \A j : ~Once(p, Len(p), j)
        BY <3>5 DEF Once
      <4>3. \A j \in Job : ~(Owner(j) # g /\ Listed(e, j))
        BY <3>2, <3>3, <4>2 DEF Owner
      <4>4. QED
        BY <2>3, <4>1, <4>3
    <3>6. CASE p # <<>>
      <4>1. f = Getting(p, G) /\ f.st = "getting" /\ f \in Entry /\ f.jobs = p /\ f.getters = G
        BY <3>1, <3>2, <3>4, <3>6, EntryForms
      <4>2. DOMAIN p = 1 .. Len(p)
        BY <3>2
      <4>3. \A j : Listed(f, j) <=> Once(p, Len(p), j)
        BY <3>2, <4>1, ListedOnce
      <4>4. \A i \in DOMAIN f.jobs : Owner(f.jobs[i]) # g /\ \E k \in DOMAIN q : q[k] = f.jobs[i]
        BY <3>1, <3>2, <4>1, <4>2 DEF Owner
      <4>5. \A j \in Job : Owner(j) # g /\ Listed(e, j) => Listed(f, j)
        BY <3>2, <3>3, <4>3 DEF Owner
      <4>6. QED
        BY <2>3, <4>1, <4>4, <4>5 DEF q, G
    <3>7. QED
      BY <3>5, <3>6
  <2>4. QED
    BY <2>2, <2>3
<1>3. CacheTyped(b)
  <2>1. b.entry \in [Digest -> Entry]
    <3>1. b.entry = [d \in Digest |-> b.entry[d]]
      BY <1>1
    <3>2. QED
      BY <1>2, <3>1
  <2>2. QED
    BY <1>1, <2>1 DEF CacheTyped
<1>4. Stored(b) = Stored(c)
  <2>1. ASSUME NEW d \in Digest
        PROVE  b.entry[d].st \in {"inUse", "inHeap"} <=> c.entry[d].st \in {"inUse", "inHeap"}
    <3>1. CASE c.entry[d].st = "getting"
      BY <1>2, <3>1
    <3>2. CASE c.entry[d].st # "getting"
      BY <1>2, <3>2
    <3>3. QED
      BY <3>1, <3>2
  <2>2. QED
    BY <2>1 DEF Stored
<1>5. \A d \in Digest : b.entry[d] = InHeap <=> c.entry[d] = InHeap
  <2>1. ASSUME NEW d \in Digest
        PROVE  b.entry[d] = InHeap <=> c.entry[d] = InHeap
    <3>1. CASE c.entry[d].st = "getting"
      BY <1>2, <3>1, EntryForms
    <3>2. CASE c.entry[d].st # "getting"
      BY <1>2, <3>2
    <3>3. QED
      BY <3>1, <3>2
  <2>2. QED
    BY <2>1
<1>6. CacheGood(c) => CacheGood(b)
  <2>1. {x \in Digest : b.entry[x] = InHeap} = {x \in Digest : c.entry[x] = InHeap}
    BY <1>5
  <2>2. QED
    BY <1>1, <2>1 DEF CacheGood, CacheOk, HeapRight
<1>7. \A N : Covers(c, N) => Covers(b, N)
  BY <1>2 DEF Covers
<1>8. Spare(b) = Spare(c)
  BY <1>1, <1>4 DEF Spare
<1>9. Forgotten(c, g, b)
  BY <1>2, <1>3, <1>6, <1>7, <1>8 DEF Forgotten
<1>10. QED
  BY <1>9 DEF b

-----------------------------------------------------------------------------
(***************************************************************************)
(* Acquiring an artifact for a job.                                        *)
(***************************************************************************)
\* j is a live job that may be given more to acquire.
MayTake(g, p, j) ==
  /\ Kept(g, p) /\ j \in LiveIn(g) /\ p.announced[j] = <<>> /\ j \notin g.ready
  /\ Owner(j) \in p.clients

\* d may be acquired for j, as a manifest or not.
MayAcquire(g, p, j, d, m) ==
  /\ MayTake(g, p, j) /\ d \in Digest /\ m \in BOOLEAN
  /\ Apart(j) => (m <=> d \in Manifests(j))
  /\ m => <<j, d>> \in p.unread

\* Of the jobs only j has changed, and it has not lost anything; nor has the
\* cache lost what is in use.
Grows(g, j, h) ==
  /\ LiveIn(h) = LiveIn(g) /\ h.ready = g.ready /\ h.failed = g.failed
  /\ \A k \in Job \ {j} : h.job[k] = g.job[k]
  /\ g.job[j].acquired \subseteq h.job[j].acquired
  /\ Has(g.job[j]) \subseteq Has(h.job[j])
  /\ \A x \in Digest : g.cache.entry[x].st = "inUse" => h.cache.entry[x].st = "inUse"

SameReads(g, h) ==
  /\ h.reads = g.reads /\ h.known = g.known /\ h.waiting = g.waiting
  /\ h.inProgress = g.inProgress /\ h.reader = g.reader

Acquiring(g, j, h) ==
  Grows(g, j, h) /\ SameReads(g, h) /\ h.job[j].reading = g.job[j].reading

\* The record of the live job j is now r.
JobIsNow(g, j, r, h) ==
  /\ DOMAIN h = DOMAIN g /\ h.ready = g.ready /\ h.failed = g.failed
  /\ h.job = [g.job EXCEPT ![j] = r]

LEMMA JobChanged ==
  ASSUME NEW g, Typed(g), NEW j \in LiveIn(g), NEW r \in JobRecord, r # NoJob,
         NEW h, JobIsNow(g, j, r, h)
  PROVE  /\ h.job \in [Job -> JobRecord] /\ LiveIn(h) = LiveIn(g) /\ h.job[j] = r
         /\ \A k \in Job \ {j} : h.job[k] = g.job[k]
<1>1. j \in Job /\ g.job[j] # NoJob /\ g.job \in [Job -> JobRecord]
  BY DEF LiveIn, Typed
<1>2. /\ h.job \in [Job -> JobRecord] /\ h.job[j] = r
      /\ \A k \in Job \ {j} : h.job[k] = g.job[k]
  BY <1>1 DEF JobIsNow
<1>3. LiveIn(h) = LiveIn(g)
  BY <1>1, <1>2 DEF LiveIn
<1>4. QED
  BY <1>2, <1>3

LEMMA LiveJob ==
  ASSUME NEW g, Typed(g), NEW j \in LiveIn(g)
  PROVE  /\ j \in Job /\ g.job[j] # NoJob
         /\ g.job[j] \in [st : {"job"}, acquired : SUBSET Digest,
                          being : SUBSET (Digest \X BOOLEAN), reading : SUBSET Digest]
BY DEF LiveIn, Typed, JobRecord

\* The claims are those of before.
LEMMA SameClaims ==
  ASSUME NEW g, NEW h, NEW F, LiveIn(h) = LiveIn(g),
         \A j \in LiveIn(g) : h.job[j].acquired = g.job[j].acquired
  PROVE  ClaimsIn(h, F) = ClaimsIn(g, F)
<1>1. \A d : HeldBy(h, d) = HeldBy(g, d)
  BY DEF HeldBy
<1>2. QED
  BY <1>1 DEF ClaimsIn

LEMMA ClaimsTyped ==
  ASSUME NEW g, NEW S, LiveRight(g, S), NEW F \in [Digest -> Nat]
  PROVE  ClaimsIn(g, F) \in [Digest -> Nat] /\ \A d : IsFiniteSet(HeldBy(g, d))
<1>1. \A d : HeldBy(g, d) \subseteq LiveIn(g)
  BY DEF HeldBy
<1>2. \A d : IsFiniteSet(HeldBy(g, d)) /\ Cardinality(HeldBy(g, d)) \in Nat
  BY <1>1, FS_Subset, FS_CardinalityType DEF LiveRight
<1>3. QED
  BY <1>2 DEF ClaimsIn

\* What d was given to j is one claim more.
LEMMA OneMoreClaim ==
  ASSUME NEW g, NEW S, LiveRight(g, S), NEW F \in [Digest -> Nat],
         NEW j \in LiveIn(g), NEW d \in Digest, d \notin g.job[j].acquired,
         NEW h, LiveIn(h) = LiveIn(g), h.job[j].acquired = g.job[j].acquired \cup {d},
         \A k \in LiveIn(g) \ {j} : h.job[k].acquired = g.job[k].acquired
  PROVE  ClaimsIn(h, F) = More(ClaimsIn(g, F), d)
<1>1. /\ ClaimsIn(g, F) \in [Digest -> Nat] /\ IsFiniteSet(HeldBy(g, d))
  BY ClaimsTyped
<1>2. \A x \in Digest \ {d} : HeldBy(h, x) = HeldBy(g, x)
  BY DEF HeldBy
<1>3. HeldBy(h, d) = HeldBy(g, d) \cup {j} /\ j \notin HeldBy(g, d)
  BY DEF HeldBy
<1>4. Cardinality(HeldBy(h, d)) = Cardinality(HeldBy(g, d)) + 1
     /\ Cardinality(HeldBy(g, d)) \in Nat
  <2> DEFINE Q == HeldBy(g, d)
  <2> HIDE DEF Q
  <2>1. IsFiniteSet(Q) /\ j \notin Q
    BY <1>1, <1>3 DEF Q
  <2>2. Cardinality(Q \cup {j}) = Cardinality(Q) + 1 /\ Cardinality(Q) \in Nat
    BY <2>1, FS_AddElement, FS_CardinalityType
  <2>3. QED
    BY <1>3, <2>2 DEF Q
<1> DEFINE N == ClaimsIn(g, F)
           M == ClaimsIn(h, F)
           a == Cardinality(HeldBy(g, d))
           b == Cardinality(HeldBy(h, d))
<1>5. /\ M = [x \in Digest |-> M[x]] /\ N = [x \in Digest |-> N[x]]
      /\ N[d] = a + F[d] /\ M[d] = b + F[d] /\ F[d] \in Nat
      /\ \A x \in Digest \ {d} : M[x] = N[x]
  BY <1>2 DEF ClaimsIn
<1>6. b = a + 1 /\ a \in Nat
  BY <1>4
<1> HIDE DEF N, M, a, b
<1>7. M[d] = N[d] + 1
  BY <1>5, <1>6
<1>8. M = [x \in Digest |-> IF x = d THEN N[d] + 1 ELSE N[x]]
  BY <1>5, <1>7
<1>9. M = More(N, d)
  BY <1>5, <1>8 DEF More
<1>10. QED
  BY <1>9 DEF N, M

\* What does not depend on the cache and what is acquired.
LEMMA ReadsStay ==
  ASSUME NEW g, NEW h, SameReads(g, h), LiveIn(h) = LiveIn(g),
         \A k \in LiveIn(g) : h.job[k].reading = g.job[k].reading
  PROVE  /\ ReadsRight(g) => ReadsRight(h)
         /\ ReadersRight(g) => ReadersRight(h)
         /\ EntriesRight(g) => EntriesRight(h)
<1>1. ReadersOf(h) = ReadersOf(g) /\ InReads(h) = InReads(g)
  BY DEF ReadersOf, InReads, SameReads
<1>2. ReadersRight(g) => ReadersRight(h)
  BY <1>1 DEF ReadersRight, SameReads
<1>3. EntriesRight(g) => EntriesRight(h)
  BY DEF EntriesRight, SameReads
<1>4. ReadsRight(g) => ReadsRight(h)
  BY DEF ReadsRight, SameReads
<1>5. QED
  BY <1>2, <1>3, <1>4

LEMMA TellsStay ==
  ASSUME NEW g, NEW h, NEW A, NEW D, NEW C, TellsRight(g, A, D, C), LiveIn(h) = LiveIn(g),
         h.ready = g.ready, h.failed = g.failed,
         \A k \in LiveIn(g) : A[k] = <<"ready">> \/ k \in g.ready => HaveAll(h.job[k])
  PROVE  TellsRight(h, A, D, C)
BY DEF TellsRight

\* What a job can be told differs.
LEMMA Told ==
  <<>> # <<"ready">> /\ <<>> # <<"failed">> /\ <<"ready">> # <<"failed">>
OBVIOUS

\* j was given d.
Takes(g, p, j, d, m, h) ==
  /\ MayAcquire(g, p, j, d, m) /\ d \notin Has(g.job[j])
  /\ \E got : /\ GotFor(g.cache, d, j, got) /\ got.result = "success"
              /\ h = [g EXCEPT !.cache = got.cache, !.job[j].acquired = @ \cup {d}]

LEMMA TakesIsRight ==
  ASSUME NEW g, NEW p, NEW j, NEW d, NEW m, NEW h, Takes(g, p, j, d, m, h)
  PROVE  Kept(h, p) /\ Acquiring(g, j, h) /\ d \in h.job[j].acquired
<1> DEFINE o == g.job[j]
           r == [o EXCEPT !.acquired = @ \cup {d}]
           S == p.started
           L == LiveIn(g)
           F == p.fetching
<1>1. PICK got : /\ GotFor(g.cache, d, j, got) /\ got.result = "success"
                 /\ h = [g EXCEPT !.cache = got.cache, !.job[j].acquired = @ \cup {d}]
  BY Zenon DEF Takes
<1> DEFINE c == got.cache
<1>2. /\ Kept(g, p) /\ j \in L /\ p.announced[j] = <<>> /\ j \notin g.ready
      /\ d \in Digest /\ d \notin Has(o) /\ (Apart(j) => (m <=> d \in Manifests(j)))
      /\ (m => <<j, d>> \in p.unread)
  BY DEF Takes, MayAcquire, MayTake
<1>3. /\ Typed(g) /\ Spare(g.cache) >= 0 /\ F \in [Digest -> Nat]
      /\ LiveRight(g, S) /\ WaitsRight(g, S, p.uploaded, p.clients, p.unlisted)
      /\ ReadsRight(g) /\ ReadersRight(g) /\ EntriesRight(g)
      /\ LayersRight(g, p.unread, p.unasked)
      /\ TellsRight(g, p.announced, p.completed, p.clients)
      /\ (~Overlap => HeldRight(g, F))
  BY <1>2 DEF Kept
<1>4. /\ j \in Job /\ g.job[j] # NoJob /\ DOMAIN o = {"st", "acquired", "being", "reading"}
      /\ o.acquired \in SUBSET Digest /\ o.being \in SUBSET (Digest \X BOOLEAN)
      /\ o.reading \in SUBSET Digest /\ o.st = "job"
  BY <1>2, <1>3, LiveJob
<1>5. /\ r \in JobRecord /\ r # NoJob /\ r.acquired = o.acquired \cup {d} /\ r.being = o.being
      /\ r.reading = o.reading
  BY <1>2, <1>4 DEF JobRecord, NoJob
<1> HIDE DEF r, o, c
<1>6. /\ h.cache = c /\ h.asked = g.asked /\ SameReads(g, h) /\ JobIsNow(g, j, r, h)
  BY <1>1, <1>3 DEF c, r, o, SameReads, JobIsNow, Typed
<1> HIDE <1>1
<1>7. /\ h.job \in [Job -> JobRecord] /\ LiveIn(h) = L /\ h.job[j] = r
      /\ \A k \in Job \ {j} : h.job[k] = g.job[k]
  BY <1>2, <1>3, <1>5, <1>6, JobChanged
<1>8. /\ CacheTyped(c) /\ Spare(c) = Spare(g.cache) /\ (CacheGood(g.cache) => CacheGood(c))
      /\ \A x \in Digest \ {d} : c.entry[x] = g.cache.entry[x]
      /\ g.cache.entry[d].st # "getting" /\ c.entry[d].st = "inUse"
      /\ \A N \in [Digest -> Nat] : Covers(g.cache, N) => Covers(c, More(N, d))
  BY <1>1 DEF GotFor, c
<1>9. L \subseteq Job /\ \A k \in L \ {j} : h.job[k] = g.job[k]
  BY <1>7 DEF LiveIn
<1>10. BeingAcquired(r) = BeingAcquired(o) /\ d \notin BeingAcquired(o) /\ d \notin o.acquired
       /\ Has(r) = Has(o) \cup {d}
  BY <1>2, <1>5 DEF BeingAcquired, Has
<1>11. Typed(h)
  BY <1>3, <1>6, <1>7, <1>8 DEF Typed, SameReads, JobIsNow
<1>12. LiveRight(h, S)
  <2>1. \A b \in r.being : b[1] \in BeingAcquired(o)
    BY <1>5 DEF BeingAcquired
  <2>2. QED
    BY <1>2, <1>3, <1>5, <1>7, <1>9, <1>10, <2>1 DEF LiveRight, o
<1>13. WaitsRight(h, S, p.uploaded, p.clients, p.unlisted)
  <2>1. \A k \in L : BeingAcquired(h.job[k]) = BeingAcquired(g.job[k])
    BY <1>7, <1>9, <1>10 DEF o
  <2>2. \A x \in Digest : g.cache.entry[x].st = "getting" \/ h.cache.entry[x].st = "getting"
          => h.cache.entry[x] = g.cache.entry[x]
    BY <1>6, <1>8
  <2>3. ASSUME NEW k \in LiveIn(h), Owner(k) \in p.clients, NEW x \in BeingAcquired(h.job[k])
        PROVE  <<x, k>> \in p.unlisted \/ Listed(h.cache.entry[x], k)
    <3>1. <<x, k>> \in p.unlisted \/ Listed(g.cache.entry[x], k)
      BY <1>3, <1>7, <2>1, <2>3 DEF WaitsRight
    <3>2. x \in Digest
      <4>1. h.job[k] \in JobRecord /\ h.job[k] # NoJob
        BY <1>7, <2>3 DEF LiveIn
      <4>2. QED
        BY <2>3, <4>1 DEF JobRecord, BeingAcquired
    <3>3. QED
      BY <2>2, <3>1, <3>2 DEF Listed
  <2>4. ASSUME NEW x \in Digest, h.cache.entry[x].st = "getting"
        PROVE  ListRight(h, S, p.uploaded, p.clients, x)
    <3>1. h.cache.entry[x] = g.cache.entry[x]
      BY <2>2, <2>4
    <3>2. ListRight(g, S, p.uploaded, p.clients, x)
      BY <1>3, <2>4, <3>1 DEF WaitsRight
    <3>3. QED
      BY <1>6, <1>7, <2>1, <3>1, <3>2 DEF ListRight
  <2>5. QED
    BY <2>3, <2>4 DEF WaitsRight
<1>14. \A k \in L : h.job[k].reading = g.job[k].reading
  BY <1>5, <1>7, <1>9 DEF o
<1>15. ReadsRight(h) /\ ReadersRight(h) /\ EntriesRight(h)
  BY <1>3, <1>6, <1>7, <1>14, ReadsStay
<1>16. LayersRight(h, p.unread, p.unasked)
  <2>1. \A k \in L : \A x : Seen(h, k, x) = Seen(g, k, x)
    BY <1>6, <1>14 DEF Seen, SameReads
  <2>2. \A k \in L : Has(g.job[k]) \subseteq Has(h.job[k])
    BY <1>7, <1>9, <1>10 DEF o
  <2>3. \A k \in L : h.job[k].being = g.job[k].being
    BY <1>5, <1>7, <1>9 DEF o
  <2>4. \A k \in L : Apart(k) => \A x \in Manifests(k) : x \in h.job[k].acquired =>
           x \in g.job[k].acquired \/ <<k, x>> \in p.unread
    BY <1>2, <1>5, <1>7, <1>9 DEF o
  <2>5. ASSUME NEW k \in L, Apart(k)
        PROVE  /\ \A l \in ToSet(Layers[k]) : <<k, l[1]>> \in p.unasked \/ l[1] \in Has(h.job[k])
               /\ \A b \in h.job[k].being : b[2] <=> b[1] \in Manifests(k)
               /\ \A x \in Manifests(k) : x \in h.job[k].acquired =>
                    <<k, x>> \in p.unread \/ Seen(h, k, x) \subseteq Has(h.job[k])
    <3>1. /\ \A l \in ToSet(Layers[k]) : <<k, l[1]>> \in p.unasked \/ l[1] \in Has(g.job[k])
          /\ \A b \in g.job[k].being : b[2] <=> b[1] \in Manifests(k)
          /\ \A x \in Manifests(k) : x \in g.job[k].acquired =>
               <<k, x>> \in p.unread \/ Seen(g, k, x) \subseteq Has(g.job[k])
      BY <1>3, <2>5 DEF LayersRight
    <3>2. QED
      BY <2>1, <2>2, <2>3, <2>4, <2>5, <3>1
  <2>6. QED
    BY <1>7, <2>5 DEF LayersRight
<1>17. TellsRight(h, p.announced, p.completed, p.clients)
  <2>1. ASSUME NEW k \in L, p.announced[k] = <<"ready">> \/ k \in g.ready
        PROVE  HaveAll(h.job[k])
    <3>1. k # j
      BY <1>2, <2>1, Told
    <3>2. HaveAll(g.job[k])
      BY <1>3, <2>1 DEF TellsRight
    <3>3. QED
      BY <1>9, <3>1, <3>2
  <2>2. QED
    BY <1>3, <1>6, <1>7, <2>1, TellsStay DEF JobIsNow
<1>18. ASSUME ~Overlap PROVE HeldRight(h, F)
  <2>1. ClaimsIn(h, F) = More(ClaimsIn(g, F), d)
    BY <1>2, <1>3, <1>5, <1>7, <1>9, <1>10, OneMoreClaim DEF o
  <2>2. ClaimsIn(g, F) \in [Digest -> Nat]
    BY <1>3, ClaimsTyped
  <2>3. HeldRight(g, F)
    BY <1>3, <1>18
  <2>4. QED
    BY <1>6, <1>8, <2>1, <2>2, <2>3 DEF HeldRight
<1>19. Kept(h, p)
  BY <1>2, <1>3, <1>6, <1>8, <1>11, <1>12, <1>13, <1>15, <1>16, <1>17, <1>18
  DEF Kept, JobIsNow
<1>a. \A x \in Digest : g.cache.entry[x].st = "inUse" => h.cache.entry[x].st = "inUse"
  BY <1>6, <1>8
<1>20. Acquiring(g, j, h)
  BY <1>5, <1>6, <1>7, <1>10, <1>a DEF Acquiring, Grows, JobIsNow, o
<1>21. QED
  BY <1>5, <1>7, <1>19, <1>20

\* j was made to wait for d, and its client was asked for it unless it had been.
Awaits(g, p, j, d, m, h) ==
  /\ MayAcquire(g, p, j, d, m) /\ d \notin Has(g.job[j])
  /\ \E got : \E w :
       /\ GotFor(g.cache, d, j, got) /\ got.result \in {"wait", "get"}
       /\ w = [g EXCEPT !.cache = got.cache, !.job[j].being = @ \cup {<<d, m>>}]
       /\ h = IF got.result = "wait" THEN w
              ELSE [w EXCEPT !.asked[<<Owner(j), d>>] = @ + 1]

\* Who waits for d after j has joined, from those who did before.
JoinedTo(q, G, c, d, j, b) ==
  /\ q \in Seq(Job) /\ G \in SUBSET Client
  /\ b.entry[d].st = "getting" /\ b.entry[d].jobs = Append(q, j)
  /\ b.entry[d].getters = G \cup {Owner(j)}
  /\ \/ c.entry[d].st = "absent" /\ q = <<>> /\ G = {}
     \/ c.entry[d].st = "getting" /\ q = c.entry[d].jobs /\ G = c.entry[d].getters

LEMMA JoinedWaits ==
  ASSUME NEW c, CacheTyped(c), NEW b, NEW d \in Digest, NEW j \in Job, Joined(c, d, j, b)
  PROVE  \E q, G : JoinedTo(q, G, c, d, j, b)
<1> DEFINE e == c.entry[d]
           f == b.entry[d]
<1>1. e \in Entry
  BY DEF CacheTyped
<1>2. Owner(j) \in Client
  BY GathererAssumption DEF Owner
<1>3. CASE e.st = "absent"
  <2>1. f = Getting(<<j>>, {Owner(j)})
    BY <1>3 DEF Joined
  <2>2. Append(<<>>, j) = <<j>> /\ <<>> \in Seq(Job) /\ {} \cup {Owner(j)} = {Owner(j)}
    OBVIOUS
  <2>3. f.st = "getting" /\ f.jobs = Append(<<>>, j) /\ f.getters = {} \cup {Owner(j)}
    BY <2>1, <2>2 DEF Getting
  <2>4. JoinedTo(<<>>, {}, c, d, j, b)
    BY <1>3, <2>2, <2>3 DEF JoinedTo
  <2>5. QED
    BY <2>4
<1>4. CASE e.st = "getting"
  <2> DEFINE q == e.jobs
             G == e.getters
  <2>1. q \in Seq(Job) /\ G \in SUBSET Client
    BY <1>1, <1>4, FormsOfEntry
  <2>2. f = Getting(Append(q, j), G \cup {Owner(j)})
    BY <1>4 DEF Joined
  <2>3. Append(q, j) \in Seq(Job) /\ G \cup {Owner(j)} \in SUBSET Client
    BY <1>2, <2>1
  <2>4. f.st = "getting" /\ f.jobs = Append(q, j) /\ f.getters = G \cup {Owner(j)}
    <3> HIDE DEF q, G
    <3>1. QED
      BY <2>2 DEF Getting
  <2>5. JoinedTo(q, G, c, d, j, b)
    BY <1>4, <2>1, <2>4 DEF JoinedTo
  <2>6. QED
    BY <2>5
<1>5. QED
  BY <1>3, <1>4 DEF Joined

LEMMA AwaitsIsRight ==
  ASSUME NEW g, NEW p, NEW j, NEW d, NEW m, NEW h, Awaits(g, p, j, d, m, h)
  PROVE  Kept(h, p) /\ Acquiring(g, j, h) /\ d \in Has(h.job[j])
<1> DEFINE o == g.job[j]
           r == [o EXCEPT !.being = @ \cup {<<d, m>>}]
           S == p.started
           L == LiveIn(g)
           F == p.fetching
           U == p.uploaded
           me == Owner(j)
<1>1. PICK got : \E w :
        /\ GotFor(g.cache, d, j, got) /\ got.result \in {"wait", "get"}
        /\ w = [g EXCEPT !.cache = got.cache, !.job[j].being = @ \cup {<<d, m>>}]
        /\ h = IF got.result = "wait" THEN w
               ELSE [w EXCEPT !.asked[<<Owner(j), d>>] = @ + 1]
  BY Zenon DEF Awaits
<1>2. PICK w :
        /\ GotFor(g.cache, d, j, got) /\ got.result \in {"wait", "get"}
        /\ w = [g EXCEPT !.cache = got.cache, !.job[j].being = @ \cup {<<d, m>>}]
        /\ h = IF got.result = "wait" THEN w
               ELSE [w EXCEPT !.asked[<<Owner(j), d>>] = @ + 1]
  BY Zenon, <1>1
<1> DEFINE c == got.cache
<1>3. /\ Kept(g, p) /\ j \in L /\ p.announced[j] = <<>> /\ j \notin g.ready
      /\ d \in Digest /\ m \in BOOLEAN /\ d \notin Has(o)
      /\ (Apart(j) => (m <=> d \in Manifests(j))) /\ me \in p.clients
  BY DEF Awaits, MayAcquire, MayTake
<1>4. /\ Typed(g) /\ Spare(g.cache) >= 0 /\ F \in [Digest -> Nat]
      /\ U \in [Client \X Digest -> Nat]
      /\ LiveRight(g, S) /\ WaitsRight(g, S, U, p.clients, p.unlisted)
      /\ ReadsRight(g) /\ ReadersRight(g) /\ EntriesRight(g)
      /\ LayersRight(g, p.unread, p.unasked)
      /\ TellsRight(g, p.announced, p.completed, p.clients)
      /\ (~Overlap => HeldRight(g, F))
  BY <1>3 DEF Kept
<1>5. /\ j \in Job /\ g.job[j] # NoJob /\ DOMAIN o = {"st", "acquired", "being", "reading"}
      /\ o.acquired \in SUBSET Digest /\ o.being \in SUBSET (Digest \X BOOLEAN)
      /\ o.reading \in SUBSET Digest /\ o.st = "job"
  BY <1>3, <1>4, LiveJob
<1>6. /\ r \in JobRecord /\ r # NoJob /\ r.acquired = o.acquired /\ r.being = o.being \cup {<<d, m>>}
      /\ r.reading = o.reading
  BY <1>3, <1>5 DEF JobRecord, NoJob
<1>7. me \in Client
  BY <1>5, GathererAssumption DEF Owner
<1> HIDE DEF r, o, c, me
<1>8. /\ w.cache = c /\ w.asked = g.asked /\ SameReads(g, w) /\ JobIsNow(g, j, r, w)
      /\ DOMAIN w = DOMAIN g
  BY <1>2, <1>4 DEF c, r, o, SameReads, JobIsNow, Typed
<1>9. /\ h.cache = c /\ SameReads(g, h) /\ JobIsNow(g, j, r, h)
      /\ h.asked = IF got.result = "wait" THEN g.asked
                   ELSE [g.asked EXCEPT ![<<me, d>>] = @ + 1]
  <2>1. CASE got.result = "wait"
    BY <1>2, <1>8, <2>1
  <2>2. CASE got.result # "wait"
    <3>1. h = [w EXCEPT !.asked[<<me, d>>] = @ + 1]
      BY <1>2, <2>2 DEF me
    <3>2. /\ h.cache = w.cache /\ h.asked = [w.asked EXCEPT ![<<me, d>>] = @ + 1]
          /\ SameReads(w, h) /\ DOMAIN h = DOMAIN w /\ h.job = w.job /\ h.ready = w.ready
          /\ h.failed = w.failed
      BY <1>4, <1>8, <3>1 DEF SameReads, Typed
    <3>3. QED
      BY <1>8, <2>2, <3>2 DEF SameReads, JobIsNow
  <2>3. QED
    BY <2>1, <2>2
<1>10. /\ h.asked \in [Client \X Digest -> Nat]
       /\ \A u \in Client \X Digest : h.asked[u] >= g.asked[u]
       /\ got.result = "get" => h.asked[<<me, d>>] > 0
  <2>1. g.asked \in [Client \X Digest -> Nat] /\ <<me, d>> \in Client \X Digest
    BY <1>3, <1>4, <1>7 DEF Typed
  <2>2. QED
    BY <1>9, <2>1
<1>11. /\ h.job \in [Job -> JobRecord] /\ LiveIn(h) = L /\ h.job[j] = r
       /\ \A k \in Job \ {j} : h.job[k] = g.job[k]
  BY <1>3, <1>4, <1>6, <1>9, JobChanged
<1>12. /\ CacheTyped(c) /\ Spare(c) = Spare(g.cache) /\ (CacheGood(g.cache) => CacheGood(c))
       /\ \A x \in Digest \ {d} : c.entry[x] = g.cache.entry[x]
       /\ Joined(g.cache, d, j, c)
       /\ got.result = "wait" => g.cache.entry[d].st = "getting" /\ me \in g.cache.entry[d].getters
       /\ \A N \in [Digest -> Nat] : Covers(g.cache, N) => Covers(c, N)
  <2>1. GotFor(g.cache, d, j, got) /\ got.result # "success"
    BY <1>2
  <2>2. QED
    BY <2>1 DEF GotFor, c, me
<1> HIDE <1>1, <1>2
<1>13. L \subseteq Job /\ \A k \in L \ {j} : h.job[k] = g.job[k]
  BY <1>11 DEF LiveIn
<1>14. BeingAcquired(r) = BeingAcquired(o) \cup {d} /\ d \notin BeingAcquired(o)
       /\ d \notin o.acquired /\ Has(r) = Has(o) \cup {d}
  <2>1. \A x : x \in BeingAcquired(r) <=> \E b \in r.being : b[1] = x
    BY DEF BeingAcquired
  <2>2. \A x : x \in BeingAcquired(o) <=> \E b \in o.being : b[1] = x
    BY DEF BeingAcquired
  <2>3. \A x : x \in BeingAcquired(r) <=> x \in BeingAcquired(o) \/ x = d
    <3>1. <<d, m>>[1] = d
      OBVIOUS
    <3>2. QED
      BY <1>6, <2>1, <2>2, <3>1
  <2>4. QED
    BY <1>3, <1>6, <2>3 DEF Has
<1>15. Typed(h)
  BY <1>4, <1>9, <1>10, <1>11, <1>12 DEF Typed, SameReads, JobIsNow
<1>16. LiveRight(h, S)
  <2>1. \A b \in o.being : b[1] \in BeingAcquired(o) /\ b[1] # d
    BY <1>14 DEF BeingAcquired
  <2>2. <<d, m>>[1] = d
    OBVIOUS
  <2>3. ASSUME NEW b \in r.being
        PROVE  b[1] \notin r.acquired /\ \A x \in r.being : x[1] = b[1] => x = b
    <3>1. \A x \in o.being : x[1] \notin o.acquired /\ \A y \in o.being : y[1] = x[1] => y = x
      BY <1>3, <1>4 DEF LiveRight, o
    <3>2. QED
      BY <1>6, <1>14, <2>1, <2>2, <3>1
  <2>4. QED
    BY <1>4, <1>11, <1>13, <2>3 DEF LiveRight
<1>17. WaitsRight(h, S, U, p.clients, p.unlisted)
  <2>14. \E q, G : JoinedTo(q, G, g.cache, d, j, c)
    <3> DEFINE a == g.cache
    <3>1. CacheTyped(a) /\ Joined(a, d, j, c)
      BY <1>4, <1>12 DEF Typed
    <3> HIDE DEF a
    <3>2. \E q, G : JoinedTo(q, G, a, d, j, c)
      BY <1>3, <1>5, <3>1, JoinedWaits
    <3>3. QED
      BY <3>2 DEF a
  <2>1. PICK q \in Seq(Job), G \in SUBSET Client :
          /\ c.entry[d].st = "getting" /\ c.entry[d].jobs = Append(q, j)
          /\ c.entry[d].getters = G \cup {me}
          /\ \/ g.cache.entry[d].st = "absent" /\ q = <<>> /\ G = {}
             \/ g.cache.entry[d].st = "getting" /\ q = g.cache.entry[d].jobs
                /\ G = g.cache.entry[d].getters
    BY <2>14 DEF JoinedTo, me
  <2>2. /\ G \subseteq p.clients /\ \A x \in G : g.asked[<<x, d>>] + U[<<x, d>>] > 0
        /\ \A i \in 1 .. Len(q) :
             /\ q[i] \in S /\ Owner(q[i]) \in G
             /\ q[i] \in L => d \in BeingAcquired(g.job[q[i]])
    <3>1. CASE q = <<>> /\ G = {}
      <4>1. 1 .. Len(q) = {}
        BY <3>1
      <4>2. QED
        BY <3>1, <4>1
    <3>2. CASE g.cache.entry[d].st = "getting" /\ q = g.cache.entry[d].jobs
               /\ G = g.cache.entry[d].getters
      <4>1. ListRight(g, S, U, p.clients, d)
        BY <1>3, <1>4, <3>2 DEF WaitsRight
      <4>2. DOMAIN q = 1 .. Len(q)
        OBVIOUS
      <4>3. QED
        BY <3>2, <4>1, <4>2 DEF ListRight
    <3>3. QED
      BY <2>1, <3>1, <3>2
  <2>3. \A i \in 1 .. Len(q) : q[i] # j
    BY <1>3, <1>14, <2>2 DEF o
  <2> DEFINE Q == Append(q, j)
  <2>4. /\ Q \in Seq(Job) /\ DOMAIN Q = 1 .. Len(q) + 1 /\ Q[Len(q) + 1] = j
        /\ \A i \in 1 .. Len(q) : Q[i] = q[i]
        /\ \A i \in DOMAIN Q : i \in 1 .. Len(q) \/ i = Len(q) + 1
    BY <1>5
  <2>5. /\ \A k : k # j /\ Once(q, Len(q), k) => Once(Q, Len(Q), k)
        /\ Once(Q, Len(Q), j)
    BY <1>5, <2>3, OnceMore
  <2> HIDE DEF Q
  <2>6. \A k : Listed(c.entry[d], k) <=> Once(Q, Len(Q), k)
    <3> DEFINE f == c.entry[d]
    <3>1. f.st = "getting" /\ f.jobs = Q
      BY <2>1 DEF Q
    <3> HIDE DEF f
    <3>2. \A k : Listed(f, k) <=> Once(Q, Len(Q), k)
      BY <2>4, <3>1, ListedOnce
    <3>3. QED
      BY <3>2 DEF f
  <2>7. \A k : Listed(g.cache.entry[d], k) => Once(q, Len(q), k)
    <3>1. CASE g.cache.entry[d].st = "absent"
      BY <3>1 DEF Listed
    <3>2. CASE g.cache.entry[d].st = "getting" /\ q = g.cache.entry[d].jobs
      BY <3>2, ListedOnce
    <3>3. QED
      BY <2>1, <3>1, <3>2
  <2>8. ASSUME NEW k \in L, Owner(k) \in p.clients, NEW x \in BeingAcquired(h.job[k])
        PROVE  <<x, k>> \in p.unlisted \/ Listed(c.entry[x], k)
    <3>1. x \in Digest
      <4>1. h.job[k] \in JobRecord /\ h.job[k] # NoJob
        BY <1>11, <2>8 DEF LiveIn
      <4>2. QED
        BY <2>8, <4>1 DEF JobRecord, BeingAcquired
    <3>2. CASE k = j /\ x = d
      BY <2>5, <2>6, <3>2
    <3>3. CASE ~(k = j /\ x = d)
      <4>1. x \in BeingAcquired(g.job[k])
        BY <1>11, <1>13, <1>14, <2>8, <3>3 DEF o
      <4>2. <<x, k>> \in p.unlisted \/ Listed(g.cache.entry[x], k)
        BY <1>4, <2>8, <4>1 DEF WaitsRight
      <4>3. CASE x = d
        BY <2>5, <2>6, <2>7, <3>3, <4>2, <4>3
      <4>4. CASE x # d
        BY <1>12, <3>1, <4>2, <4>4
      <4>5. QED
        BY <4>3, <4>4
    <3>4. QED
      BY <3>2, <3>3
  <2>9. ASSUME NEW x \in Digest, c.entry[x].st = "getting"
        PROVE  ListRight(h, S, U, p.clients, x)
    <3>1. ASSUME NEW y, y \in Client, g.asked[<<y, x>>] + U[<<y, x>>] > 0
          PROVE  h.asked[<<y, x>>] + U[<<y, x>>] > 0
      <4>1. <<y, x>> \in Client \X Digest
        BY <3>1
      <4>2. /\ h.asked[<<y, x>>] \in Nat /\ g.asked[<<y, x>>] \in Nat /\ U[<<y, x>>] \in Nat
            /\ h.asked[<<y, x>>] >= g.asked[<<y, x>>]
        BY <1>4, <1>10, <4>1 DEF Typed
      <4>3. QED
        BY <3>1, <4>2
    <3>2. \A k \in L : BeingAcquired(g.job[k]) \subseteq BeingAcquired(h.job[k])
      BY <1>11, <1>13, <1>14 DEF o
    <3>3. CASE x = d
      <4>1. h.asked[<<me, d>>] + U[<<me, d>>] > 0
        <5>1. CASE got.result = "wait"
          <6>1. me \in G
            BY <1>12, <2>1, <5>1
          <6>2. QED
            BY <1>7, <2>2, <3>1, <3>3, <6>1
        <5>2. CASE got.result # "wait"
          <6>1. /\ h.asked[<<me, d>>] \in Nat /\ h.asked[<<me, d>>] > 0 /\ U[<<me, d>>] \in Nat
            <7>1. <<me, d>> \in Client \X Digest
              BY <1>3, <1>7
            <7>2. got.result = "get"
              BY <1>1, <5>2
            <7>3. QED
              BY <1>4, <1>10, <7>1, <7>2
          <6>2. QED
            BY <6>1
        <5>3. QED
          BY <5>1, <5>2
      <4>2. \A y \in G \cup {me} : h.asked[<<y, d>>] + U[<<y, d>>] > 0
        BY <2>2, <3>1, <3>3, <4>1
      <4>3. G \cup {me} \subseteq p.clients
        BY <1>3, <2>2
      <4>4. j \in S /\ d \in BeingAcquired(h.job[j])
        BY <1>3, <1>4, <1>11, <1>14 DEF LiveRight
      <4>5. ASSUME NEW i \in DOMAIN Q
            PROVE  /\ Q[i] \in S /\ Owner(Q[i]) \in G \cup {me}
                   /\ Q[i] \in L => d \in BeingAcquired(h.job[Q[i]])
        <5>1. CASE i \in 1 .. Len(q)
          <6>1. Q[i] = q[i]
            BY <2>4, <5>1
          <6>2. /\ q[i] \in S /\ Owner(q[i]) \in G
                /\ q[i] \in L => d \in BeingAcquired(g.job[q[i]])
            BY <2>2, <5>1
          <6>3. QED
            BY <3>2, <6>1, <6>2
        <5>2. CASE i = Len(q) + 1
          BY <2>4, <4>4, <5>2 DEF me
        <5>3. QED
          BY <2>4, <4>5, <5>1, <5>2
      <4>6. c.entry[d].jobs = Q
        BY <2>1 DEF Q
      <4>7. ListRight(h, S, U, p.clients, d)
        BY <1>9, <1>11, <2>1, <4>2, <4>3, <4>5, <4>6 DEF ListRight
      <4>8. QED
        BY <3>3, <4>7
    <3>4. CASE x # d
      <4>1. c.entry[x] = g.cache.entry[x]
        BY <1>12, <3>4
      <4>2. ListRight(g, S, U, p.clients, x)
        BY <1>4, <2>9, <4>1 DEF WaitsRight
      <4>3. c.entry[x].getters \in SUBSET Client
        BY <1>12, <2>9, FormsOfEntry DEF CacheTyped
      <4>4. QED
        BY <1>9, <1>11, <3>1, <3>2, <4>1, <4>2, <4>3 DEF ListRight
    <3>5. QED
      BY <3>3, <3>4
  <2>10. QED
    BY <1>9, <1>11, <2>8, <2>9 DEF WaitsRight
<1>18. \A k \in L : h.job[k].reading = g.job[k].reading
  BY <1>6, <1>11, <1>13 DEF o
<1>19. ReadsRight(h) /\ ReadersRight(h) /\ EntriesRight(h)
  BY <1>4, <1>9, <1>11, <1>18, ReadsStay
<1>20. LayersRight(h, p.unread, p.unasked)
  <2>1. \A k \in L : \A x : Seen(h, k, x) = Seen(g, k, x)
    BY <1>9, <1>18 DEF Seen, SameReads
  <2>2. \A k \in L : Has(g.job[k]) \subseteq Has(h.job[k])
    BY <1>11, <1>13, <1>14 DEF o
  <2>3. \A k \in L : h.job[k].acquired = g.job[k].acquired
    BY <1>6, <1>11, <1>13 DEF o
  <2>4. \A k \in L : \A b \in h.job[k].being : b \in g.job[k].being \/ (k = j /\ b = <<d, m>>)
    BY <1>6, <1>11, <1>13 DEF o
  <2>5. <<d, m>>[1] = d /\ <<d, m>>[2] = m
    OBVIOUS
  <2>6. ASSUME NEW k \in L, Apart(k)
        PROVE  /\ \A l \in ToSet(Layers[k]) : <<k, l[1]>> \in p.unasked \/ l[1] \in Has(h.job[k])
               /\ \A b \in h.job[k].being : b[2] <=> b[1] \in Manifests(k)
               /\ \A x \in Manifests(k) : x \in h.job[k].acquired =>
                    <<k, x>> \in p.unread \/ Seen(h, k, x) \subseteq Has(h.job[k])
    <3>1. /\ \A l \in ToSet(Layers[k]) : <<k, l[1]>> \in p.unasked \/ l[1] \in Has(g.job[k])
          /\ \A b \in g.job[k].being : b[2] <=> b[1] \in Manifests(k)
          /\ \A x \in Manifests(k) : x \in g.job[k].acquired =>
               <<k, x>> \in p.unread \/ Seen(g, k, x) \subseteq Has(g.job[k])
      BY <1>4, <2>6 DEF LayersRight
    <3>2. \A b \in h.job[k].being : b[2] <=> b[1] \in Manifests(k)
      <4>1. ASSUME NEW b \in h.job[k].being PROVE b[2] <=> b[1] \in Manifests(k)
        <5>1. CASE b \in g.job[k].being
          BY <3>1, <5>1
        <5>2. CASE k = j /\ b = <<d, m>>
          BY <1>3, <2>5, <2>6, <5>2
        <5>3. QED
          BY <2>4, <5>1, <5>2
      <4>2. QED
        BY <4>1
    <3>3. QED
      BY <2>1, <2>2, <2>3, <3>1, <3>2
  <2>7. QED
    BY <1>11, <2>6 DEF LayersRight
<1>21. TellsRight(h, p.announced, p.completed, p.clients)
  <2>1. ASSUME NEW k \in L, p.announced[k] = <<"ready">> \/ k \in g.ready
        PROVE  HaveAll(h.job[k])
    <3>1. k # j
      BY <1>3, <2>1, Told
    <3>2. HaveAll(g.job[k])
      BY <1>4, <2>1 DEF TellsRight
    <3>3. QED
      BY <1>13, <3>1, <3>2
  <2>2. QED
    BY <1>4, <1>9, <1>11, <2>1, TellsStay DEF JobIsNow
<1>22. ASSUME ~Overlap PROVE HeldRight(h, F)
  <2>1. \A k \in L : h.job[k].acquired = g.job[k].acquired
    BY <1>6, <1>11, <1>13 DEF o
  <2>2. ClaimsIn(h, F) = ClaimsIn(g, F)
    BY <1>11, <2>1, SameClaims
  <2>3. ClaimsIn(g, F) \in [Digest -> Nat]
    BY <1>4, ClaimsTyped
  <2>4. HeldRight(g, F)
    BY <1>4, <1>22
  <2>5. QED
    BY <1>9, <1>12, <2>2, <2>3, <2>4 DEF HeldRight
<1>23. Kept(h, p)
  BY <1>3, <1>4, <1>9, <1>12, <1>15, <1>16, <1>17, <1>19, <1>20, <1>21, <1>22
  DEF Kept, JobIsNow
<1>a. \A x \in Digest : g.cache.entry[x].st = "inUse" => h.cache.entry[x].st = "inUse"
  <2>1. /\ \A x \in Digest \ {d} : c.entry[x] = g.cache.entry[x]
        /\ g.cache.entry[d].st \in {"absent", "getting"}
    BY <1>2 DEF GotFor, Joined, c
  <2>2. QED
    BY <1>9, <2>1
<1>24. Acquiring(g, j, h)
  BY <1>6, <1>9, <1>11, <1>14, <1>18, <1>3, <1>a DEF Acquiring, Grows, JobIsNow, o
<1>25. QED
  BY <1>11, <1>14, <1>23, <1>24

LEMMA StartAcquiringIsRight ==
  ASSUME NEW g, NEW p, NEW j, NEW d, NEW m, MayAcquire(g, p, j, d, m)
  PROVE  /\ Kept(StartAcquiring(g, j, d, m), p) /\ Acquiring(g, j, StartAcquiring(g, j, d, m))
         /\ d \in Has(StartAcquiring(g, j, d, m).job[j])
<1> DEFINE h == StartAcquiring(g, j, d, m)
           c == g.cache
           got == GetArtifact(c, d, j)
<1>1. Kept(g, p) /\ Typed(g) /\ j \in LiveIn(g) /\ d \in Digest
  BY DEF MayAcquire, MayTake, Kept
<1>2. j \in Job /\ CacheTyped(c)
  BY <1>1 DEF LiveIn, Typed
<1>3. GotFor(c, d, j, got)
  <2> HIDE DEF c
  <2>1. QED
    BY <1>1, <1>2, GetIsRight
<1>4. CASE d \in Has(g.job[j])
  <2>1. h = g
    BY <1>4 DEF StartAcquiring, Has
  <2>2. Acquiring(g, j, g)
    BY DEF Acquiring, Grows, SameReads
  <2>3. QED
    BY <1>1, <1>4, <2>1, <2>2
<1>5. CASE d \notin Has(g.job[j]) /\ got.result = "success"
  <2>1. h = [g EXCEPT !.cache = got.cache, !.job[j].acquired = @ \cup {d}]
    BY <1>5 DEF StartAcquiring, Has
  <2>2. Takes(g, p, j, d, m, h)
    BY <1>3, <1>5, <2>1, Zenon DEF Takes
  <2> HIDE DEF h
  <2>3. Kept(h, p) /\ Acquiring(g, j, h) /\ d \in h.job[j].acquired
    BY <2>2, TakesIsRight
  <2>4. QED
    BY <2>3 DEF Has, h
<1>6. CASE d \notin Has(g.job[j]) /\ got.result # "success"
  <2> DEFINE w == [g EXCEPT !.cache = got.cache, !.job[j].being = @ \cup {<<d, m>>}]
  <2>1. got.result \in {"wait", "get"}
    BY <1>3, <1>6 DEF GotFor
  <2>2. h = IF got.result = "wait" THEN w ELSE [w EXCEPT !.asked[<<Owner(j), d>>] = @ + 1]
    <3>1. d \notin g.job[j].acquired \cup BeingAcquired(g.job[j])
      BY <1>6 DEF Has
    <3>2. CASE got.result = "wait"
      BY <3>1, <3>2 DEF StartAcquiring
    <3>3. CASE got.result = "get"
      BY <3>1, <3>3 DEF StartAcquiring
    <3>4. QED
      BY <2>1, <3>2, <3>3
  <2>3. Awaits(g, p, j, d, m, h)
    <3> HIDE DEF h
    <3>1. QED
      BY <1>3, <1>6, <2>1, <2>2, Zenon DEF Awaits
  <2> HIDE DEF h
  <2>4. Kept(h, p) /\ Acquiring(g, j, h) /\ d \in Has(h.job[j])
    BY <2>3, AwaitsIsRight
  <2>5. QED
    BY <2>4 DEF h
<1>7. QED
  BY <1>4, <1>5, <1>6

LEMMA AcquiresOnly ==
  ASSUME NEW g, Typed(g), NEW j \in LiveIn(g), NEW d \in Digest, NEW m
  PROVE  StartAcquiring(g, j, d, m).job[j].acquired \subseteq g.job[j].acquired \cup {d}
<1> DEFINE h == StartAcquiring(g, j, d, m)
           c == g.cache
           got == GetArtifact(c, d, j)
           r == g.job[j]
<1>1. /\ j \in Job /\ CacheTyped(c) /\ g.job \in [Job -> JobRecord]
      /\ DOMAIN g = {"cache", "job", "reads", "known", "waiting", "inProgress", "asked",
                     "reader", "ready", "failed"}
      /\ DOMAIN r = {"st", "acquired", "being", "reading"}
  <2>1. r \in [st : {"job"}, acquired : SUBSET Digest,
               being : SUBSET (Digest \X BOOLEAN), reading : SUBSET Digest]
    BY LiveJob
  <2>2. QED
    BY <2>1 DEF Typed, LiveIn
<1>2. got.result \in {"success", "wait", "get"}
  <2>1. GotFor(c, d, j, got)
    <3> HIDE DEF c
    <3>1. QED
      BY <1>1, GetIsRight
  <2>2. QED
    BY <2>1 DEF GotFor
<1>3. CASE d \in r.acquired \cup BeingAcquired(r)
  BY <1>3 DEF StartAcquiring
<1>4. CASE d \notin r.acquired \cup BeingAcquired(r)
  <2> DEFINE b == [g EXCEPT !.cache = got.cache]
             w == [b EXCEPT !.job[j].being = @ \cup {<<d, m>>}]
  <2>1. CASE got.result = "success"
    <3>1. h = [b EXCEPT !.job[j].acquired = @ \cup {d}]
      BY <1>4, <2>1 DEF StartAcquiring
    <3>2. QED
      BY <1>1, <3>1
  <2>2. CASE got.result = "wait"
    <3>1. h = w
      BY <1>4, <2>2 DEF StartAcquiring
    <3>2. QED
      BY <1>1, <3>1
  <2>3. CASE got.result = "get"
    <3>1. h = [w EXCEPT !.asked[<<Owner(j), d>>] = @ + 1]
      BY <1>4, <2>3 DEF StartAcquiring
    <3>2. QED
      BY <1>1, <3>1
  <2>4. QED
    BY <1>2, <2>1, <2>2, <2>3
<1>5. QED
  BY <1>3, <1>4

LEMMA GrowsOn ==
  ASSUME NEW g, NEW j, NEW h, NEW k, Grows(g, j, h), Grows(h, j, k)
  PROVE  Grows(g, j, k)
BY DEF Grows

LEMMA AcquiringOn ==
  ASSUME NEW g, NEW j, NEW h, NEW k, Acquiring(g, j, h), Acquiring(h, j, k)
  PROVE  Acquiring(g, j, k)
<1>1. Grows(g, j, k)
  BY GrowsOn DEF Acquiring
<1>2. QED
  BY <1>1 DEF Acquiring, SameReads

\* The job may still be given more.
LEMMA MayTakeOn ==
  ASSUME NEW g, NEW p, NEW j, NEW h, MayTake(g, p, j), Grows(g, j, h), Kept(h, p)
  PROVE  MayTake(h, p, j)
BY DEF MayTake, Grows

EntryStep(p, o, h, d) == StartAcquiring(h, p, d, FALSE)
EntryInv(r, n, h) ==
  /\ Kept(h, r.around) /\ Acquiring(r.from, r.job, h)
  /\ \A i \in 1 .. n : r.list[i] \in Has(h.job[r.job])
Takings == INSTANCE FoldTheorems WITH Op <- EntryStep, Inv <- EntryInv

LEMMA AcquireFold ==
  ASSUME NEW g, NEW j, NEW D
  PROVE  AcquireEntries(g, j, D) = Takings!Fold(j, 0, g, SetToSeq(D))
BY DEF AcquireEntries, Takings!Fold, EntryStep, FoldLeft, MapThenFoldSet, Max,
       Takings!Greatest

LEMMA AcquireEntriesIsRight ==
  ASSUME NEW g, NEW p, NEW j, MayTake(g, p, j), NEW D \in SUBSET Digest,
         Apart(j) => D \cap Manifests(j) = {}
  PROVE  /\ Kept(AcquireEntries(g, j, D), p) /\ Acquiring(g, j, AcquireEntries(g, j, D))
         /\ D \subseteq Has(AcquireEntries(g, j, D).job[j])
<1> DEFINE q == SetToSeq(D)
           r == [around |-> p, from |-> g, job |-> j, list |-> q]
           e == Takings!Fold(j, 0, g, q)
<1>1. q \in Seq(D) /\ ToSet(q) = D
  <2>1. IsFiniteSet(D)
    BY GathererAssumption, FS_Subset
  <2>2. QED
    BY <2>1, SetInOrder
<1>2. r.around = p /\ r.from = g /\ r.job = j /\ r.list = q
  OBVIOUS
<1>3. e = AcquireEntries(g, j, D)
  BY AcquireFold
<1> HIDE DEF q, r
<1>4. EntryInv(r, 0, g)
  <2>1. Acquiring(g, j, g)
    BY DEF Acquiring, Grows, SameReads
  <2>2. \A i \in 1 .. 0 : FALSE
    OBVIOUS
  <2>3. QED
    BY <1>2, <2>1, <2>2 DEF EntryInv, MayTake
<1>5. ASSUME NEW a, NEW n \in 1 .. Len(q), q[n] \in D, EntryInv(r, n - 1, a)
      PROVE  EntryInv(r, n, EntryStep(j, 0, a, q[n]))
  <2> DEFINE d == q[n]
             b == StartAcquiring(a, j, d, FALSE)
  <2>1. Kept(a, p) /\ Acquiring(g, j, a) /\ \A i \in 1 .. n - 1 : q[i] \in Has(a.job[j])
    BY <1>2, <1>5 DEF EntryInv
  <2>2. MayTake(a, p, j)
    BY <2>1, MayTakeOn DEF Acquiring
  <2>3. MayAcquire(a, p, j, d, FALSE)
    BY <1>5, <2>2 DEF MayAcquire
  <2>4. Kept(b, p) /\ Acquiring(a, j, b) /\ d \in Has(b.job[j])
    BY <2>3, StartAcquiringIsRight
  <2> HIDE DEF b
  <2>5. Acquiring(g, j, b)
    BY <2>1, <2>4, AcquiringOn
  <2>6. \A i \in 1 .. n : i \in 1 .. n - 1 \/ i = n
    OBVIOUS
  <2>7. \A i \in 1 .. n : q[i] \in Has(b.job[j])
    BY <2>1, <2>4, <2>6 DEF Acquiring, Grows
  <2>8. EntryInv(r, n, b)
    BY <1>2, <2>4, <2>5, <2>7 DEF EntryInv
  <2>9. QED
    BY <2>8 DEF EntryStep, b
<1>6. EntryInv(r, Len(q), e)
  BY <1>1, <1>4, <1>5, LeastOf, Takings!FoldKeeps
<1> HIDE DEF e
<1>7. Kept(e, p) /\ Acquiring(g, j, e) /\ \A i \in 1 .. Len(q) : q[i] \in Has(e.job[j])
  BY <1>2, <1>6 DEF EntryInv
<1>8. D \subseteq Has(e.job[j])
  BY <1>1, <1>7, InSequence
<1>9. QED
  BY <1>3, <1>7, <1>8

-----------------------------------------------------------------------------
(***************************************************************************)
(* Reading a manifest for a job.                                           *)
(***************************************************************************)
JobsOf(g, d) == IF g.reads[d] = NoRead THEN {} ELSE g.reads[d].jobs
EntriesOf(g, d) == IF g.reads[d] = NoRead THEN {} ELSE g.reads[d].entries

\* j has become one of those who read d.
Reads(g, p, j, d, h) ==
  /\ MayTake(g, p, j) /\ d \in Digest /\ <<j, d>> \in p.unread
  /\ Apart(j) => d \in Manifests(j)
  /\ JobIsNow(g, j, [g.job[j] EXCEPT !.reading = @ \cup {d}], h)
  /\ h.cache = g.cache /\ h.asked = g.asked /\ h.known = g.known
  /\ h.reads = [g.reads EXCEPT ![d] = [st |-> "read", jobs |-> JobsOf(g, d) \cup {j},
                                       entries |-> EntriesOf(g, d)]]
  /\ h.waiting \in Seq(Digest) /\ h.inProgress \in Nat /\ h.reader \in [Digest -> ReaderRecord]
  /\ ReadersRight(h) /\ EntriesRight(h)

LEMMA LiveStays ==
  ASSUME NEW g, NEW S, LiveRight(g, S), NEW h, LiveIn(h) = LiveIn(g),
         \A k \in LiveIn(g) : h.job[k].being = g.job[k].being
                              /\ h.job[k].acquired = g.job[k].acquired
  PROVE  LiveRight(h, S)
BY DEF LiveRight

LEMMA WaitsStay ==
  ASSUME NEW g, Typed(g), NEW S, NEW U, NEW C, NEW E, WaitsRight(g, S, U, C, E),
         NEW h, LiveIn(h) = LiveIn(g), h.asked = g.asked,
         \A k \in LiveIn(g) : h.job[k].being = g.job[k].being,
         SameWaits(g.cache, h.cache)
  PROVE  WaitsRight(h, S, U, C, E)
<1>1. \A k \in LiveIn(g) : BeingAcquired(h.job[k]) = BeingAcquired(g.job[k])
  BY DEF BeingAcquired
<1>2. ASSUME NEW k \in LiveIn(h), Owner(k) \in C, NEW x \in BeingAcquired(h.job[k])
      PROVE  <<x, k>> \in E \/ Listed(h.cache.entry[x], k)
  <2>1. <<x, k>> \in E \/ Listed(g.cache.entry[x], k)
    BY <1>1, <1>2 DEF WaitsRight
  <2>2. x \in Digest
    <3>1. g.job[k] \in [st : {"job"}, acquired : SUBSET Digest,
                        being : SUBSET (Digest \X BOOLEAN), reading : SUBSET Digest]
      BY <1>2, LiveJob
    <3>2. QED
      BY <1>1, <1>2, <3>1 DEF BeingAcquired
  <2>3. QED
    BY <2>1, <2>2 DEF Listed, SameWaits
<1>3. ASSUME NEW x \in Digest, h.cache.entry[x].st = "getting"
      PROVE  ListRight(h, S, U, C, x)
  <2>1. h.cache.entry[x] = g.cache.entry[x]
    BY <1>3 DEF SameWaits
  <2>2. ListRight(g, S, U, C, x)
    BY <1>3, <2>1 DEF WaitsRight
  <2>3. QED
    BY <1>1, <2>1, <2>2 DEF ListRight
<1>4. QED
  BY <1>2, <1>3 DEF WaitsRight

LEMMA ReadsIsRight ==
  ASSUME NEW g, NEW p, NEW j, NEW d, NEW h, Reads(g, p, j, d, h)
  PROVE  /\ Kept(h, p) /\ Grows(g, j, h)
         /\ d \in h.job[j].reading /\ h.reads[d] # NoRead /\ h.reads[d].entries = EntriesOf(g, d)
<1> DEFINE o == g.job[j]
           r == [o EXCEPT !.reading = @ \cup {d}]
           S == p.started
           L == LiveIn(g)
           F == p.fetching
           J == JobsOf(g, d)
           E == EntriesOf(g, d)
           rd == [st |-> "read", jobs |-> J \cup {j}, entries |-> E]
<1>1. /\ Kept(g, p) /\ j \in L /\ p.announced[j] = <<>> /\ j \notin g.ready
      /\ d \in Digest /\ <<j, d>> \in p.unread /\ (Apart(j) => d \in Manifests(j))
      /\ JobIsNow(g, j, r, h) /\ h.cache = g.cache /\ h.asked = g.asked /\ h.known = g.known
      /\ h.reads = [g.reads EXCEPT ![d] = rd]
      /\ h.waiting \in Seq(Digest) /\ h.inProgress \in Nat /\ h.reader \in [Digest -> ReaderRecord]
      /\ ReadersRight(h) /\ EntriesRight(h)
  BY DEF Reads, MayTake
<1>2. /\ Typed(g) /\ F \in [Digest -> Nat]
      /\ LiveRight(g, S) /\ WaitsRight(g, S, p.uploaded, p.clients, p.unlisted)
      /\ ReadsRight(g) /\ LayersRight(g, p.unread, p.unasked)
      /\ TellsRight(g, p.announced, p.completed, p.clients)
      /\ (~Overlap => HeldRight(g, F))
  BY <1>1 DEF Kept
<1>3. /\ j \in Job /\ g.job[j] # NoJob /\ DOMAIN o = {"st", "acquired", "being", "reading"}
      /\ o.acquired \in SUBSET Digest /\ o.being \in SUBSET (Digest \X BOOLEAN)
      /\ o.reading \in SUBSET Digest /\ o.st = "job"
  BY <1>1, <1>2, LiveJob
<1>4. /\ r \in JobRecord /\ r # NoJob /\ r.acquired = o.acquired /\ r.being = o.being
      /\ r.reading = o.reading \cup {d}
  BY <1>1, <1>3 DEF JobRecord, NoJob
<1>5. /\ g.reads \in [Digest -> ReadRecord] /\ g.reads[d] \in ReadRecord
  BY <1>1, <1>2 DEF Typed
<1>6. J \in SUBSET Job /\ E \in SUBSET Digest
  BY <1>5 DEF ReadRecord, JobsOf, EntriesOf
<1>7. rd \in ReadRecord /\ rd # NoRead /\ rd.jobs = J \cup {j} /\ rd.entries = E
  BY <1>3, <1>6 DEF ReadRecord, NoRead
<1> HIDE DEF r, o, rd, J, E
<1>8. /\ h.reads \in [Digest -> ReadRecord] /\ h.reads[d] = rd
      /\ \A x \in Digest \ {d} : h.reads[x] = g.reads[x]
  BY <1>1, <1>5, <1>7
<1>9. /\ h.job \in [Job -> JobRecord] /\ LiveIn(h) = L /\ h.job[j] = r
      /\ \A k \in Job \ {j} : h.job[k] = g.job[k]
  BY <1>1, <1>2, <1>4, JobChanged
<1>10. L \subseteq Job /\ \A k \in L \ {j} : h.job[k] = g.job[k]
  BY <1>9 DEF LiveIn
<1>11. Typed(h)
  BY <1>1, <1>2, <1>8, <1>9 DEF Typed, JobIsNow
<1>12. \A k \in L : h.job[k].being = g.job[k].being /\ h.job[k].acquired = g.job[k].acquired
  BY <1>4, <1>9, <1>10 DEF o
<1>13. LiveRight(h, S)
  BY <1>2, <1>9, <1>12, LiveStays
<1>14. WaitsRight(h, S, p.uploaded, p.clients, p.unlisted)
  <2>1. SameWaits(g.cache, h.cache)
    BY <1>1 DEF SameWaits
  <2>2. QED
    BY <1>1, <1>2, <1>9, <1>12, <2>1, WaitsStay
<1>15. ReadsRight(h)
  <2>1. ASSUME NEW k \in Job, NEW x \in Digest
        PROVE  (k \in LiveIn(h) /\ x \in h.job[k].reading) <=> (h.reads[x] # NoRead /\ k \in h.reads[x].jobs)
    <3>1. (k \in L /\ x \in g.job[k].reading) <=> (g.reads[x] # NoRead /\ k \in g.reads[x].jobs)
      BY <1>2, <2>1 DEF ReadsRight
    <3>2. CASE x # d
      <4>1. k \in L => (x \in h.job[k].reading <=> x \in g.job[k].reading)
        BY <1>4, <1>9, <1>10, <3>2 DEF o
      <4>2. QED
        BY <1>8, <1>9, <2>1, <3>1, <3>2, <4>1
    <3>3. CASE x = d
      <4>1. k \in J <=> (g.reads[d] # NoRead /\ k \in g.reads[d].jobs)
        BY DEF J, JobsOf
      <4>2. CASE k = j
        BY <1>1, <1>4, <1>7, <1>8, <1>9, <3>3, <4>2
      <4>3. CASE k # j
        <5>1. h.job[k] = g.job[k]
          BY <1>9, <2>1, <4>3
        <5>2. QED
          BY <1>7, <1>8, <1>9, <3>1, <3>3, <4>1, <4>3, <5>1
      <4>4. QED
        BY <4>2, <4>3
    <3>4. QED
      BY <3>2, <3>3
  <2>2. ASSUME NEW k \in LiveIn(h), Apart(k)
        PROVE  h.job[k].reading \subseteq Manifests(k)
    <3>1. k \in L /\ g.job[k].reading \subseteq Manifests(k)
      BY <1>2, <1>9, <2>2 DEF ReadsRight
    <3>2. CASE k = j
      BY <1>1, <1>4, <1>9, <2>2, <3>1, <3>2 DEF o
    <3>3. CASE k # j
      BY <1>10, <3>1, <3>3
    <3>4. QED
      BY <3>2, <3>3
  <2>3. QED
    BY <2>1, <2>2 DEF ReadsRight
<1>16. LayersRight(h, p.unread, p.unasked)
  <2>1. ASSUME NEW k \in L, NEW x \in Digest, k # j \/ x # d
        PROVE  Seen(h, k, x) = Seen(g, k, x)
    <3>1. x \in h.job[k].reading <=> x \in g.job[k].reading
      BY <1>4, <1>9, <1>10, <2>1 DEF o
    <3>2. CASE x \notin g.job[k].reading
      BY <3>1, <3>2 DEF Seen
    <3>3. CASE x \in g.job[k].reading
      <4>1. g.reads[x] # NoRead
        BY <1>2, <1>10, <3>3 DEF ReadsRight
      <4>2. h.reads[x].entries = g.reads[x].entries
        BY <1>7, <1>8, <4>1 DEF E, EntriesOf
      <4>3. QED
        BY <3>1, <3>3, <4>2 DEF Seen
    <3>4. QED
      BY <3>2, <3>3
  <2>2. \A k \in L : Has(h.job[k]) = Has(g.job[k])
    BY <1>12 DEF Has, BeingAcquired
  <2>3. \A k \in L : h.job[k].acquired \subseteq Digest
    <3>1. \A k \in L : g.job[k].acquired \subseteq Digest
      BY <1>2, LiveJob
    <3>2. QED
      BY <1>12, <3>1
  <2>4. ASSUME NEW k \in L, Apart(k)
        PROVE  /\ \A l \in ToSet(Layers[k]) : <<k, l[1]>> \in p.unasked \/ l[1] \in Has(h.job[k])
               /\ \A b \in h.job[k].being : b[2] <=> b[1] \in Manifests(k)
               /\ \A x \in Manifests(k) : x \in h.job[k].acquired =>
                    <<k, x>> \in p.unread \/ Seen(h, k, x) \subseteq Has(h.job[k])
    <3>1. /\ \A l \in ToSet(Layers[k]) : <<k, l[1]>> \in p.unasked \/ l[1] \in Has(g.job[k])
          /\ \A b \in g.job[k].being : b[2] <=> b[1] \in Manifests(k)
          /\ \A x \in Manifests(k) : x \in g.job[k].acquired =>
               <<k, x>> \in p.unread \/ Seen(g, k, x) \subseteq Has(g.job[k])
      BY <1>2, <2>4 DEF LayersRight
    <3>2. QED
      BY <1>1, <1>12, <2>1, <2>2, <2>3, <3>1
  <2>5. QED
    BY <1>9, <2>4 DEF LayersRight
<1>17. TellsRight(h, p.announced, p.completed, p.clients)
  <2>1. ASSUME NEW k \in L, p.announced[k] = <<"ready">> \/ k \in g.ready
        PROVE  HaveAll(h.job[k])
    <3>1. k # j
      BY <1>1, <2>1, Told
    <3>2. HaveAll(g.job[k])
      BY <1>2, <2>1 DEF TellsRight
    <3>3. QED
      BY <1>10, <3>1, <3>2
  <2>2. QED
    BY <1>1, <1>2, <1>9, <2>1, TellsStay DEF JobIsNow
<1>18. ASSUME ~Overlap PROVE HeldRight(h, F)
  <2>1. ClaimsIn(h, F) = ClaimsIn(g, F)
    BY <1>9, <1>12, SameClaims
  <2>2. HeldRight(g, F)
    BY <1>2, <1>18
  <2>3. QED
    BY <1>1, <2>1, <2>2 DEF HeldRight
<1>19. Kept(h, p)
  BY <1>1, <1>11, <1>13, <1>14, <1>15, <1>16, <1>17, <1>18 DEF Kept, JobIsNow
<1>20. Grows(g, j, h)
  BY <1>1, <1>4, <1>9, <1>12 DEF Grows, JobIsNow, Has, o, BeingAcquired
<1>21. QED
  BY <1>4, <1>7, <1>8, <1>9, <1>19, <1>20 DEF E

\* The handler has gone through the manifest d for j.
Done(p, j, d) == [p EXCEPT !.unread = @ \ {<<j, d>>}]

LEMMA DoneIsRight ==
  ASSUME NEW g, NEW p, Kept(g, p), NEW j, NEW d,
         Apart(j) /\ d \in Manifests(j) /\ d \in g.job[j].acquired
           => Seen(g, j, d) \subseteq Has(g.job[j])
  PROVE  Kept(g, Done(p, j, d))
<1> DEFINE q == Done(p, j, d)
<1>1. /\ q.started = p.started /\ q.uploaded = p.uploaded /\ q.clients = p.clients
      /\ q.fetching = p.fetching /\ q.announced = p.announced /\ q.completed = p.completed
      /\ q.unlisted = p.unlisted /\ q.unasked = p.unasked /\ DOMAIN q = DOMAIN p
      /\ q.unread = p.unread \ {<<j, d>>}
  BY DEF Kept, Done
<1> HIDE DEF q
<1>2. LayersRight(g, p.unread, p.unasked)
  BY DEF Kept
<1>3. LayersRight(g, q.unread, q.unasked)
  <2>1. ASSUME NEW k \in LiveIn(g), Apart(k), NEW x \in Manifests(k), x \in g.job[k].acquired
        PROVE  <<k, x>> \in q.unread \/ Seen(g, k, x) \subseteq Has(g.job[k])
    <3>1. <<k, x>> \in p.unread \/ Seen(g, k, x) \subseteq Has(g.job[k])
      BY <1>2, <2>1 DEF LayersRight
    <3>2. CASE k = j /\ x = d
      BY <2>1, <3>2
    <3>3. CASE ~(k = j /\ x = d)
      <4>1. <<k, x>> # <<j, d>>
        BY <3>3
      <4>2. QED
        BY <1>1, <3>1, <4>1
    <3>4. QED
      BY <3>2, <3>3
  <2>2. QED
    BY <1>1, <1>2, <2>1 DEF LayersRight
<1>4. QED
  BY <1>1, <1>3 DEF Kept, q

\* The manifest d, which j has got, is still to be read for it.
ToRead(g, p, j, d) ==
  /\ MayTake(g, p, j) /\ d \in Digest /\ <<j, d>> \in p.unread
  /\ Apart(j) => d \in Manifests(j)

\* It was.
WasRead(g, p, j, d, h) ==
  Kept(h, Done(p, j, d)) /\ Grows(g, j, h) /\ (WaitFull(g) => WaitFull(h))

LEMMA EntriesApart ==
  ASSUME NEW j, NEW d, Apart(j), d \in Manifests(j)
  PROVE  ToSet(Entries[d]) \cap Manifests(j) = {}
BY DEF Apart

LEMMA EntriesListed ==
  ASSUME NEW d \in Digest
  PROVE  /\ Entries[d] \in Seq(Digest) /\ ToSet(Entries[d]) \in SUBSET Digest
         /\ Len(Entries[d]) \in Nat
         /\ \A i \in 1 .. Len(Entries[d]) : Entries[d][i] \in ToSet(Entries[d])
<1> DEFINE q == Entries[d]
<1>1. q \in Seq(Digest)
  BY GathererAssumption
<1> HIDE DEF q
<1>2. ToSet(q) \in SUBSET Digest /\ \A i \in 1 .. Len(q) : q[i] \in ToSet(q)
  BY <1>1, InSequence
<1>3. QED
  BY <1>1, <1>2 DEF q

\* A reader has not sent anything that the manifest does not list.
LEMMA ReadEntries ==
  ASSUME NEW g, Typed(g), EntriesRight(g), NEW d \in Digest
  PROVE  EntriesOf(g, d) \subseteq ToSet(Entries[d])
<1>1. CASE g.reads[d] = NoRead
  BY <1>1 DEF EntriesOf
<1>2. CASE g.reads[d] # NoRead
  <2> DEFINE n == g.reader[d].next
             q == Entries[d]
  <2>1. n \in Nat /\ n <= Len(q) + 1 /\ g.reads[d].entries = {q[i] : i \in 1 .. n - 1}
    <3>1. g.reader[d] \in ReaderRecord
      BY DEF Typed
    <3>2. n \in Nat
      BY <3>1 DEF ReaderRecord, NoReader
    <3>3. QED
      BY <1>2, <3>2 DEF EntriesRight
  <2>2. Len(q) \in Nat /\ \A i \in 1 .. Len(q) : q[i] \in ToSet(q)
    BY EntriesListed
  <2> HIDE DEF n, q
  <2>3. \A i \in 1 .. n - 1 : i \in 1 .. Len(q)
    BY <2>1, <2>2
  <2>4. g.reads[d].entries \subseteq ToSet(q)
    BY <2>1, <2>2, <2>3
  <2>5. QED
    BY <1>2, <2>4 DEF EntriesOf, q
<1>3. QED
  BY <1>1, <1>2

\* What j reads, it sees no more of than the manifest lists.
LEMMA SeenListed ==
  ASSUME NEW g, Typed(g), EntriesRight(g), ReadsRight(g), NEW j \in LiveIn(g), NEW d \in Digest
  PROVE  Seen(g, j, d) \subseteq ToSet(Entries[d])
<1>1. CASE d \notin g.job[j].reading
  BY <1>1 DEF Seen
<1>2. CASE d \in g.job[j].reading
  <2>1. g.reads[d] # NoRead
    BY <1>2 DEF ReadsRight, LiveIn
  <2>2. Seen(g, j, d) = EntriesOf(g, d)
    BY <1>2, <2>1 DEF Seen, EntriesOf
  <2>3. QED
    BY <2>2, ReadEntries
<1>3. QED
  BY <1>1, <1>2

\* The manifest's entries are known.
LEMMA KnownIsRight ==
  ASSUME NEW g, NEW p, NEW j, NEW d, ToRead(g, p, j, d), d \in ToSet(g.known)
  PROVE  WasRead(g, p, j, d, ReadManifest(g, j, d))
<1> DEFINE k == ToLast(g.known, d)
           a == [g EXCEPT !.known = k]
           D == ToSet(Entries[d])
           h == AcquireEntries(a, j, D)
<1>1. Kept(g, p) /\ MayTake(g, p, j) /\ d \in Digest /\ j \in LiveIn(g)
  BY DEF ToRead, MayTake
<1>2. k \in Seq(Digest) /\ ToSet(k) \subseteq ToSet(g.known)
  <2> DEFINE q == g.known
  <2>1. q \in Seq(Digest)
    BY <1>1 DEF Kept, Typed
  <2> HIDE DEF q
  <2> DEFINE u == RemoveFirst(q, d)
  <2>2. u \in Seq(Digest) /\ ToSet(u) \subseteq ToSet(q)
    BY <2>1, RemovedOnce
  <2>3. k = Append(u, d)
    BY DEF ToLast, q
  <2> HIDE DEF u
  <2>4. Append(u, d) \in Seq(Digest) /\ ToSet(Append(u, d)) \subseteq ToSet(u) \cup {d}
    BY <1>1, <2>2, AppendedIn
  <2>5. QED
    BY <2>2, <2>3, <2>4 DEF q
<1>3. h = ReadManifest(g, j, d)
  BY DEF ReadManifest
<1> HIDE DEF k
<1>4. /\ DOMAIN a = DOMAIN g /\ a.known = k /\ a.cache = g.cache /\ a.job = g.job
      /\ a.reads = g.reads /\ a.waiting = g.waiting /\ a.inProgress = g.inProgress
      /\ a.asked = g.asked /\ a.reader = g.reader /\ a.ready = g.ready /\ a.failed = g.failed
  BY <1>1 DEF Kept, Typed
<1> HIDE DEF a, h
<1>5. Typed(a)
  BY <1>1, <1>2, <1>4 DEF Kept, Typed
<1>6. LiveIn(a) = LiveIn(g) /\ ReadersOf(a) = ReadersOf(g) /\ InReads(a) = InReads(g)
  BY <1>4 DEF LiveIn, ReadersOf, InReads
<1>7. /\ LiveRight(g, p.started) => LiveRight(a, p.started)
      /\ ReadsRight(g) => ReadsRight(a)
      /\ EntriesRight(g) => EntriesRight(a)
      /\ TellsRight(g, p.announced, p.completed, p.clients)
           => TellsRight(a, p.announced, p.completed, p.clients)
  BY <1>4, <1>6 DEF LiveRight, ReadsRight, EntriesRight, TellsRight
<1>7a. ReadersRight(g) => ReadersRight(a)
  BY <1>2, <1>4, <1>6 DEF ReadersRight
<1>8. WaitsRight(g, p.started, p.uploaded, p.clients, p.unlisted)
        => WaitsRight(a, p.started, p.uploaded, p.clients, p.unlisted)
  BY <1>4, <1>6 DEF WaitsRight, ListRight
<1>9. LayersRight(g, p.unread, p.unasked) => LayersRight(a, p.unread, p.unasked)
  BY <1>4, <1>6 DEF LayersRight, Seen
<1>10. HeldRight(g, p.fetching) => HeldRight(a, p.fetching)
  <2>1. ClaimsIn(a, p.fetching) = ClaimsIn(g, p.fetching)
    BY <1>4, <1>6, SameClaims
  <2>2. QED
    BY <1>4, <2>1 DEF HeldRight
<1>11. Kept(a, p)
  BY <1>1, <1>4, <1>5, <1>7, <1>8, <1>9, <1>10, <1>7a DEF Kept
<1>12. Grows(g, j, a)
  BY <1>4, <1>6 DEF Grows
<1>13. MayTake(a, p, j)
  BY <1>1, <1>11, <1>12, MayTakeOn
<1>14. D \in SUBSET Digest
  BY <1>1, EntriesListed
<1>15. Apart(j) => D \cap Manifests(j) = {}
  BY EntriesApart DEF ToRead
<1>16. Kept(h, p) /\ Acquiring(a, j, h) /\ D \subseteq Has(h.job[j])
  <2> HIDE DEF D
  <2>1. QED
    BY <1>13, <1>14, <1>15, AcquireEntriesIsRight DEF h
<1>17. Grows(g, j, h)
  BY <1>12, <1>16, GrowsOn DEF Acquiring
<1>18. Seen(h, j, d) \subseteq Has(h.job[j])
  <2>1. j \in LiveIn(h)
    BY <1>1, <1>17 DEF Grows
  <2>2. Seen(h, j, d) \subseteq D
    BY <1>1, <1>16, <2>1, SeenListed DEF Kept
  <2>3. QED
    BY <1>16, <2>2
<1>19. Kept(h, Done(p, j, d))
  BY <1>16, <1>18, DoneIsRight
<1>20. WaitFull(g) => WaitFull(h)
  BY <1>4, <1>16 DEF WaitFull, Acquiring, SameReads
<1>21. WasRead(g, p, j, d, h)
  BY <1>17, <1>19, <1>20 DEF WasRead
<1>22. QED
  BY <1>3, <1>21

\* Nobody reads the manifest yet.
LEMMA FirstIsRight ==
  ASSUME NEW g, NEW p, NEW j, NEW d, ToRead(g, p, j, d), d \notin ToSet(g.known),
         g.reads[d] = NoRead
  PROVE  WasRead(g, p, j, d, ReadManifest(g, j, d))
<1> DEFINE a == [[g EXCEPT !.job[j].reading = @ \cup {d}] EXCEPT !.reads[d] = NewRead(j)]
           h == StartOrEnqueueRead(a, d)
           r == [g.job[j] EXCEPT !.reading = @ \cup {d}]
           q == g.waiting
           n == g.inProgress
           R == ReadersOf(g)
           q2 == IF n = MaxReads THEN Append(q, d) ELSE q
           n2 == IF n = MaxReads THEN n ELSE n + 1
           f2 == IF n = MaxReads THEN g.reader ELSE [g.reader EXCEPT ![d] = NewReader]
<1>1. /\ Kept(g, p) /\ MayTake(g, p, j) /\ d \in Digest /\ <<j, d>> \in p.unread
      /\ Typed(g) /\ ReadersRight(g) /\ EntriesRight(g)
  BY DEF ToRead, MayTake, Kept
<1>2. h = ReadManifest(g, j, d)
  BY DEF ReadManifest
<1>3. /\ MaxReads \in Nat \ {0} /\ q \in Seq(Digest) /\ n \in Nat /\ n <= MaxReads
      /\ g.reader \in [Digest -> ReaderRecord]
  BY <1>1, GathererAssumption DEF Typed, ReadersRight
<1>4. d \notin R /\ d \notin ToSet(q) /\ d \notin InReads(g) /\ g.reader[d] = NoReader
  <2>1. d \notin InReads(g) /\ InReads(g) = R \cup ToSet(q)
    BY <1>1 DEF InReads, ReadersRight
  <2>2. QED
    BY <1>1, <2>1 DEF ReadersOf
<1>5. /\ DOMAIN a = DOMAIN g /\ a.job = [g.job EXCEPT ![j] = r]
      /\ a.reads = [g.reads EXCEPT ![d] = NewRead(j)]
      /\ a.known = g.known /\ a.cache = g.cache /\ a.waiting = q /\ a.inProgress = n
      /\ a.asked = g.asked /\ a.reader = g.reader /\ a.ready = g.ready /\ a.failed = g.failed
  BY <1>1 DEF Typed
<1> HIDE DEF a, r
<1>6. /\ DOMAIN h = DOMAIN g /\ h.job = a.job /\ h.reads = a.reads
      /\ h.known = g.known /\ h.cache = g.cache /\ h.waiting = q2 /\ h.inProgress = n2
      /\ h.asked = g.asked /\ h.reader = f2 /\ h.ready = g.ready /\ h.failed = g.failed
  <2>1. CASE n = MaxReads
    <3>1. h = [a EXCEPT !.waiting = Append(@, d)]
      BY <1>5, <2>1 DEF StartOrEnqueueRead
    <3>2. QED
      BY <1>1, <1>5, <2>1, <3>1 DEF Typed
  <2>2. CASE n # MaxReads
    <3>1. ~(n >= MaxReads)
      BY <1>3, <2>2
    <3>2. h = [a EXCEPT !.inProgress = @ + 1, !.reader[d] = NewReader]
      BY <1>5, <2>2, <3>1 DEF StartOrEnqueueRead, StartReader
    <3>3. QED
      BY <1>1, <1>5, <2>2, <3>2 DEF Typed
  <2>3. QED
    BY <2>1, <2>2
<1> HIDE DEF h, q, n
<1>7. /\ q2 \in Seq(Digest) /\ n2 \in Nat /\ f2 \in [Digest -> ReaderRecord] /\ n2 <= MaxReads
      /\ \A x \in Digest \ {d} : f2[x] = g.reader[x]
      /\ f2[d].next = 1 /\ (f2[d] = NoReader <=> n = MaxReads)
  <2>1. NewReader \in ReaderRecord /\ NewReader.next = 1 /\ NewReader # NoReader /\ NoReader.next = 1
    BY DEF NewReader, ReaderRecord, NoReader
  <2>2. CASE n = MaxReads
    BY <1>1, <1>3, <1>4, <2>1, <2>2
  <2>3. CASE n # MaxReads
    BY <1>1, <1>3, <1>4, <2>1, <2>3
  <2>4. QED
    BY <2>2, <2>3
<1>8. /\ NewRead(j) # NoRead /\ NewRead(j).entries = {} /\ NewRead(j).jobs = {j}
      /\ NewRead(j) = [st |-> "read", jobs |-> JobsOf(g, d) \cup {j}, entries |-> EntriesOf(g, d)]
  BY DEF NewRead, NoRead, JobsOf, EntriesOf
<1>9. h.reads[d] = NewRead(j) /\ \A x \in Digest \ {d} : h.reads[x] = g.reads[x]
  BY <1>1, <1>5, <1>6 DEF Typed
<1>10. InReads(h) = InReads(g) \cup {d}
  BY <1>1, <1>8, <1>9 DEF InReads
<1>11. ReadersRight(h)
  <2>0. InReads(h) \cap ToSet(h.known) = {}
    BY <1>1, <1>6, <1>10 DEF ReadersRight
  <2>1. /\ n = Cardinality(R) /\ InReads(g) = R \cup ToSet(q) /\ R \cap ToSet(q) = {}
        /\ IsInjective(q)
    BY <1>1 DEF ReadersRight, n, q
  <2>2. IsFiniteSet(R)
    BY GathererAssumption, FS_Subset DEF ReadersOf
  <2>3. CASE n = MaxReads
    <3>1. ReadersOf(h) = R /\ n2 = n /\ q2 = Append(q, d)
      BY <1>6, <2>3 DEF ReadersOf
    <3>2. IsInjective(q2) /\ ToSet(q2) = ToSet(q) \cup {d}
      BY <1>1, <1>3, <1>4, <2>1, <3>1, AppendedOnce
    <3>3. QED
      BY <1>4, <1>6, <1>7, <1>10, <2>1, <2>0, <3>1, <3>2 DEF ReadersRight
  <2>4. CASE n # MaxReads
    <3>1. ReadersOf(h) = R \cup {d} /\ n2 = n + 1 /\ q2 = q
      BY <1>1, <1>6, <1>7, <2>4 DEF ReadersOf
    <3>2. Cardinality(ReadersOf(h)) = n2
      <4> HIDE DEF R
      <4>1. Cardinality(R \cup {d}) = Cardinality(R) + 1
        BY <1>4, <2>2, FS_AddElement
      <4>2. QED
        BY <2>1, <3>1, <4>1
    <3>3. QED
      BY <1>4, <1>6, <1>7, <1>10, <2>1, <2>0, <3>1, <3>2 DEF ReadersRight
  <2>5. QED
    BY <2>3, <2>4
<1>12. EntriesRight(h)
  <2>1. ASSUME NEW x \in Digest, h.reads[x] # NoRead
        PROVE  /\ h.reader[x].next <= Len(Entries[x]) + 1
               /\ h.reads[x].entries = {Entries[x][i] : i \in 1 .. h.reader[x].next - 1}
    <3>1. CASE x = d
      <4>1. h.reader[x].next = 1 /\ h.reads[x].entries = {} /\ Len(Entries[x]) \in Nat
        BY <1>6, <1>7, <1>8, <1>9, <3>1, EntriesListed
      <4>2. {Entries[x][i] : i \in 1 .. 0} = {} /\ 1 <= Len(Entries[x]) + 1 /\ 1 - 1 = 0
        BY <4>1
      <4>3. QED
        BY <4>1, <4>2
    <3>2. CASE x # d
      BY <1>1, <1>6, <1>7, <1>9, <2>1, <3>2 DEF EntriesRight
    <3>3. QED
      BY <3>1, <3>2
  <2>2. QED
    BY <2>1 DEF EntriesRight
<1>13. Reads(g, p, j, d, h)
  <2>1. JobIsNow(g, j, r, h)
    BY <1>5, <1>6 DEF JobIsNow
  <2>2. Apart(j) => d \in Manifests(j)
    BY DEF ToRead
  <2>3. QED
    BY <1>1, <1>5, <1>6, <1>7, <1>8, <1>11, <1>12, <2>1, <2>2 DEF Reads, r
<1>14. /\ Kept(h, p) /\ Grows(g, j, h)
       /\ d \in h.job[j].reading /\ h.reads[d].entries = EntriesOf(g, d)
  BY <1>13, ReadsIsRight
<1>15. Seen(h, j, d) = {}
  BY <1>14 DEF Seen, EntriesOf
<1>16. Kept(h, Done(p, j, d))
  BY <1>14, <1>15, DoneIsRight
<1>17. WaitFull(g) => WaitFull(h)
  <2>1. CASE n = MaxReads
    BY <1>6, <2>1 DEF WaitFull
  <2>2. CASE n # MaxReads
    BY <1>6, <2>2 DEF WaitFull, q, n
  <2>3. QED
    BY <2>1, <2>2
<1>18. WasRead(g, p, j, d, h)
  BY <1>14, <1>16, <1>17 DEF WasRead
<1>19. QED
  BY <1>2, <1>18 DEF h

\* The manifest is being read already.
LEMMA JoinsIsRight ==
  ASSUME NEW g, NEW p, NEW j, NEW d, ToRead(g, p, j, d), d \notin ToSet(g.known),
         g.reads[d] # NoRead
  PROVE  WasRead(g, p, j, d, ReadManifest(g, j, d))
<1> DEFINE a == [[g EXCEPT !.job[j].reading = @ \cup {d}] EXCEPT !.reads[d].jobs = @ \cup {j}]
           D == g.reads[d].entries
           h == AcquireEntries(a, j, D)
           r == [g.job[j] EXCEPT !.reading = @ \cup {d}]
           rd == [g.reads[d] EXCEPT !.jobs = @ \cup {j}]
<1>1. /\ Kept(g, p) /\ MayTake(g, p, j) /\ d \in Digest /\ <<j, d>> \in p.unread
      /\ Typed(g) /\ ReadersRight(g) /\ EntriesRight(g) /\ j \in LiveIn(g) /\ j \in Job
  BY DEF ToRead, MayTake, Kept, LiveIn
<1>2. h = ReadManifest(g, j, d)
  BY DEF ReadManifest
<1>3. /\ DOMAIN a = DOMAIN g /\ a.job = [g.job EXCEPT ![j] = r]
      /\ a.reads = [g.reads EXCEPT ![d] = rd]
      /\ a.known = g.known /\ a.cache = g.cache /\ a.waiting = g.waiting
      /\ a.inProgress = g.inProgress
      /\ a.asked = g.asked /\ a.reader = g.reader /\ a.ready = g.ready /\ a.failed = g.failed
  BY <1>1 DEF Typed
<1>4. /\ rd = [st |-> "read", jobs |-> JobsOf(g, d) \cup {j}, entries |-> EntriesOf(g, d)]
      /\ rd # NoRead /\ rd.entries = D /\ EntriesOf(g, d) = D /\ D \in SUBSET Digest
  <2>1. g.reads[d] \in [st : {"read"}, jobs : SUBSET Job, entries : SUBSET Digest]
    BY <1>1 DEF Typed, ReadRecord
  <2>2. QED
    BY <2>1 DEF JobsOf, EntriesOf, NoRead
<1> HIDE DEF a, h, r, rd, D
<1>5. a.reads[d] = rd /\ \A x \in Digest \ {d} : a.reads[x] = g.reads[x]
  BY <1>1, <1>3 DEF Typed
<1>6. InReads(a) = InReads(g) /\ ReadersOf(a) = ReadersOf(g)
  <2>1. \A x \in Digest : a.reads[x] # NoRead <=> g.reads[x] # NoRead
    BY <1>4, <1>5
  <2>2. QED
    BY <1>3, <2>1 DEF InReads, ReadersOf
<1>7. ReadersRight(a)
  BY <1>1, <1>3, <1>6 DEF ReadersRight
<1>8. EntriesRight(a)
  <2>1. \A x \in Digest : a.reads[x] # NoRead =>
           g.reads[x] # NoRead /\ a.reads[x].entries = g.reads[x].entries
    BY <1>4, <1>5 DEF D
  <2>2. QED
    BY <1>1, <1>3, <2>1 DEF EntriesRight
<1>9. Reads(g, p, j, d, a)
  <2>1. JobIsNow(g, j, r, a)
    BY <1>3 DEF JobIsNow
  <2>2. Apart(j) => d \in Manifests(j)
    BY DEF ToRead
  <2>3. QED
    BY <1>1, <1>3, <1>4, <1>7, <1>8, <2>1, <2>2 DEF Reads, r, Typed
<1>10. /\ Kept(a, p) /\ Grows(g, j, a) /\ d \in a.job[j].reading /\ a.reads[d].entries = D
  BY <1>4, <1>9, ReadsIsRight
<1>11. MayTake(a, p, j)
  BY <1>1, <1>10, MayTakeOn
<1>12. D \subseteq ToSet(Entries[d])
  BY <1>1, <1>4, ReadEntries
<1>13. Apart(j) => D \cap Manifests(j) = {}
  BY <1>12, EntriesApart DEF ToRead
<1>14. Kept(h, p) /\ Acquiring(a, j, h) /\ D \subseteq Has(h.job[j])
  BY <1>4, <1>11, <1>13, AcquireEntriesIsRight DEF h
<1>15. Grows(g, j, h)
  BY <1>10, <1>14, GrowsOn DEF Acquiring
<1>16. Seen(h, j, d) \subseteq Has(h.job[j])
  BY <1>10, <1>14 DEF Seen, Acquiring, SameReads
<1>17. Kept(h, Done(p, j, d))
  BY <1>14, <1>16, DoneIsRight
<1>18. WaitFull(g) => WaitFull(h)
  BY <1>3, <1>14 DEF WaitFull, Acquiring, SameReads
<1>19. WasRead(g, p, j, d, h)
  BY <1>15, <1>17, <1>18 DEF WasRead
<1>20. QED
  BY <1>2, <1>19 DEF h

LEMMA ReadManifestIsRight ==
  ASSUME NEW g, NEW p, NEW j, NEW d, ToRead(g, p, j, d)
  PROVE  WasRead(g, p, j, d, ReadManifest(g, j, d))
BY KnownIsRight, FirstIsRight, JoinsIsRight

\* start_acquiring_artifact_for_job may be called for j.
ToAcquire(g, p, j, d, m) ==
  /\ MayTake(g, p, j) /\ d \in Digest /\ m \in BOOLEAN /\ <<j, d>> \notin p.unread
  /\ Apart(j) => (m <=> d \in Manifests(j))
  /\ m => d \in Manifests(j)

WasAcquired(g, p, j, d, h) ==
  Kept(h, p) /\ Grows(g, j, h) /\ (WaitFull(g) => WaitFull(h)) /\ d \in Has(h.job[j])

\* The handler has to go through the manifest d for j.
Undone(p, j, d) == [p EXCEPT !.unread = @ \cup {<<j, d>>}]

LEMMA UndoneIsRight ==
  ASSUME NEW g, NEW p, Kept(g, p), NEW j, NEW d, <<j, d>> \notin p.unread
  PROVE  Kept(g, Undone(p, j, d)) /\ \A h : Kept(h, Done(Undone(p, j, d), j, d)) => Kept(h, p)
<1> DEFINE q == Undone(p, j, d)
           o == Done(q, j, d)
<1>1. /\ q.started = p.started /\ q.uploaded = p.uploaded /\ q.clients = p.clients
      /\ q.fetching = p.fetching /\ q.announced = p.announced /\ q.completed = p.completed
      /\ q.unlisted = p.unlisted /\ q.unasked = p.unasked /\ DOMAIN q = DOMAIN p
      /\ q.unread = p.unread \cup {<<j, d>>}
      /\ DOMAIN p = {"started", "uploaded", "clients", "fetching", "announced", "completed",
                     "unlisted", "unread", "unasked"}
  BY DEF Kept, Undone
<1> HIDE DEF q
<1>2. /\ o.started = p.started /\ o.uploaded = p.uploaded /\ o.clients = p.clients
      /\ o.fetching = p.fetching /\ o.announced = p.announced /\ o.completed = p.completed
      /\ o.unlisted = p.unlisted /\ o.unasked = p.unasked
      /\ o.unread = p.unread
  <2>1. (p.unread \cup {<<j, d>>}) \ {<<j, d>>} = p.unread
    OBVIOUS
  <2>2. QED
    BY <1>1, <2>1 DEF Done
<1> HIDE DEF o
<1>3. LayersRight(g, p.unread, p.unasked) => LayersRight(g, q.unread, q.unasked)
  BY <1>1 DEF LayersRight
<1>4. Kept(g, q)
  BY <1>1, <1>3 DEF Kept
<1>5. ASSUME NEW h, Kept(h, o) PROVE Kept(h, p)
  BY <1>1, <1>2, <1>5 DEF Kept
<1>6. QED
  BY <1>4, <1>5 DEF q, o

LEMMA AcquireIsRight ==
  ASSUME NEW g, NEW p, NEW j, NEW d, NEW m, ToAcquire(g, p, j, d, m)
  PROVE  WasAcquired(g, p, j, d, Acquire(g, j, d, m))
<1> DEFINE a == StartAcquiring(g, j, d, m)
           h == Acquire(g, j, d, m)
           q == Undone(p, j, d)
<1>1. /\ MayTake(g, p, j) /\ Kept(g, p) /\ d \in Digest /\ <<j, d>> \notin p.unread
      /\ j \in LiveIn(g) /\ m \in BOOLEAN /\ (m => d \in Manifests(j))
  BY DEF ToAcquire, MayTake
<1>2. h = IF m /\ d \in a.job[j].acquired \ g.job[j].acquired THEN ReadManifest(a, j, d) ELSE a
  BY DEF Acquire
<1> HIDE DEF h
<1>3. CASE ~m
  <2>1. MayAcquire(g, p, j, d, m)
    BY <1>1, <1>3 DEF ToAcquire, MayAcquire
  <2>2. Kept(a, p) /\ Acquiring(g, j, a) /\ d \in Has(a.job[j])
    BY <2>1, StartAcquiringIsRight
  <2>3. h = a
    BY <1>2, <1>3
  <2> HIDE DEF a
  <2>4. WaitFull(g) => WaitFull(a)
    BY <2>2 DEF WaitFull, Acquiring, SameReads
  <2>5. QED
    BY <2>2, <2>3, <2>4 DEF WasAcquired, Acquiring, h
<1>4. CASE m
  <2>1. Kept(g, q) /\ \A k : Kept(k, Done(q, j, d)) => Kept(k, p)
    BY <1>1, UndoneIsRight
  <2>2. /\ q.announced = p.announced /\ q.clients = p.clients /\ <<j, d>> \in q.unread
    BY <1>1 DEF Undone, Kept
  <2> HIDE DEF q
  <2>3. MayTake(g, q, j)
    BY <1>1, <2>1, <2>2 DEF MayTake
  <2>4. MayAcquire(g, q, j, d, m)
    BY <1>1, <2>2, <2>3 DEF MayAcquire, ToAcquire
  <2>5. Kept(a, q) /\ Acquiring(g, j, a) /\ d \in Has(a.job[j])
    BY <2>4, StartAcquiringIsRight
  <2> HIDE DEF a
  <2>6. WaitFull(g) => WaitFull(a)
    BY <2>5 DEF WaitFull, Acquiring, SameReads
  <2>7. CASE d \in a.job[j].acquired \ g.job[j].acquired
    <3>1. h = ReadManifest(a, j, d)
      BY <1>2, <1>4, <2>7
    <3>2. MayTake(a, q, j)
      BY <2>3, <2>5, MayTakeOn DEF Acquiring
    <3>3. ToRead(a, q, j, d)
      BY <1>1, <1>4, <2>2, <3>2 DEF ToRead
    <3>4. WasRead(a, q, j, d, h)
      BY <3>1, <3>3, ReadManifestIsRight
    <3>5. Kept(h, Done(q, j, d)) /\ Grows(a, j, h) /\ (WaitFull(a) => WaitFull(h))
      BY <3>4 DEF WasRead
    <3>6. Kept(h, p)
      BY <2>1, <3>5
    <3>7. Grows(g, j, h)
      BY <2>5, <3>5, GrowsOn DEF Acquiring
    <3>8. QED
      BY <2>5, <2>6, <3>5, <3>6, <3>7 DEF WasAcquired, Grows, h
  <2>8. CASE ~(d \in a.job[j].acquired \ g.job[j].acquired)
    <3>1. h = a
      BY <1>2, <2>8
    <3>2. ASSUME Apart(j), d \in Manifests(j), d \in a.job[j].acquired
          PROVE  Seen(a, j, d) \subseteq Has(a.job[j])
      <4>1. d \in g.job[j].acquired
        BY <2>8, <3>2
      <4>2. Seen(g, j, d) \subseteq Has(g.job[j])
        BY <1>1, <3>2, <4>1 DEF Kept, LayersRight
      <4>3. Seen(a, j, d) = Seen(g, j, d)
        BY <2>5 DEF Seen, Acquiring, SameReads
      <4>4. QED
        BY <2>5, <4>2, <4>3 DEF Acquiring, Grows
    <3>3. Kept(a, Done(q, j, d))
      BY <2>5, <3>2, DoneIsRight
    <3>4. Kept(a, p)
      BY <2>1, <3>3
    <3>5. QED
      BY <2>5, <2>6, <3>1, <3>4 DEF WasAcquired, Acquiring, h
  <2>9. QED
    BY <2>7, <2>8
<1>5. QED
  BY <1>1, <1>3, <1>4

AcquireStep(p, o, h, l) == Acquire(h, p, l[1], l[2])
AcquireInv(r, n, h) ==
  /\ Kept(h, r.around) /\ Grows(r.from, r.job, h)
  /\ WaitFull(r.from) => WaitFull(h)
  /\ \A i \in 1 .. n : r.list[i][1] \in Has(h.job[r.job])
Acquires == INSTANCE FoldTheorems WITH Op <- AcquireStep, Inv <- AcquireInv

LEMMA LayersFold ==
  ASSUME NEW g, NEW j
  PROVE  FoldLeft(LAMBDA h, l : Acquire(h, j, l[1], l[2]), g, Layers[j])
           = Acquires!Fold(j, 0, g, Layers[j])
BY DEF Acquires!Fold, AcquireStep, FoldLeft, MapThenFoldSet, Max,
       Acquires!Greatest

\* The job has asked for all its layers.
Started(g, p, j, h) ==
  /\ Kept(h, p) /\ Grows(g, j, h) /\ (WaitFull(g) => WaitFull(h))
  /\ \A l \in ToSet(Layers[j]) : l[1] \in Has(h.job[j])

LEMMA AllLayersAcquired ==
  ASSUME NEW g, NEW p, NEW j, MayTake(g, p, j), p.unread = {}
  PROVE  Started(g, p, j, FoldLeft(LAMBDA h, l : Acquire(h, j, l[1], l[2]), g, Layers[j]))
<1> DEFINE q == Layers[j]
           r == [around |-> p, from |-> g, job |-> j, list |-> q]
           e == Acquires!Fold(j, 0, g, q)
           S == Digest \X BOOLEAN
<1>1. j \in Job
  BY DEF MayTake, LiveIn
<1>2. q \in Seq(S)
  BY <1>1, GathererAssumption
<1>3. r.around = p /\ r.from = g /\ r.job = j /\ r.list = q
  OBVIOUS
<1> HIDE DEF q, r, S
<1>4. AcquireInv(r, 0, g)
  <2>1. Grows(g, j, g)
    BY DEF Grows
  <2>2. \A i \in 1 .. 0 : FALSE
    OBVIOUS
  <2>3. QED
    BY <1>3, <2>1, <2>2 DEF AcquireInv, MayTake
<1>5. ASSUME NEW a, NEW n \in 1 .. Len(q), q[n] \in S, AcquireInv(r, n - 1, a)
      PROVE  AcquireInv(r, n, AcquireStep(j, 0, a, q[n]))
  <2> DEFINE l == q[n]
             d == l[1]
             m == l[2]
             b == Acquire(a, j, d, m)
  <2>1. /\ Kept(a, p) /\ Grows(g, j, a) /\ (WaitFull(g) => WaitFull(a))
        /\ \A i \in 1 .. n - 1 : q[i][1] \in Has(a.job[j])
    BY <1>3, <1>5 DEF AcquireInv
  <2>2. MayTake(a, p, j)
    BY <2>1, MayTakeOn
  <2>3. d \in Digest /\ m \in BOOLEAN /\ l = <<d, m>> /\ l \in ToSet(q)
    BY <1>2, <1>5, InSequence DEF S
  <2>4. m => d \in Manifests(j)
    BY <2>3 DEF Manifests, q
  <2>5. Apart(j) => (m <=> d \in Manifests(j))
    <3>1. SUFFICES ASSUME Apart(j), ~m PROVE d \notin Manifests(j)
      BY <2>3, <2>4
    <3>2. <<d, FALSE>> \in ToSet(Layers[j])
      BY <2>3, <3>1 DEF q
    <3>3. QED
      BY <3>1, <3>2 DEF Apart
  <2> HIDE DEF d, m
  <2>6. ToAcquire(a, p, j, d, m)
    BY <2>2, <2>3, <2>4, <2>5 DEF ToAcquire
  <2>7. WasAcquired(a, p, j, d, b)
    BY <2>6, AcquireIsRight
  <2> HIDE DEF b
  <2>8. /\ Kept(b, p) /\ Grows(a, j, b) /\ (WaitFull(a) => WaitFull(b)) /\ d \in Has(b.job[j])
    BY <2>7 DEF WasAcquired
  <2>9. Grows(g, j, b)
    BY <2>1, <2>8, GrowsOn
  <2>10. \A i \in 1 .. n : i \in 1 .. n - 1 \/ i = n
    OBVIOUS
  <2>11. \A i \in 1 .. n : q[i][1] \in Has(b.job[j])
    BY <2>1, <2>8, <2>10 DEF Grows, d
  <2>12. AcquireInv(r, n, b)
    BY <1>3, <2>1, <2>8, <2>9, <2>11 DEF AcquireInv
  <2>13. QED
    BY <2>12 DEF AcquireStep, b, d, m
<1>6. AcquireInv(r, Len(q), e)
  BY <1>2, <1>4, <1>5, LeastOf, Acquires!FoldKeeps
<1> HIDE DEF e
<1>7. Kept(e, p) /\ Grows(g, j, e) /\ (WaitFull(g) => WaitFull(e))
      /\ \A i \in 1 .. Len(q) : q[i][1] \in Has(e.job[j])
  BY <1>3, <1>6 DEF AcquireInv
<1>8. \A l \in ToSet(q) : l[1] \in Has(e.job[j])
  BY <1>2, <1>7, InSequence
<1>9. Started(g, p, j, e)
  BY <1>7, <1>8 DEF Started, q
<1>10. QED
  BY <1>9, LayersFold, Zenon DEF e, q

-----------------------------------------------------------------------------
(***************************************************************************)
(* The end of a handler.                                                   *)
(***************************************************************************)
\* What the scheduler is told of each job.
Tells(g) ==
  announced' = [j \in Job |-> IF j \in g.ready THEN <<"ready">>
                              ELSE IF j \in g.failed THEN <<"failed">> ELSE announced[j]]

LEMMA BecomeTells ==
  ASSUME announced \in [Job -> {<<>>, <<"ready">>, <<"failed">>}],
         NEW g, NEW D, NEW C, TellsRight(g, announced, D, C), Become(g)
  PROVE  Tells(g)
<1>1. /\ \A j \in g.ready \cup g.failed : announced[j] = <<>>
      /\ \A j \in g.ready : j \notin g.failed
  BY DEF TellsRight
<1>2. ASSUME NEW j \in Job
      PROVE  announced[j] \o (IF j \in g.ready THEN <<"ready">> ELSE <<>>)
                          \o (IF j \in g.failed THEN <<"failed">> ELSE <<>>)
             = IF j \in g.ready THEN <<"ready">>
               ELSE IF j \in g.failed THEN <<"failed">> ELSE announced[j]
  <2>1. /\ announced[j] \o <<>> \o <<>> = announced[j]
        /\ <<>> \o <<"ready">> \o <<>> = <<"ready">>
        /\ <<>> \o <<>> \o <<"failed">> = <<"failed">>
    OBVIOUS
  <2>2. CASE j \in g.ready
    BY <1>1, <2>1, <2>2
  <2>3. CASE j \notin g.ready /\ j \in g.failed
    BY <1>1, <2>1, <2>3
  <2>4. CASE j \notin g.ready /\ j \notin g.failed
    BY <2>1, <2>4
  <2>5. QED
    BY <2>2, <2>3, <2>4
<1>3. QED
  BY <1>2 DEF Become, Tells

\* The handler ends in g.
Ends(g, p) ==
  /\ Kept(g, p) /\ WaitFull(g) /\ Tells(g)
  /\ cache' = g.cache /\ job' = g.job /\ reads' = g.reads
  /\ known' = g.known /\ waiting' = g.waiting /\ inProgress' = g.inProgress
  /\ asked' = g.asked /\ reader' = g.reader
  /\ p.started = started' /\ p.uploaded = uploaded' /\ p.clients = clients'
  /\ p.fetching = fetching' /\ p.announced = announced /\ p.completed = completed'
  /\ p.unlisted = {} /\ p.unread = {} /\ p.unasked = {}
  /\ clients' \subseteq Client /\ landed' \subseteq Digest
  /\ completed' \subseteq started' /\ started \subseteq started'
  /\ \A j \in LiveIn(g) : Owner(j) \in clients'
  /\ ~Overlap => UploadsRight'

LEMMA EndsRight ==
  ASSUME Right, NEW g, NEW p, Ends(g, p)
  PROVE  Right'
<1>1. PICK t : t = Now'
  OBVIOUS
<1>2. PICK r : r = Around'
  OBVIOUS
<1>3. /\ t.cache = g.cache /\ t.job = g.job /\ t.reads = g.reads /\ t.known = g.known
      /\ t.waiting = g.waiting /\ t.inProgress = g.inProgress /\ t.asked = g.asked
      /\ t.reader = g.reader /\ t.ready = {} /\ t.failed = {}
      /\ DOMAIN t = {"cache", "job", "reads", "known", "waiting", "inProgress", "asked",
                     "reader", "ready", "failed"}
  BY <1>1 DEF Now, Ends
<1>4. /\ r.started = p.started /\ r.uploaded = p.uploaded /\ r.clients = p.clients
      /\ r.fetching = p.fetching /\ r.completed = p.completed /\ r.announced = announced'
      /\ r.unlisted = p.unlisted /\ r.unread = p.unread /\ r.unasked = p.unasked
      /\ DOMAIN r = {"started", "uploaded", "clients", "fetching", "announced", "completed",
                     "unlisted", "unread", "unasked"}
  BY <1>2 DEF Around, Ends
<1>5. /\ Kept(g, p) /\ WaitFull(g) /\ Tells(g) /\ p.announced = announced
      /\ p.started = started' /\ p.clients = clients' /\ p.completed = completed'
      /\ clients' \subseteq Client /\ landed' \subseteq Digest
      /\ completed' \subseteq started' /\ started \subseteq started'
      /\ \A j \in LiveIn(g) : Owner(j) \in clients'
      /\ (~Overlap => UploadsRight')
  BY DEF Ends
<1>6. /\ announced \in [Job -> {<<>>, <<"ready">>, <<"failed">>}]
      /\ \A j \in Job : announced[j] # <<>> => j \in started
  BY DEF Right
<1>7. /\ Typed(g) /\ g.failed \subseteq p.started /\ LiveRight(g, p.started)
      /\ TellsRight(g, announced, p.completed, p.clients)
      /\ g.ready \subseteq LiveIn(g) /\ LiveIn(g) \subseteq p.started
  BY <1>5 DEF Kept, TellsRight, LiveRight
<1>8. LiveIn(t) = LiveIn(g)
  BY <1>3 DEF LiveIn
<1>9. /\ announced' \in [Job -> {<<>>, <<"ready">>, <<"failed">>}]
      /\ \A j \in Job : announced'[j] # <<>> => j \in started'
  BY <1>5, <1>6, <1>7 DEF Tells
<1>10. LiveIn(g) \subseteq Job
  BY DEF LiveIn
<1>11. TellsRight(t, announced', p.completed, p.clients)
  <2>1. \A j \in Job : announced'[j] = <<"ready">> <=> j \in g.ready \/ announced[j] = <<"ready">>
    BY <1>5, <1>7, Told DEF Tells, TellsRight
  <2>2. \A j \in LiveIn(g) : announced'[j] \in {<<>>, <<"ready">>}
    BY <1>5, <1>7, <1>10 DEF Tells, TellsRight
  <2>3. \A j \in LiveIn(t) : announced'[j] = <<"ready">> => HaveAll(t.job[j])
    BY <1>3, <1>7, <1>8, <1>10, <2>1 DEF TellsRight
  <2>4. \A j \in Job : announced'[j] = <<"ready">> /\ Owner(j) \in p.clients /\ j \notin p.completed
                         => j \in LiveIn(t)
    BY <1>7, <1>8, <2>1 DEF TellsRight
  <2>5. QED
    BY <1>3, <1>8, <2>2, <2>3, <2>4 DEF TellsRight
<1>12. Typed(t)
  BY <1>3, <1>7 DEF Typed
<1>13. LiveRight(t, p.started)
  BY <1>3, <1>7, <1>8, LiveStays
<1>14. WaitsRight(t, p.started, p.uploaded, p.clients, p.unlisted)
  <2>1. SameWaits(g.cache, t.cache)
    BY <1>3 DEF SameWaits
  <2>2. WaitsRight(g, p.started, p.uploaded, p.clients, p.unlisted)
    BY <1>5 DEF Kept
  <2>3. QED
    BY <1>3, <1>7, <1>8, <2>1, <2>2, WaitsStay
<1>15. ReadsRight(t) /\ ReadersRight(t) /\ EntriesRight(t)
  <2>1. SameReads(g, t)
    BY <1>3 DEF SameReads
  <2>2. QED
    BY <1>3, <1>5, <1>8, <2>1, ReadsStay DEF Kept
<1>16. LayersRight(t, p.unread, p.unasked)
  <2>1. \A j, d : Seen(t, j, d) = Seen(g, j, d)
    BY <1>3 DEF Seen
  <2>2. LayersRight(g, p.unread, p.unasked)
    BY <1>5 DEF Kept
  <2>3. QED
    BY <1>3, <1>8, <2>1, <2>2 DEF LayersRight
<1>17. ASSUME ~Overlap PROVE HeldRight(t, p.fetching)
  <2>1. ClaimsIn(t, p.fetching) = ClaimsIn(g, p.fetching)
    BY <1>3, <1>8, SameClaims
  <2>2. HeldRight(g, p.fetching)
    BY <1>5, <1>17 DEF Kept
  <2>3. QED
    BY <1>3, <2>1, <2>2 DEF HeldRight
<1>18. Kept(t, r)
  BY <1>3, <1>4, <1>5, <1>11, <1>12, <1>13, <1>14, <1>15, <1>16, <1>17 DEF Kept
<1>19. WaitFull(t)
  BY <1>3, <1>5 DEF WaitFull
<1>20. \A j \in LiveIn(t) : Owner(j) \in clients'
  BY <1>5, <1>8
<1>21. QED
  BY <1>1, <1>2, <1>5, <1>9, <1>18, <1>19, <1>20 DEF Right

-----------------------------------------------------------------------------
(***************************************************************************)
(* Between the handler's steps.                                            *)
(***************************************************************************)
\* h is g, but for what the scheduler is told.
SameState(g, h) ==
  /\ DOMAIN h = DOMAIN g /\ h.cache = g.cache /\ h.job = g.job /\ h.asked = g.asked
  /\ SameReads(g, h)

LEMMA SameStateKept ==
  ASSUME NEW g, NEW p, Kept(g, p), NEW h, SameState(g, h), h.ready \subseteq Job,
         h.failed \subseteq Job, h.failed \subseteq p.started,
         TellsRight(h, p.announced, p.completed, p.clients)
  PROVE  Kept(h, p)
<1>1. /\ h.cache = g.cache /\ h.job = g.job /\ h.asked = g.asked /\ SameReads(g, h)
      /\ Typed(g) /\ LiveRight(g, p.started) /\ DOMAIN h = DOMAIN g
  BY DEF SameState, Kept
<1>2. LiveIn(h) = LiveIn(g) /\ Typed(h)
  BY <1>1 DEF LiveIn, Typed, SameReads
<1>3. LiveRight(h, p.started)
  BY <1>1, <1>2, LiveStays
<1>4. WaitsRight(h, p.started, p.uploaded, p.clients, p.unlisted)
  <2>1. SameWaits(g.cache, h.cache)
    BY <1>1 DEF SameWaits
  <2>2. WaitsRight(g, p.started, p.uploaded, p.clients, p.unlisted)
    BY DEF Kept
  <2>3. QED
    BY <1>1, <1>2, <2>1, <2>2, WaitsStay
<1>5. ReadsRight(h) /\ ReadersRight(h) /\ EntriesRight(h)
  BY <1>1, <1>2, ReadsStay DEF Kept
<1>6. LayersRight(h, p.unread, p.unasked)
  <2>1. \A j, d : Seen(h, j, d) = Seen(g, j, d)
    BY <1>1 DEF Seen, SameReads
  <2>2. LayersRight(g, p.unread, p.unasked)
    BY DEF Kept
  <2>3. QED
    BY <1>1, <1>2, <2>1, <2>2 DEF LayersRight
<1>7. ASSUME ~Overlap PROVE HeldRight(h, p.fetching)
  <2>1. ClaimsIn(h, p.fetching) = ClaimsIn(g, p.fetching)
    BY <1>1, <1>2, SameClaims
  <2>2. HeldRight(g, p.fetching)
    BY <1>7 DEF Kept
  <2>3. QED
    BY <1>1, <2>1, <2>2 DEF HeldRight
<1>8. QED
  BY <1>1, <1>2, <1>3, <1>4, <1>5, <1>6, <1>7 DEF Kept

\* The jobs R have all they need.
LEMMA ReadyIsRight ==
  ASSUME NEW g, NEW p, Kept(g, p), NEW R,
         \A j \in R : j \in LiveIn(g) /\ p.announced[j] = <<>> /\ HaveAll(g.job[j])
  PROVE  Kept([g EXCEPT !.ready = g.ready \cup R], p)
<1> DEFINE h == [g EXCEPT !.ready = g.ready \cup R]
<1>1. /\ Typed(g) /\ TellsRight(g, p.announced, p.completed, p.clients)
      /\ g.failed \subseteq p.started /\ g.failed \subseteq Job /\ g.ready \subseteq Job
  BY DEF Kept, Typed
<1>2. /\ DOMAIN h = DOMAIN g /\ h.cache = g.cache /\ h.job = g.job /\ h.asked = g.asked
      /\ h.reads = g.reads /\ h.known = g.known /\ h.waiting = g.waiting
      /\ h.inProgress = g.inProgress /\ h.reader = g.reader /\ h.failed = g.failed
      /\ h.ready = g.ready \cup R
  BY <1>1 DEF Typed
<1> HIDE DEF h
<1>3. LiveIn(h) = LiveIn(g) /\ LiveIn(g) \subseteq Job
  BY <1>2 DEF LiveIn
<1>4. TellsRight(h, p.announced, p.completed, p.clients)
  BY <1>1, <1>2, <1>3 DEF TellsRight
<1>5. SameState(g, h)
  BY <1>2 DEF SameState, SameReads
<1>6. Kept(h, p)
  BY <1>1, <1>2, <1>3, <1>4, <1>5, SameStateKept
<1>7. QED
  BY <1>6 DEF h

\* The handler starts from the state of before.
LEMMA NowIsKept ==
  ASSUME Right
  PROVE  /\ Kept(Now, Around) /\ WaitFull(Now) /\ Typed(Now)
         /\ Now.ready = {} /\ Now.failed = {}
         /\ Now.cache = cache /\ Now.job = job /\ Now.reads = reads /\ Now.known = known
         /\ Now.waiting = waiting /\ Now.inProgress = inProgress /\ Now.asked = asked
         /\ Now.reader = reader
         /\ Around.started = started /\ Around.uploaded = uploaded
         /\ Around.clients = clients /\ Around.fetching = fetching
         /\ Around.announced = announced /\ Around.completed = completed
         /\ Around.unlisted = {} /\ Around.unread = {} /\ Around.unasked = {}
<1>1. Kept(Now, Around) /\ WaitFull(Now)
  BY DEF Right
<1>2. Typed(Now)
  BY <1>1 DEF Kept
<1>3. QED
  BY <1>1, <1>2 DEF Now, Around

-----------------------------------------------------------------------------
(***************************************************************************)
(* start_job.                                                              *)
(***************************************************************************)
\* The job j, which is new, has no artifacts yet.
Begun(g, p, j, h, q) ==
  /\ h.cache = g.cache /\ h.job = [g.job EXCEPT ![j] = NewJob] /\ h.asked = g.asked
  /\ SameReads(g, h) /\ DOMAIN h = DOMAIN g /\ h.ready = g.ready /\ h.failed = g.failed
  /\ q.started = p.started \cup {j} /\ q.uploaded = p.uploaded /\ q.clients = p.clients
  /\ q.fetching = p.fetching /\ q.announced = p.announced /\ q.completed = p.completed
  /\ q.unlisted = p.unlisted /\ q.unread = p.unread /\ q.unasked = {j} \X Digest
  /\ DOMAIN q = DOMAIN p

LEMMA BegunIsRight ==
  ASSUME NEW g, NEW p, Kept(g, p), NEW j \in Job, j \notin p.started, p.announced[j] = <<>>,
         p.unasked = {}, g.ready = {}, NEW h, NEW q, Begun(g, p, j, h, q)
  PROVE  Kept(h, q) /\ LiveIn(h) = LiveIn(g) \cup {j}
<1> DEFINE S == p.started
           L == LiveIn(g)
<1>1. /\ Typed(g) /\ g.failed \subseteq S /\ p.fetching \in [Digest -> Nat]
      /\ LiveRight(g, S) /\ WaitsRight(g, S, p.uploaded, p.clients, p.unlisted)
      /\ ReadsRight(g) /\ ReadersRight(g) /\ EntriesRight(g)
      /\ LayersRight(g, p.unread, p.unasked)
      /\ TellsRight(g, p.announced, p.completed, p.clients)
      /\ (~Overlap => HeldRight(g, p.fetching))
  BY DEF Kept
<1>2. /\ h.cache = g.cache /\ h.job = [g.job EXCEPT ![j] = NewJob] /\ h.asked = g.asked
      /\ SameReads(g, h) /\ DOMAIN h = DOMAIN g /\ h.ready = g.ready /\ h.failed = g.failed
      /\ q.started = S \cup {j} /\ q.uploaded = p.uploaded /\ q.clients = p.clients
      /\ q.fetching = p.fetching /\ q.announced = p.announced /\ q.completed = p.completed
      /\ q.unlisted = p.unlisted /\ q.unread = p.unread /\ q.unasked = {j} \X Digest
      /\ DOMAIN q = DOMAIN p
  BY DEF Begun
<1>3. /\ NewJob.acquired = {} /\ NewJob.being = {} /\ NewJob.reading = {}
      /\ NewJob # NoJob /\ NewJob \in JobRecord /\ BeingAcquired(NewJob) = {}
  BY DEF NewJob, NoJob, JobRecord, BeingAcquired
<1>4. L \subseteq S /\ j \notin L /\ L \subseteq Job /\ IsFiniteSet(L)
  BY <1>1 DEF LiveRight, LiveIn
<1>5. /\ h.job[j] = NewJob /\ \A k \in Job \ {j} : h.job[k] = g.job[k]
      /\ h.job \in [Job -> JobRecord]
  BY <1>1, <1>2, <1>3 DEF Typed
<1>6. LiveIn(h) = L \cup {j}
  BY <1>3, <1>5 DEF LiveIn
<1>7. \A k \in L : k # j /\ h.job[k] = g.job[k]
  BY <1>4, <1>5
<1> HIDE DEF L, S
<1>8. Typed(h)
  BY <1>1, <1>2, <1>5 DEF Typed, SameReads
<1>9. LiveRight(h, q.started)
  <2>1. IsFiniteSet(L \cup {j})
    BY <1>4, FS_AddElement
  <2>2. \A k \in LiveIn(h) : \A b \in h.job[k].being :
           b[1] \notin h.job[k].acquired /\ \A x \in h.job[k].being : x[1] = b[1] => x = b
    BY <1>1, <1>3, <1>5, <1>6, <1>7 DEF LiveRight, L
  <2>3. QED
    BY <1>2, <1>4, <1>6, <2>1, <2>2 DEF LiveRight
<1>10. WaitsRight(h, q.started, q.uploaded, q.clients, q.unlisted)
  <2>1. ASSUME NEW k \in LiveIn(h), Owner(k) \in q.clients, NEW d \in BeingAcquired(h.job[k])
        PROVE  <<d, k>> \in q.unlisted \/ Listed(h.cache.entry[d], k)
    BY <1>1, <1>2, <1>3, <1>5, <1>6, <1>7, <2>1 DEF WaitsRight, L
  <2>2. ASSUME NEW d \in Digest, h.cache.entry[d].st = "getting"
        PROVE  ListRight(h, q.started, q.uploaded, q.clients, d)
    <3>1. ListRight(g, S, p.uploaded, p.clients, d)
      BY <1>1, <1>2, <2>2 DEF WaitsRight
    <3> DEFINE e == g.cache.entry[d]
    <3>2. \A i \in DOMAIN e.jobs : e.jobs[i] \in S /\ e.jobs[i] # j
      BY <3>1 DEF ListRight, S
    <3>3. \A i \in DOMAIN e.jobs : e.jobs[i] \in LiveIn(h)
             => e.jobs[i] \in L /\ h.job[e.jobs[i]] = g.job[e.jobs[i]]
      BY <1>6, <1>7, <3>2
    <3>4. \A i \in DOMAIN e.jobs : e.jobs[i] \in LiveIn(h) => d \in BeingAcquired(h.job[e.jobs[i]])
      BY <3>1, <3>3 DEF ListRight, L
    <3>5. QED
      BY <1>2, <3>1, <3>2, <3>4 DEF ListRight
  <2>3. QED
    BY <2>1, <2>2 DEF WaitsRight
<1>11. ReadsRight(h)
  <2>1. ASSUME NEW k \in Job, NEW d \in Digest
        PROVE  (k \in LiveIn(h) /\ d \in h.job[k].reading) <=> (h.reads[d] # NoRead /\ k \in h.reads[d].jobs)
    <3>1. (k \in L /\ d \in g.job[k].reading) <=> (g.reads[d] # NoRead /\ k \in g.reads[d].jobs)
      BY <1>1, <2>1 DEF ReadsRight, L
    <3>2. CASE k = j
      BY <1>2, <1>3, <1>4, <1>5, <3>1, <3>2 DEF SameReads
    <3>3. CASE k # j
      BY <1>2, <1>5, <1>6, <3>1, <3>3 DEF SameReads
    <3>4. QED
      BY <3>2, <3>3
  <2>2. \A k \in LiveIn(h) : Apart(k) => h.job[k].reading \subseteq Manifests(k)
    BY <1>1, <1>3, <1>5, <1>6, <1>7 DEF ReadsRight, L
  <2>3. QED
    BY <2>1, <2>2 DEF ReadsRight
<1>12. ReadersRight(h) /\ EntriesRight(h)
  <2>1. ReadersOf(h) = ReadersOf(g) /\ InReads(h) = InReads(g)
    BY <1>2 DEF ReadersOf, InReads, SameReads
  <2>2. QED
    BY <1>1, <1>2, <2>1 DEF ReadersRight, EntriesRight, SameReads
<1>13. LayersRight(h, q.unread, q.unasked)
  <2>1. ASSUME NEW k \in L, Apart(k)
        PROVE  /\ \A l \in ToSet(Layers[k]) : <<k, l[1]>> \in q.unasked \/ l[1] \in Has(h.job[k])
               /\ \A b \in h.job[k].being : b[2] <=> b[1] \in Manifests(k)
               /\ \A d \in Manifests(k) : d \in h.job[k].acquired =>
                    <<k, d>> \in q.unread \/ Seen(h, k, d) \subseteq Has(h.job[k])
    <3>1. /\ \A l \in ToSet(Layers[k]) : l[1] \in Has(g.job[k])
          /\ \A b \in g.job[k].being : b[2] <=> b[1] \in Manifests(k)
          /\ \A d \in Manifests(k) : d \in g.job[k].acquired =>
               <<k, d>> \in p.unread \/ Seen(g, k, d) \subseteq Has(g.job[k])
      BY <1>1, <2>1 DEF LayersRight, L
    <3>2. \A d : Seen(h, k, d) = Seen(g, k, d)
      BY <1>2, <1>7, <2>1 DEF Seen, SameReads
    <3>3. QED
      BY <1>2, <1>7, <2>1, <3>1, <3>2
  <2>2. \A l \in ToSet(Layers[j]) : <<j, l[1]>> \in q.unasked
    <3>1. Layers[j] \in Seq(Digest \X BOOLEAN)
      BY GathererAssumption
    <3>2. \A l \in ToSet(Layers[j]) : l \in Digest \X BOOLEAN
      BY <3>1, InSequence
    <3>3. QED
      BY <1>2, <3>2
  <2>3. QED
    BY <1>3, <1>5, <1>6, <2>1, <2>2 DEF LayersRight
<1>14. TellsRight(h, q.announced, q.completed, q.clients)
  <2> DEFINE A == p.announced
  <2>1. /\ \A k \in L : A[k] \in {<<>>, <<"ready">>} /\ (A[k] = <<"ready">> => HaveAll(g.job[k]))
        /\ \A k \in g.failed : A[k] = <<>>
        /\ g.failed \cap L = {} /\ g.failed \subseteq S
        /\ \A k \in Job : A[k] = <<"ready">> /\ Owner(k) \in p.clients /\ k \notin p.completed
                          => k \in L
    BY <1>1 DEF TellsRight, L
  <2>2. A[j] = <<>> /\ h.ready = {} /\ h.failed = g.failed /\ q.announced = A
        /\ q.completed = p.completed /\ q.clients = p.clients /\ A[j] # <<"ready">>
    BY <1>2, Told DEF S
  <2> HIDE DEF A
  <2>3. \A k \in LiveIn(h) : A[k] \in {<<>>, <<"ready">>}
                            /\ (A[k] = <<"ready">> => HaveAll(h.job[k]))
    BY <1>6, <1>7, <2>1, <2>2
  <2>4. g.failed \cap LiveIn(h) = {}
    BY <1>6, <2>1 DEF S
  <2>5. QED
    BY <1>6, <2>1, <2>2, <2>3, <2>4 DEF TellsRight
<1>15. ASSUME ~Overlap PROVE HeldRight(h, q.fetching)
  <2>1. \A d : HeldBy(h, d) = HeldBy(g, d)
    BY <1>3, <1>5, <1>6, <1>7 DEF HeldBy, L
  <2>2. ClaimsIn(h, p.fetching) = ClaimsIn(g, p.fetching)
    BY <2>1 DEF ClaimsIn
  <2>3. HeldRight(g, p.fetching)
    BY <1>1, <1>15
  <2>4. QED
    BY <1>2, <2>2, <2>3 DEF HeldRight
<1>16. Kept(h, q)
  BY <1>1, <1>2, <1>8, <1>9, <1>10, <1>11, <1>12, <1>13, <1>14, <1>15 DEF Kept
<1>17. QED
  BY <1>6, <1>16 DEF L

LEMMA AskedIsRight ==
  ASSUME NEW g, NEW p, Kept(g, p), NEW j, p.unasked = {j} \X Digest,
         \A l \in ToSet(Layers[j]) : l[1] \in Has(g.job[j])
  PROVE  Kept(g, [p EXCEPT !.unasked = {}])
<1> DEFINE q == [p EXCEPT !.unasked = {}]
<1>1. /\ q.started = p.started /\ q.uploaded = p.uploaded /\ q.clients = p.clients
      /\ q.fetching = p.fetching /\ q.announced = p.announced /\ q.completed = p.completed
      /\ q.unlisted = p.unlisted /\ q.unread = p.unread /\ DOMAIN q = DOMAIN p
      /\ q.unasked = {}
  BY DEF Kept
<1> HIDE DEF q
<1>2. LayersRight(g, p.unread, p.unasked)
  BY DEF Kept
<1>3. \A k : \A l : <<k, l[1]>> \in p.unasked => k = j
  OBVIOUS
<1>4. LayersRight(g, q.unread, q.unasked)
  BY <1>1, <1>2, <1>3 DEF LayersRight
<1>5. QED
  BY <1>1, <1>4 DEF Kept, q

LEMMA StartJobIsRight ==
  ASSUME Right, NEW j \in Job, StartJob(j)
  PROVE  Right'
<1> DEFINE p == [Around EXCEPT !.started = started \cup {j}, !.unasked = {j} \X Digest]
           q == [p EXCEPT !.unasked = {}]
           new == [Now EXCEPT !.job[j] = NewJob]
           e == FoldLeft(LAMBDA h, l : Acquire(h, j, l[1], l[2]), new, Layers[j])
           R == IF HaveAll(e.job[j]) THEN {j} ELSE {}
           h == [e EXCEPT !.ready = R]
<1>1. /\ Owner(j) \in clients /\ MayCome(j) /\ started' = started \cup {j} /\ Become(h)
      /\ clients' = clients /\ landed' = landed /\ uploaded' = uploaded
      /\ completed' = completed /\ fetching' = fetching
  BY Zenon DEF StartJob
<1> HIDE DEF e, h
<1>2. /\ clients \subseteq Client /\ landed \subseteq Digest /\ completed \subseteq started
      /\ announced \in [Job -> {<<>>, <<"ready">>, <<"failed">>}]
      /\ \A k \in Job : announced[k] # <<>> => k \in started
      /\ \A k \in LiveIn(Now) : Owner(k) \in clients
      /\ (~Overlap => UploadsRight)
  BY DEF Right
<1>3. /\ Kept(Now, Around) /\ WaitFull(Now) /\ Typed(Now)
      /\ Now.ready = {} /\ Now.failed = {}
      /\ Around.started = started /\ Around.uploaded = uploaded
      /\ Around.clients = clients /\ Around.fetching = fetching
      /\ Around.announced = announced /\ Around.completed = completed
      /\ Around.unlisted = {} /\ Around.unread = {} /\ Around.unasked = {}
  BY NowIsKept
<1>4. j \notin started /\ announced[j] = <<>>
  BY <1>1, <1>2 DEF MayCome
<1>5. Begun(Now, Around, j, new, p)
  BY <1>3 DEF Begun, SameReads, Now, Around
<1>6. /\ p.started = started \cup {j} /\ p.uploaded = uploaded /\ p.clients = clients
      /\ p.fetching = fetching /\ p.announced = announced /\ p.completed = completed
      /\ p.unlisted = {} /\ p.unread = {} /\ p.unasked = {j} \X Digest
  BY <1>3, <1>5 DEF Begun
<1>7. q.started = started \cup {j} /\ q.uploaded = uploaded /\ q.clients = clients
      /\ q.fetching = fetching /\ q.announced = announced /\ q.completed = completed
      /\ q.unlisted = {} /\ q.unread = {} /\ q.unasked = {}
  BY <1>6 DEF Around
<1> HIDE DEF p
<1>8. new.ready = {} /\ WaitFull(new) /\ new.failed = {}
  BY <1>3, <1>5 DEF Begun, SameReads, WaitFull
<1> HIDE DEF new
<1>9. Kept(new, p) /\ LiveIn(new) = LiveIn(Now) \cup {j}
  BY <1>3, <1>4, <1>5, BegunIsRight
<1>10. MayTake(new, p, j)
  BY <1>1, <1>4, <1>6, <1>8, <1>9 DEF MayTake
<1>11. Started(new, p, j, e)
  <2>1. p.unread = {}
    BY <1>6
  <2>2. QED
    BY <1>10, <2>1, AllLayersAcquired, Zenon DEF e
<1>12. /\ Kept(e, p) /\ Grows(new, j, e) /\ WaitFull(e)
       /\ \A l \in ToSet(Layers[j]) : l[1] \in Has(e.job[j])
  BY <1>8, <1>11 DEF Started
<1>13. /\ LiveIn(e) = LiveIn(Now) \cup {j} /\ e.ready = {} /\ e.failed = {}
  BY <1>8, <1>9, <1>12 DEF Grows
<1>14. Kept(e, q)
  BY <1>6, <1>12, AskedIsRight
<1> HIDE DEF q
<1>15. \A k \in R : k \in LiveIn(e) /\ q.announced[k] = <<>> /\ HaveAll(e.job[k])
  BY <1>4, <1>7, <1>13
<1>16. e.ready \cup R = R
  BY <1>13
<1> HIDE DEF R
<1>17. Kept(h, q)
  BY <1>14, <1>15, <1>16, ReadyIsRight DEF h
<1>18. h.waiting = e.waiting /\ h.inProgress = e.inProgress /\ h.job = e.job
  BY <1>12 DEF Kept, Typed, h
<1>19. WaitFull(h) /\ LiveIn(h) = LiveIn(e)
  BY <1>12, <1>18 DEF WaitFull, LiveIn
<1>20. Tells(h)
  <2>1. TellsRight(h, announced, completed, clients)
    BY <1>7, <1>17 DEF Kept
  <2>2. QED
    BY <1>1, <1>2, <2>1, BecomeTells
<1>21. UploadsRight => UploadsRight'
  BY <1>1 DEF UploadsRight
<1>22. \A k \in LiveIn(h) : Owner(k) \in clients'
  BY <1>1, <1>2, <1>13, <1>19
<1>23. Ends(h, q)
  BY <1>1, <1>2, <1>7, <1>17, <1>19, <1>20, <1>21, <1>22 DEF Ends, Become
<1>24. QED
  BY <1>23, EndsRight

-----------------------------------------------------------------------------
(***************************************************************************)
(* try_pop_job and drop_job.                                               *)
(***************************************************************************)
\* The references of j are one claim less each.
LEMMA FewerClaims ==
  ASSUME NEW g, NEW S, LiveRight(g, S), NEW F \in [Digest -> Nat],
         NEW j \in LiveIn(g), g.job[j].acquired \subseteq Digest,
         NEW h, LiveIn(h) = LiveIn(g) \ {j},
         \A k \in LiveIn(h) : h.job[k] = g.job[k]
  PROVE  /\ ClaimsIn(h, F) = Without(ClaimsIn(g, F), g.job[j].acquired)
         /\ \A d \in g.job[j].acquired : ClaimsIn(g, F)[d] > 0
<1> DEFINE A == g.job[j].acquired
           N == ClaimsIn(g, F)
<1>1. N \in [Digest -> Nat] /\ \A d : IsFiniteSet(HeldBy(g, d))
  BY ClaimsTyped
<1>2. \A d : d \notin A => HeldBy(h, d) = HeldBy(g, d)
  BY DEF HeldBy
<1>3. \A d \in A : HeldBy(h, d) = HeldBy(g, d) \ {j} /\ j \in HeldBy(g, d)
  BY DEF HeldBy
<1>4. ASSUME NEW d \in A
      PROVE  /\ Cardinality(HeldBy(h, d)) = Cardinality(HeldBy(g, d)) - 1
             /\ Cardinality(HeldBy(g, d)) \in Nat \ {0}
  <2> DEFINE Q == HeldBy(g, d)
             R == HeldBy(h, d)
  <2>1. IsFiniteSet(Q) /\ R = Q \ {j} /\ j \in Q
    BY <1>1, <1>3
  <2> HIDE DEF Q, R
  <2>2. Cardinality(R) = Cardinality(Q) - 1 /\ Cardinality(Q) \in Nat /\ Cardinality(R) \in Nat
    <3>1. IsFiniteSet(R)
      BY <2>1, FS_Subset
    <3>2. QED
      BY <2>1, <3>1, FS_RemoveElement, FS_CardinalityType
  <2>3. Cardinality(Q) \in Nat \ {0}
    BY <2>2
  <2>4. QED
    BY <2>2, <2>3 DEF Q, R
<1>5. ASSUME NEW d \in Digest
      PROVE  ClaimsIn(h, F)[d] = (IF d \in A THEN N[d] - 1 ELSE N[d]) /\ (d \in A => N[d] > 0)
  <2> DEFINE a == Cardinality(HeldBy(g, d))
             b == Cardinality(HeldBy(h, d))
  <2>1. ClaimsIn(h, F)[d] = b + F[d] /\ N[d] = a + F[d] /\ F[d] \in Nat
    BY DEF ClaimsIn
  <2>2. d \notin A => a = b
    BY <1>2
  <2>3. d \in A => b = a - 1 /\ a \in Nat \ {0}
    BY <1>4
  <2> HIDE DEF a, b, A, N
  <2>4. QED
    BY <2>1, <2>2, <2>3
<1>6. ClaimsIn(h, F) = Without(N, A)
  <2>1. ClaimsIn(h, F) = [d \in Digest |-> ClaimsIn(h, F)[d]]
    BY DEF ClaimsIn
  <2> HIDE DEF A, N
  <2>2. QED
    BY <1>5, <2>1 DEF Without
<1>7. QED
  BY <1>5, <1>6

\* j may be dropped: the scheduler does not count on it any more.
MayDrop(g, p, j) ==
  /\ Kept(g, p) /\ j \in LiveIn(g) /\ j \notin g.ready
  /\ p.announced[j] = <<"ready">> => Owner(j) \notin p.clients \/ j \in p.completed

\* It was, and the scheduler may be told that it failed.
Drops(g, p, j, h) ==
  /\ MayDrop(g, p, j)
  /\ DOMAIN h = DOMAIN g /\ Released(g.cache, g.job[j].acquired, h.cache)
  /\ h.job = [g.job EXCEPT ![j] = NoJob]
  /\ h.reads = [d \in Digest |-> IF d \in g.job[j].reading
                                 THEN [g.reads[d] EXCEPT !.jobs = @ \ {j}] ELSE g.reads[d]]
  /\ h.known = g.known /\ h.waiting = g.waiting /\ h.inProgress = g.inProgress
  /\ h.asked = g.asked /\ h.reader = g.reader /\ h.ready = g.ready
  /\ \/ h.failed = g.failed
     \/ h.failed = g.failed \cup {j} /\ p.announced[j] = <<>>

\* What else there is stays.
Dropped(g, p, j, h) ==
  /\ Kept(h, p) /\ LiveIn(h) = LiveIn(g) \ {j}
  /\ \A k \in Job \ {j} : h.job[k] = g.job[k]
  /\ h.ready = g.ready /\ h.failed \subseteq g.failed \cup {j}
  /\ h.known = g.known /\ h.waiting = g.waiting /\ h.inProgress = g.inProgress
  /\ h.reader = g.reader

LEMMA DropsIsRight ==
  ASSUME NEW g, NEW p, NEW j, NEW h, Drops(g, p, j, h)
  PROVE  Dropped(g, p, j, h)
<1> DEFINE S == p.started
           L == LiveIn(g)
           r == g.job[j]
           F == p.fetching
<1>1. /\ Kept(g, p) /\ j \in L /\ j \notin g.ready
      /\ (p.announced[j] = <<"ready">> => Owner(j) \notin p.clients \/ j \in p.completed)
      /\ DOMAIN h = DOMAIN g /\ Released(g.cache, r.acquired, h.cache)
      /\ h.job = [g.job EXCEPT ![j] = NoJob]
      /\ h.reads = [d \in Digest |-> IF d \in r.reading
                                     THEN [g.reads[d] EXCEPT !.jobs = @ \ {j}] ELSE g.reads[d]]
      /\ h.known = g.known /\ h.waiting = g.waiting /\ h.inProgress = g.inProgress
      /\ h.asked = g.asked /\ h.reader = g.reader /\ h.ready = g.ready
      /\ (\/ h.failed = g.failed
          \/ h.failed = g.failed \cup {j} /\ p.announced[j] = <<>>)
  BY DEF Drops, MayDrop
<1>2. /\ Typed(g) /\ g.failed \subseteq S /\ F \in [Digest -> Nat] /\ Spare(g.cache) >= 0
      /\ LiveRight(g, S) /\ WaitsRight(g, S, p.uploaded, p.clients, p.unlisted)
      /\ ReadsRight(g) /\ ReadersRight(g) /\ EntriesRight(g)
      /\ LayersRight(g, p.unread, p.unasked)
      /\ TellsRight(g, p.announced, p.completed, p.clients)
      /\ (~Overlap => HeldRight(g, F))
  BY <1>1 DEF Kept
<1>3. /\ j \in Job /\ r # NoJob /\ r.acquired \in SUBSET Digest /\ r.reading \in SUBSET Digest
  BY <1>1, <1>2, LiveJob
<1>4. L \subseteq S /\ L \subseteq Job /\ IsFiniteSet(L)
  BY <1>2 DEF LiveRight, LiveIn
<1>5. /\ h.job[j] = NoJob /\ \A k \in Job \ {j} : h.job[k] = g.job[k]
      /\ h.job \in [Job -> JobRecord]
  BY <1>1, <1>2, <1>3 DEF Typed, JobRecord
<1>6. LiveIn(h) = L \ {j}
  BY <1>5 DEF LiveIn
<1>7. \A k \in LiveIn(h) : k # j /\ k \in L /\ k \in Job /\ h.job[k] = g.job[k]
  BY <1>4, <1>5, <1>6
<1>8. \A d \in r.reading : d \in Digest /\ g.reads[d] # NoRead /\ j \in g.reads[d].jobs
  BY <1>1, <1>2, <1>3 DEF ReadsRight
<1>9. ASSUME NEW d \in Digest
      PROVE  /\ h.reads[d] \in ReadRecord /\ (h.reads[d] # NoRead <=> g.reads[d] # NoRead)
             /\ g.reads[d] # NoRead => /\ h.reads[d].entries = g.reads[d].entries
                                       /\ h.reads[d].jobs = g.reads[d].jobs \ {j}
  <2>1. g.reads[d] \in ReadRecord
    BY <1>2 DEF Typed
  <2>2. CASE d \in r.reading
    <3>1. h.reads[d] = [g.reads[d] EXCEPT !.jobs = @ \ {j}] /\ g.reads[d] # NoRead
      BY <1>1, <1>8, <2>2
    <3>2. g.reads[d] \in [st : {"read"}, jobs : SUBSET Job, entries : SUBSET Digest]
      BY <2>1, <3>1 DEF ReadRecord
    <3>3. QED
      BY <3>1, <3>2 DEF ReadRecord, NoRead
  <2>3. CASE d \notin r.reading
    <3>1. h.reads[d] = g.reads[d]
      BY <1>1, <2>3
    <3>2. g.reads[d] # NoRead => j \notin g.reads[d].jobs
      BY <1>1, <1>2, <1>3, <2>3 DEF ReadsRight
    <3>3. QED
      BY <2>1, <3>1, <3>2
  <2>4. QED
    BY <2>2, <2>3
<1>10. h.reads \in [Digest -> ReadRecord]
  BY <1>1, <1>9
<1> HIDE DEF L, S, F, r
<1>11. CacheTyped(h.cache) /\ Spare(h.cache) = Spare(g.cache) /\ SameWaits(g.cache, h.cache)
  BY <1>1 DEF Released
<1>12. h.failed \subseteq S /\ h.failed \subseteq Job /\ h.failed \subseteq g.failed \cup {j}
  BY <1>1, <1>2, <1>3, <1>4 DEF Typed
<1>13. Typed(h)
  BY <1>1, <1>2, <1>5, <1>10, <1>11, <1>12 DEF Typed
<1>14. LiveRight(h, S)
  <2>1. IsFiniteSet(L \ {j})
    BY <1>4, FS_Subset
  <2>2. QED
    BY <1>2, <1>4, <1>6, <1>7, <2>1 DEF LiveRight, L
<1>15. WaitsRight(h, S, p.uploaded, p.clients, p.unlisted)
  <2>1. ASSUME NEW k \in LiveIn(h), Owner(k) \in p.clients, NEW d \in BeingAcquired(h.job[k])
        PROVE  <<d, k>> \in p.unlisted \/ Listed(h.cache.entry[d], k)
    <3>1. h.job[k] = g.job[k] /\ k \in LiveIn(g)
      BY <1>7, <2>1 DEF L
    <3>2. <<d, k>> \in p.unlisted \/ Listed(g.cache.entry[d], k)
      BY <1>2, <2>1, <3>1 DEF WaitsRight
    <3>3. d \in Digest
      <4>1. g.job[k] \in [st : {"job"}, acquired : SUBSET Digest,
                          being : SUBSET (Digest \X BOOLEAN), reading : SUBSET Digest]
        BY <1>2, <3>1, LiveJob
      <4>2. QED
        BY <2>1, <3>1, <4>1 DEF BeingAcquired
    <3>4. QED
      BY <1>11, <3>2, <3>3 DEF Listed, SameWaits
  <2>2. ASSUME NEW d \in Digest, h.cache.entry[d].st = "getting"
        PROVE  ListRight(h, S, p.uploaded, p.clients, d)
    <3>1. h.cache.entry[d] = g.cache.entry[d]
      BY <1>11, <2>2 DEF SameWaits
    <3>2. ListRight(g, S, p.uploaded, p.clients, d)
      BY <1>2, <2>2, <3>1 DEF WaitsRight
    <3>3. QED
      BY <1>1, <1>7, <3>1, <3>2 DEF ListRight, L
  <2>3. QED
    BY <2>1, <2>2 DEF WaitsRight
<1>16. ReadsRight(h)
  <2>1. ASSUME NEW k \in Job, NEW d \in Digest
        PROVE  (k \in LiveIn(h) /\ d \in h.job[k].reading) <=> (h.reads[d] # NoRead /\ k \in h.reads[d].jobs)
    <3>1. (k \in L /\ d \in g.job[k].reading) <=> (g.reads[d] # NoRead /\ k \in g.reads[d].jobs)
      BY <1>2, <2>1 DEF ReadsRight, L
    <3>2. CASE k = j
      BY <1>6, <1>9, <3>2
    <3>3. CASE k # j
      BY <1>5, <1>6, <1>9, <3>1, <3>3
    <3>4. QED
      BY <3>2, <3>3
  <2>2. \A k \in LiveIn(h) : Apart(k) => h.job[k].reading \subseteq Manifests(k)
    BY <1>2, <1>7 DEF ReadsRight, L
  <2>3. QED
    BY <2>1, <2>2 DEF ReadsRight
<1>17. ReadersRight(h) /\ EntriesRight(h)
  <2>1. ReadersOf(h) = ReadersOf(g) /\ InReads(h) = InReads(g)
    BY <1>1, <1>9 DEF ReadersOf, InReads
  <2>2. ReadersRight(h)
    BY <1>1, <1>2, <2>1 DEF ReadersRight
  <2>3. EntriesRight(h)
    BY <1>1, <1>2, <1>9 DEF EntriesRight
  <2>4. QED
    BY <2>2, <2>3
<1>18. LayersRight(h, p.unread, p.unasked)
  <2>1. ASSUME NEW k \in LiveIn(h), NEW d \in Digest
        PROVE  Seen(h, k, d) = Seen(g, k, d)
    <3>1. h.job[k] = g.job[k] /\ k \in L /\ k \in Job
      BY <1>7, <2>1
    <3>2. d \in g.job[k].reading => g.reads[d] # NoRead
      BY <1>2, <3>1 DEF ReadsRight, L
    <3>3. QED
      BY <1>9, <3>1, <3>2 DEF Seen
  <2>2. \A k \in LiveIn(h) : h.job[k].acquired \subseteq Digest
    BY <1>13, LiveJob
  <2>3. QED
    BY <1>2, <1>7, <2>1, <2>2 DEF LayersRight, L
<1>19. TellsRight(h, p.announced, p.completed, p.clients)
  <2>1. \A k \in Job : p.announced[k] = <<"ready">> /\ Owner(k) \in p.clients /\ k \notin p.completed
                         => k \in LiveIn(h)
    BY <1>1, <1>2, <1>6 DEF TellsRight, L
  <2>2. h.ready \subseteq LiveIn(h)
    BY <1>1, <1>2, <1>6 DEF TellsRight, L
  <2>3. h.failed \cap LiveIn(h) = {}
    BY <1>2, <1>6, <1>12 DEF TellsRight, L
  <2>4. \A k \in h.ready \cup h.failed : p.announced[k] = <<>>
    BY <1>1, <1>2 DEF TellsRight
  <2>5. QED
    BY <1>1, <1>2, <1>7, <2>1, <2>2, <2>3, <2>4 DEF TellsRight, L
<1>20. ASSUME ~Overlap PROVE HeldRight(h, F)
  <2> DEFINE N == ClaimsIn(g, F)
  <2>1. N \in [Digest -> Nat]
    BY <1>2, ClaimsTyped
  <2>2. ClaimsIn(h, F) = Without(N, r.acquired) /\ \A d \in r.acquired : N[d] > 0
    BY <1>1, <1>2, <1>3, <1>6, <1>7, FewerClaims DEF L, r
  <2>3. CacheGood(g.cache) /\ Spare(g.cache) = 0 /\ Covers(g.cache, N)
    BY <1>2, <1>20 DEF HeldRight
  <2> HIDE DEF N
  <2>4. CacheGood(h.cache) /\ Covers(h.cache, Without(N, r.acquired))
    BY <1>1, <2>1, <2>2, <2>3 DEF Released
  <2>5. QED
    BY <1>11, <2>2, <2>3, <2>4 DEF HeldRight
<1>21. Kept(h, p)
  BY <1>1, <1>2, <1>11, <1>12, <1>13, <1>14, <1>15, <1>16, <1>17, <1>18, <1>19, <1>20 DEF Kept, F, S
<1>22. QED
  BY <1>1, <1>5, <1>6, <1>12, <1>21 DEF Dropped, L

LEMMA DropJobDrops ==
  ASSUME NEW g, NEW p, NEW j, MayDrop(g, p, j), NEW ord \in Orders
  PROVE  /\ Drops(g, p, j, DropJob(g, j, ord))
         /\ p.announced[j] = <<>> =>
              Drops(g, p, j, [DropJob(g, j, ord) EXCEPT !.failed = @ \cup {j}])
<1> DEFINE r == g.job[j]
           b == Release(g.cache, r.acquired, ord)
           Left(d) == IF d \in r.reading
                      THEN [g.reads[d] EXCEPT !.jobs = @ \ {j}] ELSE g.reads[d]
           left == [d \in Digest |-> Left(d)]
           h == [g EXCEPT !.cache = b, !.reads = left, !.job[j] = NoJob]
           f == [h EXCEPT !.failed = @ \cup {j}]
<1>1. DropJob(g, j, ord) = h
  BY DEF DropJob
<1>2. Typed(g) /\ j \in LiveIn(g)
  BY DEF MayDrop, Kept
<1>3. r.acquired \in SUBSET Digest
  BY <1>2, LiveJob
<1>4. CacheTyped(g.cache)
  BY <1>2 DEF Typed
<1>5. Released(g.cache, r.acquired, b)
  BY <1>3, <1>4, ReleaseIsRight
<1> HIDE DEF b, left, r
<1>6. DOMAIN g = {"cache", "job", "reads", "known", "waiting", "inProgress", "asked",
                  "reader", "ready", "failed"}
  BY <1>2 DEF Typed
<1>7. /\ DOMAIN h = DOMAIN g /\ h.cache = b /\ h.job = [g.job EXCEPT ![j] = NoJob]
      /\ h.reads = left /\ h.known = g.known /\ h.waiting = g.waiting
      /\ h.inProgress = g.inProgress /\ h.asked = g.asked /\ h.reader = g.reader
      /\ h.ready = g.ready /\ h.failed = g.failed
  BY <1>6
<1> HIDE DEF h
<1>8. /\ DOMAIN f = DOMAIN g /\ f.cache = b /\ f.job = [g.job EXCEPT ![j] = NoJob]
      /\ f.reads = left /\ f.known = g.known /\ f.waiting = g.waiting
      /\ f.inProgress = g.inProgress /\ f.asked = g.asked /\ f.reader = g.reader
      /\ f.ready = g.ready /\ f.failed = g.failed \cup {j}
  BY <1>6, <1>7
<1> HIDE DEF f
<1>9. Drops(g, p, j, h)
  BY <1>5, <1>7 DEF Drops, r, left
<1>10. p.announced[j] = <<>> => Drops(g, p, j, f)
  BY <1>5, <1>8 DEF Drops, r, left
<1>11. [DropJob(g, j, ord) EXCEPT !.failed = @ \cup {j}] = f
  BY <1>1 DEF f
<1>12. QED
  BY <1>1, <1>9, <1>10, <1>11

\* The first n of the jobs in a list have been dropped.
Gone(r, n, h) ==
  /\ Kept(h, r.around)
  /\ LiveIn(h) = LiveIn(r.from) \ {r.list[i] : i \in 1 .. n}
  /\ \A k \in LiveIn(h) : h.job[k] = r.from.job[k]
  /\ h.ready = r.from.ready /\ h.known = r.from.known /\ h.waiting = r.from.waiting
  /\ h.inProgress = r.from.inProgress /\ h.reader = r.from.reader

LEMMA OneMoreGone ==
  ASSUME NEW r, NEW n \in Nat \ {0}, NEW a, Gone(r, n - 1, a)
  PROVE  /\ r.list[n] \notin LiveIn(a) => Gone(r, n, a)
         /\ \A b : Dropped(a, r.around, r.list[n], b) => Gone(r, n, b)
<1> DEFINE j == r.list[n]
           G(m) == {r.list[i] : i \in 1 .. m}
<1>1. G(n) = G(n - 1) \cup {j}
  <2>1. \A i \in 1 .. n : i \in 1 .. n - 1 \/ i = n
    OBVIOUS
  <2>2. \A i \in 1 .. n - 1 : i \in 1 .. n
    OBVIOUS
  <2>3. n \in 1 .. n
    OBVIOUS
  <2>4. QED
    BY <2>1, <2>2, <2>3
<1>2. LiveIn(a) = LiveIn(r.from) \ G(n - 1)
  BY DEF Gone
<1> HIDE DEF G
<1>3. LiveIn(a) \ {j} = LiveIn(r.from) \ G(n)
  BY <1>1, <1>2
<1>4. ASSUME j \notin LiveIn(a) PROVE Gone(r, n, a)
  <2>1. LiveIn(a) = LiveIn(r.from) \ G(n)
    BY <1>3, <1>4
  <2>2. QED
    BY <2>1 DEF Gone, G
<1>5. ASSUME NEW b, Dropped(a, r.around, j, b) PROVE Gone(r, n, b)
  <2>1. LiveIn(b) = LiveIn(r.from) \ G(n)
    BY <1>3, <1>5 DEF Dropped
  <2>2. \A k \in LiveIn(b) : k \in LiveIn(a) /\ k \in Job \ {j}
    BY <1>5 DEF Dropped, LiveIn
  <2>3. \A k \in LiveIn(b) : b.job[k] = r.from.job[k]
    BY <1>5, <2>2 DEF Dropped, Gone
  <2>4. QED
    BY <1>5, <2>1, <2>3 DEF Gone, Dropped, G
<1>6. QED
  BY <1>4, <1>5

FailStep(p, o, h, j) ==
  IF h.job[j] = NoJob THEN h
  ELSE [DropJob(h, j, p) EXCEPT !.failed = @ \cup {j}]
DropStep(p, o, h, j) == DropJob(h, j, p)
Fails == INSTANCE FoldTheorems WITH Op <- FailStep, Inv <- Gone
DropsAll == INSTANCE FoldTheorems WITH Op <- DropStep, Inv <- Gone

LEMMA FailFold ==
  ASSUME NEW g, NEW js, NEW ord
  PROVE  FailJobs(g, js, ord) = Fails!Fold(ord, 0, g, js)
BY DEF FailJobs, Fails!Fold, FailStep, FoldLeft, MapThenFoldSet, Max,
       Fails!Greatest

LEMMA DropFold ==
  ASSUME NEW g, NEW js, NEW ord
  PROVE  FoldLeft(LAMBDA h, j : DropJob(h, j, ord), g, js) = DropsAll!Fold(ord, 0, g, js)
BY DEF DropsAll!Fold, DropStep, FoldLeft, MapThenFoldSet, Max,
       DropsAll!Greatest

\* All the jobs in the list have been dropped.
AllGone(g, p, js, h) ==
  /\ Kept(h, p) /\ LiveIn(h) = LiveIn(g) \ ToSet(js)
  /\ \A k \in LiveIn(h) : h.job[k] = g.job[k]
  /\ h.ready = g.ready /\ h.known = g.known /\ h.waiting = g.waiting
  /\ h.inProgress = g.inProgress /\ h.reader = g.reader

LEMMA GoneAll ==
  ASSUME NEW g, NEW p, NEW js \in Seq(Job), NEW r, r.around = p, r.from = g, r.list = js,
         NEW h, Gone(r, Len(js), h)
  PROVE  AllGone(g, p, js, h)
<1>1. ToSet(js) = {js[i] : i \in 1 .. Len(js)}
  BY DEF ToSet
<1>2. QED
  BY <1>1 DEF Gone, AllGone

LEMMA NoneGone ==
  ASSUME NEW g, NEW p, Kept(g, p), NEW r, r.around = p, r.from = g
  PROVE  Gone(r, 0, g)
<1>1. {r.list[i] : i \in 1 .. 0} = {}
  OBVIOUS
<1>2. QED
  BY <1>1 DEF Gone

LEMMA FailJobsIsRight ==
  ASSUME NEW g, NEW p, Kept(g, p), NEW js \in Seq(Job), NEW ord \in Orders,
         \A j \in ToSet(js) : j \in LiveIn(g) => p.announced[j] = <<>> /\ j \notin g.ready
  PROVE  AllGone(g, p, js, FailJobs(g, js, ord))
<1> DEFINE r == [around |-> p, from |-> g, list |-> js]
           e == Fails!Fold(ord, 0, g, js)
<1>1. r.around = p /\ r.from = g /\ r.list = js
  OBVIOUS
<1> HIDE DEF r
<1>2. Gone(r, 0, g)
  BY <1>1, NoneGone
<1>3. ASSUME NEW a, NEW n \in 1 .. Len(js), js[n] \in Job, Gone(r, n - 1, a)
      PROVE  Gone(r, n, FailStep(ord, 0, a, js[n]))
  <2> DEFINE j == js[n]
             b == [DropJob(a, j, ord) EXCEPT !.failed = @ \cup {j}]
  <2>1. n \in Nat \ {0}
    OBVIOUS
  <2>2. CASE a.job[j] = NoJob
    <3>1. j \notin LiveIn(a)
      BY <2>2 DEF LiveIn
    <3>2. Gone(r, n, a)
      BY <1>1, <1>3, <2>1, <3>1, OneMoreGone
    <3>3. QED
      BY <2>2, <3>2 DEF FailStep
  <2>3. CASE a.job[j] # NoJob
    <3>1. j \in LiveIn(a) /\ j \in LiveIn(g) /\ Kept(a, p) /\ a.ready = g.ready
      BY <1>1, <1>3, <2>3 DEF LiveIn, Gone
    <3>2. j \in ToSet(js)
      BY InSequence
    <3>3. p.announced[j] = <<>> /\ j \notin a.ready
      BY <3>1, <3>2
    <3>4. MayDrop(a, p, j)
      BY <3>1, <3>3, Told DEF MayDrop
    <3>5. Drops(a, p, j, b)
      BY <3>3, <3>4, DropJobDrops
    <3> HIDE DEF b
    <3>6. Dropped(a, p, j, b)
      BY <3>5, DropsIsRight
    <3>7. Gone(r, n, b)
      BY <1>1, <1>3, <2>1, <3>6, OneMoreGone
    <3>8. QED
      BY <2>3, <3>7 DEF FailStep, b
  <2>4. QED
    BY <2>2, <2>3
<1>4. Gone(r, Len(js), e)
  BY <1>2, <1>3, LeastOf, Fails!FoldKeeps
<1> HIDE DEF e
<1>5. AllGone(g, p, js, e)
  BY <1>1, <1>4, GoneAll
<1>6. QED
  BY <1>5, FailFold DEF e

LEMMA DropAllIsRight ==
  ASSUME NEW g, NEW p, Kept(g, p), NEW js \in Seq(Job), IsInjective(js), NEW ord \in Orders,
         \A j \in ToSet(js) : MayDrop(g, p, j)
  PROVE  AllGone(g, p, js, FoldLeft(LAMBDA h, j : DropJob(h, j, ord), g, js))
<1> DEFINE r == [around |-> p, from |-> g, list |-> js]
           e == DropsAll!Fold(ord, 0, g, js)
<1>1. r.around = p /\ r.from = g /\ r.list = js
  OBVIOUS
<1> HIDE DEF r
<1>2. Gone(r, 0, g)
  BY <1>1, NoneGone
<1>3. ASSUME NEW a, NEW n \in 1 .. Len(js), js[n] \in Job, Gone(r, n - 1, a)
      PROVE  Gone(r, n, DropStep(ord, 0, a, js[n]))
  <2> DEFINE j == js[n]
             b == DropJob(a, j, ord)
  <2>1. n \in Nat \ {0}
    OBVIOUS
  <2>2. MayDrop(g, p, j)
    <3>1. j \in ToSet(js)
      BY InSequence
    <3>2. QED
      BY <3>1
  <2>3. j \notin {js[i] : i \in 1 .. n - 1}
    <3>1. \A i \in 1 .. n - 1 : i \in DOMAIN js /\ i # n
      OBVIOUS
    <3>2. \A i \in 1 .. n - 1 : js[i] # j
      BY <3>1 DEF IsInjective
    <3>3. QED
      BY <3>2
  <2>4. j \in LiveIn(a) /\ Kept(a, p) /\ a.ready = g.ready
    BY <1>1, <1>3, <2>2, <2>3 DEF MayDrop, Gone
  <2>5. MayDrop(a, p, j)
    BY <2>2, <2>4 DEF MayDrop
  <2>6. Drops(a, p, j, b)
    BY <2>5, DropJobDrops
  <2> HIDE DEF b
  <2>7. Dropped(a, p, j, b)
    BY <2>6, DropsIsRight
  <2>8. Gone(r, n, b)
    BY <1>1, <1>3, <2>1, <2>7, OneMoreGone
  <2>9. QED
    BY <2>8 DEF DropStep, b
<1>4. Gone(r, Len(js), e)
  BY <1>2, <1>3, LeastOf, DropsAll!FoldKeeps
<1> HIDE DEF e
<1>5. AllGone(g, p, js, e)
  BY <1>1, <1>4, GoneAll
<1>6. QED
  BY <1>5, DropFold, Zenon DEF e

\* A handler that is told of no client and no new job ends in g.
EndsAmong(g, p) ==
  /\ Kept(g, p) /\ WaitFull(g) /\ Become(g) /\ LiveIn(g) \subseteq LiveIn(Now)
  /\ p.started = started /\ p.uploaded = uploaded' /\ p.clients = clients
  /\ p.fetching = fetching /\ p.announced = announced /\ p.completed = completed'
  /\ p.unlisted = {} /\ p.unread = {} /\ p.unasked = {}
  /\ started' = started /\ clients' = clients /\ fetching' = fetching
  /\ landed' \subseteq Digest /\ completed' \subseteq started
  /\ ~Overlap => UploadsRight'

LEMMA EndsAmongRight ==
  ASSUME Right, NEW g, NEW p, EndsAmong(g, p)
  PROVE  Right'
<1>1. /\ clients \subseteq Client /\ announced \in [Job -> {<<>>, <<"ready">>, <<"failed">>}]
      /\ \A k \in LiveIn(Now) : Owner(k) \in clients
  BY DEF Right
<1>2. /\ Kept(g, p) /\ WaitFull(g) /\ Become(g) /\ LiveIn(g) \subseteq LiveIn(Now)
      /\ p.started = started /\ p.uploaded = uploaded' /\ p.clients = clients
      /\ p.fetching = fetching /\ p.announced = announced /\ p.completed = completed'
      /\ p.unlisted = {} /\ p.unread = {} /\ p.unasked = {}
      /\ started' = started /\ clients' = clients /\ fetching' = fetching
      /\ landed' \subseteq Digest /\ completed' \subseteq started
      /\ (~Overlap => UploadsRight')
  BY DEF EndsAmong
<1>3. Tells(g)
  <2>1. TellsRight(g, announced, p.completed, p.clients)
    BY <1>2 DEF Kept
  <2>2. QED
    BY <1>1, <1>2, <2>1, BecomeTells
<1>4. \A k \in LiveIn(g) : Owner(k) \in clients'
  BY <1>1, <1>2
<1>5. Ends(g, p)
  BY <1>1, <1>2, <1>3, <1>4 DEF Ends, Become
<1>6. QED
  BY <1>5, EndsRight

\* Another set of completed jobs.
LEMMA CompletedIsRight ==
  ASSUME NEW g, NEW p, Kept(g, p), NEW D, p.completed \subseteq D
  PROVE  Kept(g, [p EXCEPT !.completed = D])
<1> DEFINE q == [p EXCEPT !.completed = D]
<1>1. /\ q.started = p.started /\ q.uploaded = p.uploaded /\ q.clients = p.clients
      /\ q.fetching = p.fetching /\ q.announced = p.announced /\ q.unlisted = p.unlisted
      /\ q.unread = p.unread /\ q.unasked = p.unasked /\ DOMAIN q = DOMAIN p
      /\ q.completed = D
  BY DEF Kept
<1> HIDE DEF q
<1>2. TellsRight(g, p.announced, p.completed, p.clients)
  BY DEF Kept
<1>3. TellsRight(g, q.announced, q.completed, q.clients)
  BY <1>1, <1>2 DEF TellsRight
<1>4. QED
  BY <1>1, <1>3 DEF Kept, q

LEMMA UploadsStay ==
  ASSUME uploaded' = uploaded, landed' = landed
  PROVE  UploadsRight => UploadsRight'
BY DEF UploadsRight

LEMMA JobCompletedIsRight ==
  ASSUME Right, NEW j \in Job, NEW ord \in Orders, JobCompleted(j, ord)
  PROVE  Right' /\ job[j] # NoJob /\ HaveAll(job[j])
<1> DEFINE p == [Around EXCEPT !.completed = completed \cup {j}]
           h == DropJob(Now, j, ord)
<1>1. /\ announced[j] # <<>> /\ announced[j][1] = "ready"
      /\ Owner(j) \in clients /\ j \notin completed
      /\ completed' = completed \cup {j} /\ clients' = clients /\ landed' = landed
      /\ started' = started /\ uploaded' = uploaded /\ fetching' = fetching
      /\ Become(IF job[j] = NoJob \/ ~HaveAll(job[j]) THEN Panic(Now) ELSE h)
  BY DEF JobCompleted
<1> HIDE DEF h
<1>2. /\ clients \subseteq Client /\ landed \subseteq Digest /\ completed \subseteq started
      /\ announced \in [Job -> {<<>>, <<"ready">>, <<"failed">>}]
      /\ \A k \in Job : announced[k] # <<>> => k \in started
      /\ (~Overlap => UploadsRight)
  BY DEF Right
<1>3. /\ Kept(Now, Around) /\ WaitFull(Now) /\ Typed(Now)
      /\ Now.ready = {} /\ Now.failed = {} /\ Now.job = job
      /\ Around.started = started /\ Around.uploaded = uploaded
      /\ Around.clients = clients /\ Around.fetching = fetching
      /\ Around.announced = announced /\ Around.completed = completed
      /\ Around.unlisted = {} /\ Around.unread = {} /\ Around.unasked = {}
  BY NowIsKept
<1>4. announced[j] = <<"ready">>
  <2>1. <<"failed">>[1] = "failed" /\ "failed" # "ready"
    OBVIOUS
  <2>2. announced[j] \in {<<>>, <<"ready">>, <<"failed">>}
    BY <1>2
  <2>3. QED
    BY <1>1, <2>1, <2>2
<1>5. TellsRight(Now, announced, completed, clients)
  BY <1>3 DEF Kept
<1>6. j \in LiveIn(Now) /\ HaveAll(Now.job[j])
  BY <1>1, <1>4, <1>5 DEF TellsRight
<1>7. job[j] # NoJob /\ HaveAll(job[j])
  BY <1>3, <1>6 DEF LiveIn
<1>8. Become(h)
  BY <1>1, <1>7
<1>9. /\ p.started = started /\ p.uploaded = uploaded /\ p.clients = clients
      /\ p.fetching = fetching /\ p.announced = announced /\ p.completed = completed \cup {j}
      /\ p.unlisted = {} /\ p.unread = {} /\ p.unasked = {}
  BY DEF Around
<1>10. Kept(Now, p)
  BY <1>3, CompletedIsRight
<1> HIDE DEF p
<1>11. MayDrop(Now, p, j)
  BY <1>3, <1>6, <1>9, <1>10 DEF MayDrop
<1>12. Drops(Now, p, j, h)
  BY <1>11, DropJobDrops DEF h
<1>13. Dropped(Now, p, j, h)
  BY <1>12, DropsIsRight
<1>14. Kept(h, p) /\ WaitFull(h) /\ LiveIn(h) \subseteq LiveIn(Now)
  BY <1>3, <1>13 DEF Dropped, WaitFull
<1>15. completed' \subseteq started
  BY <1>1, <1>2
<1>16. EndsAmong(h, p)
  BY <1>1, <1>2, <1>8, <1>9, <1>14, <1>15, UploadsStay DEF EndsAmong
<1>17. QED
  BY <1>7, <1>16, EndsAmongRight

-----------------------------------------------------------------------------
(***************************************************************************)
(* client_disconnected.                                                    *)
(***************************************************************************)
\* The cache has forgotten the client c, and so has what is around it.
Leaves(g, p, c, h, q) ==
  /\ Forgotten(g.cache, c, h.cache) /\ DOMAIN h = DOMAIN g
  /\ h.job = g.job /\ h.asked = g.asked /\ SameReads(g, h)
  /\ h.ready = g.ready /\ h.failed = g.failed
  /\ q.started = p.started /\ q.clients = p.clients \ {c} /\ q.fetching = p.fetching
  /\ q.announced = p.announced /\ q.completed = p.completed
  /\ q.unlisted = p.unlisted /\ q.unread = p.unread /\ q.unasked = p.unasked
  /\ DOMAIN q = DOMAIN p /\ q.uploaded \in [Client \X Digest -> Nat]
  /\ \A e \in p.clients \ {c} : \A d \in Digest : q.uploaded[<<e, d>>] = p.uploaded[<<e, d>>]

LEMMA LeavesIsRight ==
  ASSUME NEW g, NEW p, Kept(g, p), NEW c, NEW h, NEW q, Leaves(g, p, c, h, q)
  PROVE  Kept(h, q)
<1> DEFINE S == p.started
           L == LiveIn(g)
<1>1. /\ Typed(g) /\ g.failed \subseteq S /\ p.fetching \in [Digest -> Nat] /\ Spare(g.cache) >= 0
      /\ LiveRight(g, S) /\ WaitsRight(g, S, p.uploaded, p.clients, p.unlisted)
      /\ ReadsRight(g) /\ ReadersRight(g) /\ EntriesRight(g)
      /\ LayersRight(g, p.unread, p.unasked)
      /\ TellsRight(g, p.announced, p.completed, p.clients)
      /\ (~Overlap => HeldRight(g, p.fetching))
      /\ DOMAIN p = {"started", "uploaded", "clients", "fetching", "announced", "completed",
                     "unlisted", "unread", "unasked"}
  BY DEF Kept
<1>2. /\ Forgotten(g.cache, c, h.cache) /\ DOMAIN h = DOMAIN g
      /\ h.job = g.job /\ h.asked = g.asked /\ SameReads(g, h)
      /\ h.ready = g.ready /\ h.failed = g.failed
      /\ q.started = S /\ q.clients = p.clients \ {c} /\ q.fetching = p.fetching
      /\ q.announced = p.announced /\ q.completed = p.completed
      /\ q.unlisted = p.unlisted /\ q.unread = p.unread /\ q.unasked = p.unasked
      /\ DOMAIN q = DOMAIN p /\ q.uploaded \in [Client \X Digest -> Nat]
      /\ \A e \in p.clients \ {c} : \A d \in Digest : q.uploaded[<<e, d>>] = p.uploaded[<<e, d>>]
  BY DEF Leaves
<1>3. CacheTyped(h.cache) /\ Spare(h.cache) = Spare(g.cache)
  BY <1>2 DEF Forgotten
<1>4. LiveIn(h) = L
  BY <1>2 DEF LiveIn
<1> HIDE DEF S, L
<1>5. Typed(h)
  BY <1>1, <1>2, <1>3 DEF Typed, SameReads
<1>6. LiveRight(h, S)
  BY <1>1, <1>2, <1>4, LiveStays DEF L
<1>7. WaitsRight(h, S, q.uploaded, q.clients, q.unlisted)
  <2>1. ASSUME NEW k \in LiveIn(h), Owner(k) \in q.clients, NEW d \in BeingAcquired(h.job[k])
        PROVE  <<d, k>> \in q.unlisted \/ Listed(h.cache.entry[d], k)
    <3>1. <<d, k>> \in p.unlisted \/ Listed(g.cache.entry[d], k)
      BY <1>1, <1>2, <1>4, <2>1 DEF WaitsRight, L
    <3>2. d \in Digest /\ k \in Job /\ Owner(k) # c
      <4>1. /\ h.job[k] \in [st : {"job"}, acquired : SUBSET Digest,
                             being : SUBSET (Digest \X BOOLEAN), reading : SUBSET Digest]
            /\ k \in Job
        BY <1>5, <2>1, LiveJob
      <4>2. QED
        BY <1>2, <2>1, <4>1 DEF BeingAcquired
    <3>3. Listed(g.cache.entry[d], k) => Listed(h.cache.entry[d], k)
      BY <1>2, <3>2 DEF Forgotten
    <3>4. QED
      BY <1>2, <3>1, <3>3
  <2>2. ASSUME NEW d \in Digest, h.cache.entry[d].st = "getting"
        PROVE  ListRight(h, S, q.uploaded, q.clients, d)
    <3> DEFINE e == g.cache.entry[d]
               f == h.cache.entry[d]
    <3>1. /\ e.st = "getting" /\ f.getters = e.getters \ {c}
          /\ \A i \in DOMAIN f.jobs : /\ Owner(f.jobs[i]) # c
                                      /\ \E k \in DOMAIN e.jobs : e.jobs[k] = f.jobs[i]
      BY <1>2, <2>2 DEF Forgotten
    <3>2. ListRight(g, S, p.uploaded, p.clients, d)
      BY <1>1, <3>1 DEF WaitsRight
    <3>3. /\ e.getters \subseteq p.clients
          /\ \A x \in e.getters : g.asked[<<x, d>>] + p.uploaded[<<x, d>>] > 0
          /\ \A i \in DOMAIN e.jobs :
               /\ e.jobs[i] \in S /\ Owner(e.jobs[i]) \in e.getters
               /\ e.jobs[i] \in L => d \in BeingAcquired(g.job[e.jobs[i]])
      BY <3>2 DEF ListRight, L
    <3> HIDE DEF e, f
    <3>4. /\ f.getters \subseteq q.clients
          /\ \A x \in f.getters : h.asked[<<x, d>>] + q.uploaded[<<x, d>>] > 0
      <4>1. \A x \in f.getters : x \in p.clients \ {c} /\ x \in e.getters
        BY <3>1, <3>3
      <4>2. \A x \in f.getters : q.uploaded[<<x, d>>] = p.uploaded[<<x, d>>]
        BY <1>2, <4>1
      <4>3. QED
        BY <1>2, <3>3, <4>1, <4>2
    <3>5. \A i \in DOMAIN f.jobs :
               /\ f.jobs[i] \in S /\ Owner(f.jobs[i]) \in f.getters
               /\ f.jobs[i] \in LiveIn(h) => d \in BeingAcquired(h.job[f.jobs[i]])
      <4>1. ASSUME NEW i \in DOMAIN f.jobs
            PROVE  /\ f.jobs[i] \in S /\ Owner(f.jobs[i]) \in f.getters
                   /\ f.jobs[i] \in LiveIn(h) => d \in BeingAcquired(h.job[f.jobs[i]])
        <5>1. PICK k \in DOMAIN e.jobs : e.jobs[k] = f.jobs[i]
          BY <3>1, <4>1
        <5>2. /\ e.jobs[k] \in S /\ Owner(e.jobs[k]) \in e.getters
              /\ (e.jobs[k] \in L => d \in BeingAcquired(g.job[e.jobs[k]]))
          BY <3>3
        <5>3. Owner(f.jobs[i]) # c
          BY <3>1, <4>1
        <5>4. QED
          BY <1>2, <1>4, <3>1, <5>1, <5>2, <5>3
      <4>2. QED
        BY <4>1
    <3>6. QED
      BY <3>4, <3>5 DEF ListRight, f
  <2>3. QED
    BY <2>1, <2>2 DEF WaitsRight
<1>8. ReadsRight(h) /\ ReadersRight(h) /\ EntriesRight(h)
  BY <1>1, <1>2, <1>4, ReadsStay DEF L
<1>9. LayersRight(h, q.unread, q.unasked)
  <2>1. \A k, d : Seen(h, k, d) = Seen(g, k, d)
    BY <1>2 DEF Seen, SameReads
  <2>2. QED
    BY <1>1, <1>2, <1>4, <2>1 DEF LayersRight, L
<1>10. TellsRight(h, q.announced, q.completed, q.clients)
  BY <1>1, <1>2, <1>4 DEF TellsRight, L
<1>11. ASSUME ~Overlap PROVE HeldRight(h, q.fetching)
  <2>1. ClaimsIn(h, p.fetching) = ClaimsIn(g, p.fetching)
    BY <1>2, <1>4, SameClaims DEF L
  <2>2. HeldRight(g, p.fetching)
    BY <1>1, <1>11
  <2>3. QED
    BY <1>2, <1>3, <2>1, <2>2 DEF HeldRight, Forgotten
<1>12. QED
  BY <1>1, <1>2, <1>3, <1>5, <1>6, <1>7, <1>8, <1>9, <1>10, <1>11 DEF Kept, S

LEMMA ClientDisconnectedIsRight ==
  ASSUME Right, NEW c \in Client, NEW ord \in Orders, ClientDisconnected(c, ord)
  PROVE  Right'
<1> DEFINE mine == {j \in Job : Owner(j) = c /\ job[j] # NoJob}
           g == [Now EXCEPT !.cache = GetterDisconnected(@, c)]
           U == [u \in Client \X Digest |-> IF u[1] = c THEN 0 ELSE uploaded[u]]
           p == [Around EXCEPT !.clients = clients \ {c}, !.uploaded = U]
<1>1. /\ clients' = clients \ {c} /\ uploaded' = U /\ landed' = landed
      /\ started' = started /\ completed' = completed /\ fetching' = fetching
  BY Zenon DEF ClientDisconnected
<1>2. PICK js \in SetToSeqs(mine) : Become(FoldLeft(LAMBDA h, j : DropJob(h, j, ord), g, js))
  BY Zenon DEF ClientDisconnected
<1> DEFINE h == FoldLeft(LAMBDA b, j : DropJob(b, j, ord), g, js)
<1>3. Become(h)
  BY <1>2, Zenon
<1> HIDE DEF h
<1>4. /\ clients \subseteq Client /\ landed \subseteq Digest /\ completed \subseteq started
      /\ announced \in [Job -> {<<>>, <<"ready">>, <<"failed">>}]
      /\ \A k \in LiveIn(Now) : Owner(k) \in clients
      /\ (~Overlap => UploadsRight)
  BY DEF Right
<1>5. /\ Kept(Now, Around) /\ WaitFull(Now) /\ Typed(Now) /\ Now.cache = cache
      /\ Now.ready = {} /\ Now.failed = {} /\ Now.job = job
      /\ Around.started = started /\ Around.uploaded = uploaded
      /\ Around.clients = clients /\ Around.fetching = fetching
      /\ Around.announced = announced /\ Around.completed = completed
      /\ Around.unlisted = {} /\ Around.unread = {} /\ Around.unasked = {}
  BY NowIsKept
<1>6. uploaded \in [Client \X Digest -> Nat] /\ LiveRight(Now, started)
  BY <1>5 DEF Kept
<1>7. U \in [Client \X Digest -> Nat]
  BY <1>6
<1>8. \A e \in Client : \A d \in Digest : U[<<e, d>>] = IF e = c THEN 0 ELSE uploaded[<<e, d>>]
  OBVIOUS
<1> HIDE DEF U
<1>9. Leaves(Now, Around, c, g, p)
  <2>1. Forgotten(cache, c, GetterDisconnected(cache, c))
    BY <1>5, ForgottenIsRight DEF Typed
  <2> DEFINE b == GetterDisconnected(cache, c)
  <2>2. g.cache = b /\ DOMAIN g = DOMAIN Now /\ g.job = Now.job /\ g.asked = Now.asked
        /\ SameReads(Now, g) /\ g.ready = Now.ready /\ g.failed = Now.failed
    BY DEF Now, SameReads
  <2>3. /\ p.started = started /\ p.clients = clients \ {c} /\ p.fetching = fetching
        /\ p.announced = announced /\ p.completed = completed /\ p.uploaded = U
        /\ p.unlisted = {} /\ p.unread = {} /\ p.unasked = {} /\ DOMAIN p = DOMAIN Around
    BY DEF Around
  <2> HIDE DEF b, g, p
  <2>4. ASSUME NEW e \in clients \ {c}, NEW d \in Digest
        PROVE  U[<<e, d>>] = uploaded[<<e, d>>]
    <3>1. e \in Client /\ e # c
      BY <1>4
    <3>2. QED
      BY <1>8, <3>1
  <2>5. Forgotten(Now.cache, c, g.cache)
    BY <1>5, <2>1, <2>2 DEF b
  <2>6. QED
    BY <1>5, <1>7, <2>2, <2>3, <2>4, <2>5 DEF Leaves
<1>a. p.uploaded = U
  BY DEF Around
<1> HIDE DEF g, p
<1>10. Kept(g, p)
  BY <1>5, <1>9, LeavesIsRight
<1>b. LiveIn(g) = LiveIn(Now)
  BY <1>9 DEF Leaves, LiveIn
<1>11. /\ g.job = job /\ g.ready = {} /\ LiveIn(g) = LiveIn(Now) /\ SameReads(Now, g)
       /\ p.started = started /\ p.uploaded = U /\ p.clients = clients \ {c}
       /\ p.fetching = fetching /\ p.announced = announced /\ p.completed = completed
       /\ p.unlisted = {} /\ p.unread = {} /\ p.unasked = {}
  BY <1>5, <1>9, <1>a, <1>b DEF Leaves
<1>12. mine \subseteq LiveIn(g) /\ \A k \in LiveIn(g) : Owner(k) = c => k \in mine
  BY <1>11 DEF LiveIn
<1>13. \A k \in mine : Owner(k) = c
  OBVIOUS
<1>14. mine \subseteq Job
  OBVIOUS
<1> HIDE DEF mine
<1>15. IsFiniteSet(mine)
  BY <1>6, <1>11, <1>12, FS_Subset DEF LiveRight
<1>16. js \in Seq(mine) /\ ToSet(js) = mine /\ IsInjective(js)
  <2>1. js \in SetToSeqs(mine)
    OBVIOUS
  <2>2. QED
    BY <1>15, <2>1, AnyOrder
<1>17. js \in Seq(Job)
  BY <1>14, <1>16
<1>18. \A k \in ToSet(js) : MayDrop(g, p, k)
  BY <1>10, <1>11, <1>12, <1>13, <1>16 DEF MayDrop
<1>19. AllGone(g, p, js, h)
  BY <1>10, <1>16, <1>17, <1>18, DropAllIsRight, Zenon DEF h
<1>20. /\ Kept(h, p) /\ LiveIn(h) = LiveIn(g) \ mine
       /\ h.waiting = g.waiting /\ h.inProgress = g.inProgress
  BY <1>16, <1>19 DEF AllGone
<1>21. WaitFull(h)
  BY <1>5, <1>11, <1>20 DEF WaitFull, SameReads
<1>22. \A k \in LiveIn(h) : Owner(k) \in clients'
  BY <1>1, <1>4, <1>11, <1>12, <1>20
<1>23. ASSUME UploadsRight PROVE UploadsRight'
  <2>1. \A e \in Client : \A d \in Digest :
          uploaded'[<<e, d>>] > 0 => uploaded[<<e, d>>] > 0 /\ uploaded'[<<e, d>>] = uploaded[<<e, d>>]
    BY <1>1, <1>8
  <2>2. QED
    BY <1>1, <1>23, <2>1 DEF UploadsRight
<1>24. Tells(h)
  <2>1. TellsRight(h, announced, completed, clients \ {c})
    BY <1>11, <1>20 DEF Kept
  <2>2. QED
    BY <1>3, <1>4, <2>1, BecomeTells
<1>25. clients' \subseteq Client /\ landed' \subseteq Digest
       /\ completed' \subseteq started' /\ started \subseteq started'
  BY <1>1, <1>4
<1>26. Ends(h, p)
  BY <1>1, <1>3, <1>4, <1>11, <1>20, <1>21, <1>22, <1>23, <1>24, <1>25 DEF Ends, Become
<1>27. QED
  BY <1>26, EndsRight

-----------------------------------------------------------------------------
(***************************************************************************)
(* receive_artifact_transferred.                                           *)
(***************************************************************************)
\* Fewer references are held by workers.
LEMMA FewerFetches ==
  ASSUME NEW g, NEW p, Kept(g, p), NEW F \in [Digest -> Nat],
         \A d \in Digest : F[d] <= p.fetching[d]
  PROVE  Kept(g, [p EXCEPT !.fetching = F])
<1> DEFINE q == [p EXCEPT !.fetching = F]
           N == ClaimsIn(g, p.fetching)
           M == ClaimsIn(g, F)
<1>1. /\ q.started = p.started /\ q.uploaded = p.uploaded /\ q.clients = p.clients
      /\ q.completed = p.completed /\ q.announced = p.announced /\ q.unlisted = p.unlisted
      /\ q.unread = p.unread /\ q.unasked = p.unasked /\ DOMAIN q = DOMAIN p
      /\ q.fetching = F
  BY DEF Kept
<1> HIDE DEF q
<1>2. /\ p.fetching \in [Digest -> Nat] /\ LiveRight(g, p.started) /\ CacheTyped(g.cache)
      /\ (~Overlap => HeldRight(g, p.fetching))
  BY DEF Kept, Typed
<1>3. N \in [Digest -> Nat] /\ M \in [Digest -> Nat]
  BY <1>2, ClaimsTyped
<1>4. ASSUME NEW d \in Digest
      PROVE  M[d] <= N[d]
  <2> DEFINE a == Cardinality(HeldBy(g, d))
  <2>1. N[d] = a + p.fetching[d] /\ M[d] = a + F[d]
    BY DEF ClaimsIn
  <2>2. a \in Nat /\ p.fetching[d] \in Nat /\ F[d] \in Nat /\ F[d] <= p.fetching[d]
    <3>1. IsFiniteSet(HeldBy(g, d))
      BY <1>2, ClaimsTyped
    <3>2. QED
      BY <1>2, <3>1, FS_CardinalityType
  <2> HIDE DEF a, N, M
  <2>3. QED
    BY <2>1, <2>2
<1> HIDE DEF M, N
<1>5. ASSUME Covers(g.cache, N) PROVE Covers(g.cache, M)
  <2>1. ASSUME NEW d \in Digest, M[d] > 0
        PROVE  g.cache.entry[d].st = "inUse" /\ g.cache.entry[d].refs >= M[d]
    <3> DEFINE n == N[d]
               m == M[d]
               e == g.cache.entry[d]
    <3>1. n \in Nat /\ m \in Nat /\ m <= n /\ m > 0
      BY <1>3, <1>4, <2>1
    <3>2. n > 0
      BY <3>1
    <3>3. e.st = "inUse" /\ e.refs >= n
      BY <1>5, <3>2 DEF Covers
    <3>4. e \in Entry
      BY <1>2 DEF CacheTyped
    <3>5. e.refs \in Nat
      <4> HIDE DEF e
      <4>1. QED
        BY <3>3, <3>4, FormsOfEntry
    <3> HIDE DEF n, m, e
    <3>6. e.refs >= m
      BY <3>1, <3>3, <3>5
    <3>7. QED
      BY <3>3, <3>6 DEF e, m
  <2>2. QED
    BY <2>1 DEF Covers
<1>6. ASSUME ~Overlap PROVE HeldRight(g, F)
  BY <1>2, <1>5, <1>6 DEF HeldRight, N, M
<1>7. QED
  BY <1>1, <1>6 DEF Kept, q

\* What c uploaded of d has come to the cache, or was lost.
Arrives(g, p, d, got, h, q) ==
  /\ Arrived(g.cache, d, got) /\ (~Overlap => got.ok \/ g.cache.entry[d].st = "getting")
  /\ h.cache = got.cache /\ DOMAIN h = DOMAIN g /\ h.job = g.job /\ h.asked = g.asked
  /\ SameReads(g, h) /\ h.ready = g.ready /\ h.failed = g.failed
  /\ q.started = p.started /\ q.clients = p.clients /\ q.announced = p.announced
  /\ q.completed = p.completed /\ q.unread = p.unread /\ q.unasked = p.unasked
  /\ DOMAIN q = DOMAIN p /\ q.unlisted = {d} \X Job
  /\ q.fetching = IF got.ok THEN MoreBy(p.fetching, d, Len(got.jobs)) ELSE p.fetching
  /\ q.uploaded \in [Client \X Digest -> Nat]
  /\ \A e \in Client : \A x \in Digest \ {d} : q.uploaded[<<e, x>>] = p.uploaded[<<e, x>>]

LEMMA MoreClaims ==
  ASSUME NEW g, NEW S, LiveRight(g, S), NEW F \in [Digest -> Nat], NEW d \in Digest, NEW n \in Nat
  PROVE  /\ MoreBy(F, d, n) \in [Digest -> Nat]
         /\ ClaimsIn(g, MoreBy(F, d, n)) = MoreBy(ClaimsIn(g, F), d, n)
<1> DEFINE G == MoreBy(F, d, n)
           N == ClaimsIn(g, F)
           M == ClaimsIn(g, G)
<1>1. N \in [Digest -> Nat]
  BY ClaimsTyped
<1>2. G \in [Digest -> Nat] /\ G[d] = F[d] + n /\ \A x \in Digest \ {d} : G[x] = F[x]
  BY DEF MoreBy
<1>3. \A x \in Digest : IsFiniteSet(HeldBy(g, x))
  BY ClaimsTyped
<1> HIDE DEF G
<1>4. ASSUME NEW x \in Digest
      PROVE  M[x] = IF x = d THEN N[x] + n ELSE N[x]
  <2> DEFINE a == Cardinality(HeldBy(g, x))
  <2>1. N[x] = a + F[x] /\ M[x] = a + G[x]
    BY DEF ClaimsIn
  <2>2. a \in Nat /\ F[x] \in Nat /\ G[x] \in Nat
    BY <1>2, <1>3, FS_CardinalityType
  <2> HIDE DEF a, N, M
  <2>3. QED
    BY <1>2, <2>1, <2>2
<1>5. M = [x \in Digest |-> M[x]]
  BY DEF ClaimsIn
<1> HIDE DEF M, N
<1>6. MoreBy(N, d, n) = [x \in Digest |-> IF x = d THEN N[x] + n ELSE N[x]]
  BY <1>1 DEF MoreBy
<1>7. M = MoreBy(N, d, n)
  BY <1>4, <1>5, <1>6
<1>8. QED
  BY <1>2, <1>7 DEF M, N, G

LEMMA ArrivesIsRight ==
  ASSUME NEW g, NEW p, Kept(g, p), p.unlisted = {}, NEW d \in Digest, NEW got,
         NEW h, NEW q, Arrives(g, p, d, got, h, q)
  PROVE  Kept(h, q)
<1> DEFINE S == p.started
           L == LiveIn(g)
           F == p.fetching
           G == q.fetching
           n == Len(got.jobs)
<1>1. /\ Typed(g) /\ g.failed \subseteq S /\ F \in [Digest -> Nat] /\ Spare(g.cache) >= 0
      /\ LiveRight(g, S) /\ WaitsRight(g, S, p.uploaded, p.clients, {})
      /\ ReadsRight(g) /\ ReadersRight(g) /\ EntriesRight(g)
      /\ LayersRight(g, p.unread, p.unasked)
      /\ TellsRight(g, p.announced, p.completed, p.clients)
      /\ (~Overlap => HeldRight(g, F))
      /\ DOMAIN p = {"started", "uploaded", "clients", "fetching", "announced", "completed",
                     "unlisted", "unread", "unasked"}
  BY DEF Kept
<1>2. /\ Arrived(g.cache, d, got) /\ (~Overlap => got.ok \/ g.cache.entry[d].st = "getting")
      /\ h.cache = got.cache /\ DOMAIN h = DOMAIN g /\ h.job = g.job /\ h.asked = g.asked
      /\ SameReads(g, h) /\ h.ready = g.ready /\ h.failed = g.failed
      /\ q.started = S /\ q.clients = p.clients /\ q.announced = p.announced
      /\ q.completed = p.completed /\ q.unread = p.unread /\ q.unasked = p.unasked
      /\ DOMAIN q = DOMAIN p /\ q.unlisted = {d} \X Job
      /\ G = (IF got.ok THEN MoreBy(F, d, n) ELSE F)
      /\ q.uploaded \in [Client \X Digest -> Nat]
      /\ \A e \in Client : \A x \in Digest \ {d} : q.uploaded[<<e, x>>] = p.uploaded[<<e, x>>]
  BY DEF Arrives
<1>3. /\ CacheTyped(h.cache) /\ Spare(h.cache) >= Spare(g.cache) /\ got.ok \in BOOLEAN
      /\ h.cache.entry[d].st # "getting"
      /\ \A x \in Digest \ {d} :
           g.cache.entry[x].st = "getting" \/ h.cache.entry[x].st = "getting"
             => h.cache.entry[x] = g.cache.entry[x]
      /\ got.jobs = IF g.cache.entry[d].st = "getting" THEN g.cache.entry[d].jobs ELSE <<>>
  BY <1>2 DEF Arrived
<1>4. Spare(h.cache) >= 0
  <2> DEFINE a == Spare(g.cache)
             b == Spare(h.cache)
  <2>4. SumOf(Stored(g.cache)) \in Nat /\ SumOf(Stored(h.cache)) \in Nat
    BY SumTyped
  <2>6. CacheTyped(g.cache) /\ CacheTyped(h.cache)
    BY <1>1, <1>3 DEF Typed
  <2>1. a \in Int /\ b \in Int
    BY <2>4, <2>6 DEF CacheTyped, Spare
  <2> HIDE DEF a, b
  <2>2. a >= 0 /\ b >= a
    BY <1>1, <1>3 DEF a, b
  <2>3. b >= 0
    BY <2>1, <2>2
  <2>5. QED
    BY <2>3 DEF b
<1>5. n \in Nat
  <2>1. g.cache.entry[d] \in Entry
    BY <1>1 DEF Typed, CacheTyped
  <2>2. got.jobs \in Seq(Job)
    BY <1>3, <2>1, FormsOfEntry
  <2>3. QED
    BY <2>2
<1>6. LiveIn(h) = L
  BY <1>2 DEF LiveIn
<1> HIDE DEF S, L, F, G, n
<1>7. G \in [Digest -> Nat]
  BY <1>1, <1>2, <1>5, MoreClaims
<1>8. Typed(h)
  BY <1>1, <1>2, <1>3 DEF Typed, SameReads
<1>9. LiveRight(h, S)
  BY <1>1, <1>2, <1>6, LiveStays DEF L
<1>10. WaitsRight(h, S, q.uploaded, q.clients, q.unlisted)
  <2>1. ASSUME NEW k \in LiveIn(h), Owner(k) \in q.clients, NEW x \in BeingAcquired(h.job[k])
        PROVE  <<x, k>> \in q.unlisted \/ Listed(h.cache.entry[x], k)
    <3>1. Listed(g.cache.entry[x], k)
      BY <1>1, <1>2, <1>6, <2>1 DEF WaitsRight, L
    <3>2. x \in Digest /\ k \in Job
      <4>1. /\ h.job[k] \in [st : {"job"}, acquired : SUBSET Digest,
                             being : SUBSET (Digest \X BOOLEAN), reading : SUBSET Digest]
            /\ k \in Job
        BY <1>8, <2>1, LiveJob
      <4>2. QED
        BY <2>1, <4>1 DEF BeingAcquired
    <3>3. CASE x = d
      BY <1>2, <3>2, <3>3
    <3>4. CASE x # d
      BY <1>3, <3>1, <3>2, <3>4 DEF Listed
    <3>5. QED
      BY <3>3, <3>4
  <2>2. ASSUME NEW x \in Digest, h.cache.entry[x].st = "getting"
        PROVE  ListRight(h, S, q.uploaded, q.clients, x)
    <3>1. x # d /\ h.cache.entry[x] = g.cache.entry[x]
      BY <1>3, <2>2
    <3>2. ListRight(g, S, p.uploaded, p.clients, x)
      BY <1>1, <2>2, <3>1 DEF WaitsRight
    <3>3. h.cache.entry[x].getters \subseteq Client
      <4>1. h.cache.entry[x] \in Entry
        BY <1>3 DEF CacheTyped
      <4>2. QED
        BY <2>2, <4>1, FormsOfEntry
    <3>4. \A e \in h.cache.entry[x].getters : q.uploaded[<<e, x>>] = p.uploaded[<<e, x>>]
      BY <1>2, <3>1, <3>3
    <3>5. QED
      BY <1>2, <1>6, <3>1, <3>2, <3>4 DEF ListRight, L
  <2>3. QED
    BY <2>1, <2>2 DEF WaitsRight
<1>11. ReadsRight(h) /\ ReadersRight(h) /\ EntriesRight(h)
  BY <1>1, <1>2, <1>6, ReadsStay DEF L
<1>12. LayersRight(h, q.unread, q.unasked)
  <2>1. \A k, x : Seen(h, k, x) = Seen(g, k, x)
    BY <1>2 DEF Seen, SameReads
  <2>2. QED
    BY <1>1, <1>2, <1>6, <2>1 DEF LayersRight, L
<1>13. TellsRight(h, q.announced, q.completed, q.clients)
  BY <1>1, <1>2, <1>6 DEF TellsRight, L
<1>14. ASSUME ~Overlap PROVE HeldRight(h, G)
  <2> DEFINE N == ClaimsIn(g, F)
  <2>1. N \in [Digest -> Nat]
    BY <1>1, ClaimsTyped
  <2>2. CacheGood(g.cache) /\ Spare(g.cache) = 0 /\ Covers(g.cache, N)
    BY <1>1, <1>14 DEF HeldRight
  <2>3. ClaimsIn(h, G) = IF got.ok THEN MoreBy(N, d, n) ELSE N
    <3>1. ClaimsIn(h, G) = ClaimsIn(g, G)
      BY <1>2, <1>6, SameClaims DEF L
    <3>2. CASE got.ok
      <4>1. G = MoreBy(F, d, n)
        BY <1>2, <3>2
      <4>2. ClaimsIn(g, MoreBy(F, d, n)) = MoreBy(N, d, n)
        BY <1>1, <1>5, MoreClaims
      <4>3. QED
        BY <3>1, <3>2, <4>1, <4>2
    <3>3. CASE ~got.ok
      BY <1>2, <3>1, <3>3
    <3>4. QED
      BY <3>2, <3>3
  <2> HIDE DEF N
  <2>4. /\ Spare(h.cache) = Spare(g.cache) /\ CacheGood(h.cache)
        /\ Covers(h.cache, IF got.ok THEN MoreBy(N, d, n) ELSE N)
    BY <1>2, <1>14, <2>1, <2>2 DEF Arrived, n
  <2>5. QED
    BY <2>2, <2>3, <2>4 DEF HeldRight
<1>15. QED
  BY <1>1, <1>2, <1>4, <1>7, <1>8, <1>9, <1>10, <1>11, <1>12, <1>13, <1>14 DEF Kept, S, G

\* j has been given d, which it waited for as a manifest or not, and of which
\* there are references for those who wait.
Given(g, p, j, d, m, h, q) ==
  /\ Kept(g, p) /\ j \in LiveIn(g) /\ d \in Digest /\ <<d, m>> \in g.job[j].being
  /\ g.cache.entry[d].st = "inUse" /\ p.fetching[d] > 0
  /\ JobIsNow(g, j, [g.job[j] EXCEPT !.being = @ \ {<<d, m>>}, !.acquired = @ \cup {d}], h)
  /\ h.cache = g.cache /\ h.asked = g.asked /\ SameReads(g, h)
  /\ q.started = p.started /\ q.clients = p.clients /\ q.announced = p.announced
  /\ q.completed = p.completed /\ q.unasked = p.unasked /\ q.unlisted = p.unlisted
  /\ q.uploaded = p.uploaded /\ DOMAIN q = DOMAIN p
  /\ q.fetching = Less(p.fetching, d) /\ p.unread \subseteq q.unread
  /\ m => <<j, d>> \in q.unread

LEMMA NotReadyYet ==
  ASSUME NEW g, NEW p, Kept(g, p), NEW j \in LiveIn(g), g.job[j].being # {}
  PROVE  p.announced[j] = <<>> /\ j \notin g.ready
<1>1. TellsRight(g, p.announced, p.completed, p.clients)
  BY DEF Kept
<1>2. ~HaveAll(g.job[j])
  BY DEF HaveAll
<1>3. QED
  BY <1>1, <1>2 DEF TellsRight

LEMMA GivenIsRight ==
  ASSUME NEW g, NEW p, NEW j, NEW d, NEW m, NEW h, NEW q, Given(g, p, j, d, m, h, q)
  PROVE  /\ Kept(h, q) /\ LiveIn(h) = LiveIn(g) /\ d \notin BeingAcquired(h.job[j])
         /\ d \in h.job[j].acquired /\ \A k \in Job \ {j} : h.job[k] = g.job[k]
<1> DEFINE o == g.job[j]
           r == [o EXCEPT !.being = @ \ {<<d, m>>}, !.acquired = @ \cup {d}]
           S == p.started
           L == LiveIn(g)
           F == p.fetching
           G == q.fetching
<1>1. /\ Kept(g, p) /\ j \in L /\ d \in Digest /\ <<d, m>> \in o.being
      /\ g.cache.entry[d].st = "inUse" /\ F[d] > 0
      /\ JobIsNow(g, j, r, h)
      /\ h.cache = g.cache /\ h.asked = g.asked /\ SameReads(g, h)
      /\ q.started = S /\ q.clients = p.clients /\ q.announced = p.announced
      /\ q.completed = p.completed /\ q.unasked = p.unasked /\ q.unlisted = p.unlisted
      /\ q.uploaded = p.uploaded /\ DOMAIN q = DOMAIN p
      /\ G = Less(F, d) /\ p.unread \subseteq q.unread /\ (m => <<j, d>> \in q.unread)
  BY DEF Given
<1>2. /\ Typed(g) /\ g.failed \subseteq S /\ F \in [Digest -> Nat] /\ Spare(g.cache) >= 0
      /\ p.uploaded \in [Client \X Digest -> Nat]
      /\ LiveRight(g, S) /\ WaitsRight(g, S, p.uploaded, p.clients, p.unlisted)
      /\ ReadsRight(g) /\ ReadersRight(g) /\ EntriesRight(g)
      /\ LayersRight(g, p.unread, p.unasked)
      /\ TellsRight(g, p.announced, p.completed, p.clients)
      /\ (~Overlap => HeldRight(g, F))
      /\ DOMAIN p = {"started", "uploaded", "clients", "fetching", "announced", "completed",
                     "unlisted", "unread", "unasked"}
  BY <1>1 DEF Kept
<1>3. /\ j \in Job /\ g.job[j] # NoJob /\ DOMAIN o = {"st", "acquired", "being", "reading"}
      /\ o.acquired \in SUBSET Digest /\ o.being \in SUBSET (Digest \X BOOLEAN)
      /\ o.reading \in SUBSET Digest /\ o.st = "job"
  BY <1>1, <1>2, LiveJob
<1>4. /\ r \in JobRecord /\ r # NoJob /\ r.acquired = o.acquired \cup {d}
      /\ r.being = o.being \ {<<d, m>>} /\ r.reading = o.reading
  BY <1>1, <1>3 DEF JobRecord, NoJob
<1>5. p.announced[j] = <<>> /\ j \notin g.ready
  BY <1>1, NotReadyYet
<1> HIDE DEF o, r, S, L, F, G
<1>6. /\ h.job \in [Job -> JobRecord] /\ LiveIn(h) = L /\ h.job[j] = r
      /\ \A k \in Job \ {j} : h.job[k] = g.job[k]
  BY <1>1, <1>2, <1>4, JobChanged DEF L
<1>7. L \subseteq Job /\ \A k \in L \ {j} : h.job[k] = g.job[k]
  BY <1>6 DEF LiveIn
<1>8. /\ d \notin o.acquired /\ \A x \in o.being : x[1] = d => x = <<d, m>>
  <2>1. /\ <<d, m>>[1] \notin o.acquired
        /\ \A x \in o.being : x[1] = <<d, m>>[1] => x = <<d, m>>
    BY <1>1, <1>2 DEF LiveRight, L, o
  <2>2. <<d, m>>[1] = d
    OBVIOUS
  <2>3. QED
    BY <2>1, <2>2
<1>9. /\ d \in BeingAcquired(o) /\ BeingAcquired(r) = BeingAcquired(o) \ {d} /\ Has(r) = Has(o)
  <2>1. <<d, m>>[1] = d
    OBVIOUS
  <2>2. d \in BeingAcquired(o)
    BY <1>1, <2>1 DEF BeingAcquired
  <2>3. BeingAcquired(r) = BeingAcquired(o) \ {d}
    BY <1>4, <1>8, <2>1 DEF BeingAcquired
  <2>4. QED
    BY <1>4, <2>2, <2>3 DEF Has
<1>10. G \in [Digest -> Nat] /\ G[d] + 1 = F[d] /\ \A x \in Digest \ {d} : G[x] = F[x]
  BY <1>1, <1>2 DEF Less
<1>11. Typed(h)
  BY <1>1, <1>2, <1>6 DEF Typed, SameReads, JobIsNow
<1>12. LiveRight(h, S)
  <2>1. ASSUME NEW b \in r.being
        PROVE  b[1] \notin r.acquired /\ \A x \in r.being : x[1] = b[1] => x = b
    <3>1. b \in o.being /\ b # <<d, m>>
      BY <1>4, <2>1
    <3>2. b[1] # d
      BY <1>8, <3>1
    <3>3. b[1] \notin o.acquired /\ \A x \in o.being : x[1] = b[1] => x = b
      BY <1>1, <1>2, <3>1 DEF LiveRight, L, o
    <3>4. QED
      BY <1>4, <3>2, <3>3
  <2>2. QED
    BY <1>2, <1>6, <1>7, <2>1 DEF LiveRight, L
<1>13. \A k \in L : BeingAcquired(h.job[k]) \subseteq BeingAcquired(g.job[k])
  BY <1>6, <1>7, <1>9 DEF o
<1>14. WaitsRight(h, S, q.uploaded, q.clients, q.unlisted)
  <2>1. ASSUME NEW k \in LiveIn(h), Owner(k) \in q.clients, NEW x \in BeingAcquired(h.job[k])
        PROVE  <<x, k>> \in q.unlisted \/ Listed(h.cache.entry[x], k)
    BY <1>1, <1>2, <1>6, <1>13, <2>1 DEF WaitsRight, L
  <2>2. ASSUME NEW x \in Digest, h.cache.entry[x].st = "getting"
        PROVE  ListRight(h, S, q.uploaded, q.clients, x)
    <3>1. ListRight(g, S, p.uploaded, p.clients, x) /\ x # d
      BY <1>1, <1>2, <2>2 DEF WaitsRight
    <3>2. \A k \in L : x \in BeingAcquired(g.job[k]) => x \in BeingAcquired(h.job[k])
      BY <1>6, <1>7, <1>9, <3>1 DEF o
    <3>3. QED
      BY <1>1, <1>6, <3>1, <3>2 DEF ListRight, L
  <2>3. QED
    BY <2>1, <2>2 DEF WaitsRight
<1>15. \A k \in L : h.job[k].reading = g.job[k].reading
  BY <1>4, <1>6, <1>7 DEF o
<1>16. ReadsRight(h) /\ ReadersRight(h) /\ EntriesRight(h)
  BY <1>1, <1>2, <1>6, <1>15, ReadsStay DEF L
<1>17. LayersRight(h, q.unread, q.unasked)
  <2>1. \A k \in L : \A x : Seen(h, k, x) = Seen(g, k, x)
    BY <1>1, <1>15 DEF Seen, SameReads
  <2>2. \A k \in L : Has(h.job[k]) = Has(g.job[k])
    BY <1>6, <1>7, <1>9 DEF o
  <2>3. ASSUME NEW k \in L, Apart(k)
        PROVE  /\ \A l \in ToSet(Layers[k]) : <<k, l[1]>> \in q.unasked \/ l[1] \in Has(h.job[k])
               /\ \A b \in h.job[k].being : b[2] <=> b[1] \in Manifests(k)
               /\ \A x \in Manifests(k) : x \in h.job[k].acquired =>
                    <<k, x>> \in q.unread \/ Seen(h, k, x) \subseteq Has(h.job[k])
    <3>1. /\ \A l \in ToSet(Layers[k]) : <<k, l[1]>> \in p.unasked \/ l[1] \in Has(g.job[k])
          /\ \A b \in g.job[k].being : b[2] <=> b[1] \in Manifests(k)
          /\ \A x \in Manifests(k) : x \in g.job[k].acquired =>
               <<k, x>> \in p.unread \/ Seen(g, k, x) \subseteq Has(g.job[k])
      BY <1>2, <2>3 DEF LayersRight, L
    <3>2. CASE k # j
      BY <1>1, <1>7, <2>1, <2>2, <2>3, <3>1, <3>2
    <3>3. CASE k = j
      <4>1. d \in Manifests(j) => m
        <5>1. <<d, m>>[1] = d /\ <<d, m>>[2] = m
          OBVIOUS
        <5>2. <<d, m>>[2] <=> <<d, m>>[1] \in Manifests(j)
          BY <1>1, <3>1, <3>3 DEF o
        <5>3. QED
          BY <5>1, <5>2
      <4>2. \A x \in Manifests(j) : x \in r.acquired =>
               <<j, x>> \in q.unread \/ Seen(h, j, x) \subseteq Has(h.job[j])
        BY <1>1, <1>4, <2>1, <2>2, <2>3, <3>1, <3>3, <4>1 DEF o
      <4>3. \A b \in r.being : b[2] <=> b[1] \in Manifests(j)
        BY <1>4, <3>1, <3>3 DEF o
      <4>4. QED
        BY <1>1, <1>6, <2>2, <2>3, <3>1, <3>3, <4>2, <4>3
    <3>4. QED
      BY <3>2, <3>3
  <2>4. QED
    BY <1>6, <2>3 DEF LayersRight
<1>18. TellsRight(h, q.announced, q.completed, q.clients)
  <2>1. ASSUME NEW k \in L, p.announced[k] = <<"ready">> \/ k \in g.ready
        PROVE  HaveAll(h.job[k])
    <3>1. k # j
      BY <1>5, <2>1, Told
    <3>2. HaveAll(g.job[k])
      BY <1>2, <2>1 DEF TellsRight, L
    <3>3. QED
      BY <1>7, <3>1, <3>2
  <2>2. h.ready = g.ready /\ h.failed = g.failed
    BY <1>1 DEF JobIsNow
  <2>3. LiveIn(h) = LiveIn(g)
    BY <1>6 DEF L
  <2>4. TellsRight(g, q.announced, q.completed, q.clients)
    BY <1>1, <1>2
  <2>5. \A k \in LiveIn(g) : q.announced[k] = <<"ready">> \/ k \in g.ready => HaveAll(h.job[k])
    BY <1>1, <2>1 DEF L
  <2>6. QED
    BY <2>2, <2>3, <2>4, <2>5, TellsStay
<1>19. ASSUME ~Overlap PROVE HeldRight(h, G)
  <2>1. ClaimsIn(h, G) = More(ClaimsIn(g, G), d)
    BY <1>1, <1>2, <1>3, <1>4, <1>6, <1>7, <1>8, <1>10, OneMoreClaim DEF o, L
  <2>2. MoreBy(G, d, 1) = F
    BY <1>2, <1>10 DEF MoreBy
  <2>3. ClaimsIn(g, MoreBy(G, d, 1)) = MoreBy(ClaimsIn(g, G), d, 1)
    <3>1. LiveRight(g, S) /\ G \in [Digest -> Nat] /\ d \in Digest /\ 1 \in Nat
      BY <1>1, <1>2, <1>10
    <3>2. QED
      BY <3>1, MoreClaims
  <2>4. MoreBy(ClaimsIn(g, G), d, 1) = More(ClaimsIn(g, G), d)
    BY DEF MoreBy, More
  <2>5. HeldRight(g, F)
    BY <1>2, <1>19
  <2>6. QED
    BY <1>1, <2>1, <2>2, <2>3, <2>4, <2>5 DEF HeldRight
<1>20. Kept(h, q)
  BY <1>1, <1>2, <1>10, <1>11, <1>12, <1>14, <1>16, <1>17, <1>18, <1>19 DEF Kept, JobIsNow, S, G
<1>21. QED
  BY <1>4, <1>6, <1>9, <1>20 DEF L

\* j may be given d, which has come; and it was.
ToAdvance(h, q, d, j) ==
  /\ Kept(h, q) /\ WaitFull(h) /\ q.unread = {} /\ j \in LiveIn(h) /\ d \in Digest
  /\ d \in BeingAcquired(h.job[j]) /\ Owner(j) \in q.clients
  /\ h.cache.entry[d].st = "inUse" /\ q.fetching[d] > 0

Advanced(h, q, d, j, k) ==
  /\ Kept(k, [q EXCEPT !.fetching = Less(q.fetching, d)]) /\ WaitFull(k)
  /\ LiveIn(k) = LiveIn(h) /\ \A i \in Job \ {j} : k.job[i] = h.job[i]
  /\ d \notin BeingAcquired(k.job[j]) /\ k.cache.entry[d].st = "inUse"

AdvanceStep(d, o, h, j) ==
  LET r == h.job[j]
      b == CHOOSE x \in r.being : x[1] = d
      has == [h EXCEPT !.job[j].being = @ \ {b},
                       !.job[j].acquired = @ \cup {d}]
      next == IF b[2] THEN ReadManifest(has, j, d) ELSE has
  IN
  IF r = NoJob THEN h
  ELSE IF d \notin BeingAcquired(r) THEN Panic(h)
  ELSE IF HaveAll(next.job[j]) THEN [next EXCEPT !.ready = @ \cup {j}]
  ELSE next

\* What the job's next state is, from the one in which it has d.
AdvancedFrom(h, q, d, j, m, has, next) ==
  /\ ToAdvance(h, q, d, j) /\ <<d, m>> \in h.job[j].being
  /\ has = [h EXCEPT !.job[j].being = @ \ {<<d, m>>}, !.job[j].acquired = @ \cup {d}]
  /\ next = IF m THEN ReadManifest(has, j, d) ELSE has

LEMMA NextIsRight ==
  ASSUME NEW h, NEW q, NEW d, NEW j, NEW m, NEW has, NEW next,
         AdvancedFrom(h, q, d, j, m, has, next)
  PROVE  Advanced(h, q, d, j, next)
<1> DEFINE w == [q EXCEPT !.fetching = Less(q.fetching, d)]
           u == Undone(w, j, d)
           t == IF m THEN u ELSE w
<1>1. /\ Kept(h, q) /\ WaitFull(h) /\ q.unread = {} /\ j \in LiveIn(h) /\ d \in Digest
      /\ d \in BeingAcquired(h.job[j]) /\ Owner(j) \in q.clients
      /\ h.cache.entry[d].st = "inUse" /\ q.fetching[d] > 0
      /\ <<d, m>> \in h.job[j].being
  BY DEF AdvancedFrom, ToAdvance
<1>2. has = [h EXCEPT !.job[j].being = @ \ {<<d, m>>}, !.job[j].acquired = @ \cup {d}]
  BY DEF AdvancedFrom
<1>3. next = IF m THEN ReadManifest(has, j, d) ELSE has
  BY DEF AdvancedFrom
<1>4. /\ Typed(h) /\ q.fetching \in [Digest -> Nat] /\ LayersRight(h, q.unread, q.unasked)
      /\ DOMAIN q = {"started", "uploaded", "clients", "fetching", "announced", "completed",
                     "unlisted", "unread", "unasked"}
  BY <1>1 DEF Kept
<1>5. /\ w.started = q.started /\ w.uploaded = q.uploaded /\ w.clients = q.clients
      /\ w.fetching = Less(q.fetching, d) /\ w.announced = q.announced
      /\ w.completed = q.completed /\ w.unlisted = q.unlisted /\ w.unread = {}
      /\ w.unasked = q.unasked /\ DOMAIN w = DOMAIN q
  BY <1>1, <1>4
<1>6. Kept(h, w)
  <2>1. /\ Less(q.fetching, d) \in [Digest -> Nat]
        /\ \A x \in Digest : Less(q.fetching, d)[x] <= q.fetching[x]
    BY <1>1, <1>4 DEF Less
  <2>2. QED
    BY <1>1, <2>1, FewerFetches
<1>7. q.announced[j] = <<>> /\ j \notin h.ready
  <2>1. h.job[j].being # {}
    BY <1>1
  <2>2. QED
    BY <1>1, <2>1, NotReadyYet
<1>8. m \in BOOLEAN
  BY <1>1, <1>4, LiveJob
<1> HIDE DEF w
<1>9. \A k : Kept(k, Done(u, j, d)) => Kept(k, w)
  BY <1>5, <1>6, UndoneIsRight
<1>10. /\ u.started = q.started /\ u.uploaded = q.uploaded /\ u.clients = q.clients
       /\ u.fetching = Less(q.fetching, d) /\ u.announced = q.announced
       /\ u.completed = q.completed /\ u.unlisted = q.unlisted /\ u.unread = {<<j, d>>}
       /\ u.unasked = q.unasked /\ DOMAIN u = DOMAIN q
  BY <1>4, <1>5 DEF Undone
<1> HIDE DEF u
<1>11. /\ JobIsNow(h, j, [h.job[j] EXCEPT !.being = @ \ {<<d, m>>}, !.acquired = @ \cup {d}], has)
       /\ has.cache = h.cache /\ has.asked = h.asked /\ SameReads(h, has)
  BY <1>1, <1>2, <1>4, LiveJob DEF JobIsNow, SameReads, Typed
<1>12. Given(h, q, j, d, m, has, t)
  BY <1>1, <1>5, <1>10, <1>11 DEF Given
<1>13. /\ Kept(has, t) /\ LiveIn(has) = LiveIn(h) /\ d \notin BeingAcquired(has.job[j])
       /\ d \in has.job[j].acquired /\ \A i \in Job \ {j} : has.job[i] = h.job[i]
  BY <1>12, GivenIsRight
<1>14. WaitFull(has) /\ has.ready = h.ready
  BY <1>1, <1>11 DEF WaitFull, SameReads, JobIsNow
<1>15. CASE ~m
  BY <1>1, <1>3, <1>11, <1>13, <1>14, <1>15 DEF Advanced, w
<1>16. CASE m
  <2>1. Apart(j) => d \in Manifests(j)
    <3>1. <<d, m>>[1] = d /\ <<d, m>>[2] = m
      OBVIOUS
    <3>2. Apart(j) => (<<d, m>>[2] <=> <<d, m>>[1] \in Manifests(j))
      BY <1>1, <1>4 DEF LayersRight
    <3>3. QED
      BY <1>16, <3>1, <3>2
  <2>2. Kept(has, u)
    BY <1>13, <1>16
  <2>3. ToRead(has, u, j, d)
    BY <1>1, <1>7, <1>10, <1>13, <1>14, <2>1, <2>2 DEF ToRead, MayTake
  <2>4. WasRead(has, u, j, d, next)
    BY <1>3, <1>16, <2>3, ReadManifestIsRight
  <2>5. Kept(next, w) /\ Grows(has, j, next) /\ WaitFull(next)
    BY <1>9, <1>14, <2>4 DEF WasRead
  <2>6. /\ LiveIn(next) = LiveIn(h) /\ \A i \in Job \ {j} : next.job[i] = h.job[i]
        /\ next.cache.entry[d].st = "inUse" /\ d \in next.job[j].acquired
    BY <1>1, <1>11, <1>13, <2>5 DEF Grows
  <2>7. d \notin BeingAcquired(next.job[j])
    <3>1. LiveRight(next, w.started)
      BY <2>5 DEF Kept
    <3>2. QED
      BY <1>1, <2>6, <3>1 DEF LiveRight, BeingAcquired
  <2>8. QED
    BY <2>5, <2>6, <2>7 DEF Advanced, w
<1>17. QED
  BY <1>8, <1>15, <1>16

LEMMA AdvanceIsRight ==
  ASSUME NEW h, NEW q, NEW d, NEW j, ToAdvance(h, q, d, j), NEW o
  PROVE  Advanced(h, q, d, j, AdvanceStep(d, o, h, j))
<1> DEFINE r == h.job[j]
           b == CHOOSE x \in r.being : x[1] = d
           has == [h EXCEPT !.job[j].being = @ \ {b}, !.job[j].acquired = @ \cup {d}]
           next == IF b[2] THEN ReadManifest(has, j, d) ELSE has
           w == [q EXCEPT !.fetching = Less(q.fetching, d)]
           k == AdvanceStep(d, o, h, j)
<1>1. /\ Kept(h, q) /\ j \in LiveIn(h) /\ d \in BeingAcquired(r)
  BY DEF ToAdvance
<1>2. r # NoJob /\ r.being \in SUBSET (Digest \X BOOLEAN)
  BY <1>1, LiveJob DEF Kept
<1>3. b \in r.being /\ b[1] = d
  BY <1>1 DEF BeingAcquired
<1>4. b = <<d, b[2]>>
  BY <1>2, <1>3
<1>5. k = IF HaveAll(next.job[j]) THEN [next EXCEPT !.ready = @ \cup {j}] ELSE next
  BY <1>1, <1>2 DEF AdvanceStep
<1> HIDE DEF b, k
<1>6. has = [h EXCEPT !.job[j].being = @ \ {<<d, b[2]>>}, !.job[j].acquired = @ \cup {d}]
  BY <1>4
<1> HIDE DEF r, has
<1>7. AdvancedFrom(h, q, d, j, b[2], has, next)
  BY <1>3, <1>4, <1>6 DEF AdvancedFrom, r
<1> HIDE DEF next
<1>8. Advanced(h, q, d, j, next)
  BY <1>7, NextIsRight
<1>9. ASSUME ~HaveAll(next.job[j]) PROVE Advanced(h, q, d, j, k)
  BY <1>5, <1>8, <1>9
<1>10. ASSUME HaveAll(next.job[j]) PROVE Advanced(h, q, d, j, k)
  <2>1. Kept(next, w) /\ LiveIn(next) = LiveIn(h)
    BY <1>8 DEF Advanced
  <2>2. w.announced = <<q.announced>>[1]
    BY <1>1 DEF Kept
  <2>3. q.announced[j] = <<>>
    <3>1. r.being # {}
      BY <1>3
    <3>2. QED
      BY <1>1, <3>1, NotReadyYet DEF r
  <2> DEFINE R == {j}
  <2>4. \A i \in R : i \in LiveIn(next) /\ w.announced[i] = <<>> /\ HaveAll(next.job[i])
    BY <1>1, <1>10, <2>1, <2>2, <2>3
  <2>5. k = [next EXCEPT !.ready = next.ready \cup R]
    BY <1>5, <1>10
  <2>6. Kept(k, w)
    <3> HIDE DEF w, R
    <3>1. Kept([next EXCEPT !.ready = next.ready \cup R], w)
      BY <2>1, <2>4, ReadyIsRight
    <3>2. QED
      BY <2>5, <3>1
  <2>7. k.job = next.job /\ k.cache = next.cache /\ k.waiting = next.waiting
        /\ k.inProgress = next.inProgress
    BY <2>5
  <2>8. WaitFull(k) /\ LiveIn(k) = LiveIn(next)
    BY <1>8, <2>7 DEF Advanced, WaitFull, LiveIn
  <2>9. QED
    BY <1>8, <2>6, <2>7, <2>8 DEF Advanced, w
<1>11. QED
  BY <1>9, <1>10 DEF k

\* The jobs that waited for d, of which the first n have been given it.
AdvanceInv(r, n, h) ==
  LET L == r.list  d == r.digest IN
  /\ Kept(h, [r.around EXCEPT !.fetching = MoreBy(r.fetching, d, Len(L) - n)])
  /\ WaitFull(h) /\ LiveIn(h) = r.live
  /\ L # <<>> => h.cache.entry[d].st = "inUse"
  /\ \A i \in n + 1 .. Len(L) : L[i] \in r.live => d \in BeingAcquired(h.job[L[i]])
  /\ \A k \in r.live : d \in BeingAcquired(h.job[k]) => \E i \in n + 1 .. Len(L) : L[i] = k
Advances == INSTANCE FoldTheorems WITH Op <- AdvanceStep, Inv <- AdvanceInv

\* d has come, and these are who waited for it.
ToGive(g, p, d, js, F) ==
  /\ Kept(g, [p EXCEPT !.fetching = MoreBy(F, d, Len(js))]) /\ WaitFull(g) /\ p.unread = {}
  /\ DOMAIN p = {"started", "uploaded", "clients", "fetching", "announced", "completed",
                 "unlisted", "unread", "unasked"}
  /\ d \in Digest /\ js \in Seq(Job) /\ F \in [Digest -> Nat]
  /\ js # <<>> => g.cache.entry[d].st = "inUse"
  /\ \A i \in DOMAIN js : js[i] \in LiveIn(g) =>
       /\ Owner(js[i]) \in p.clients /\ d \in BeingAcquired(g.job[js[i]])
       /\ \A k \in DOMAIN js : js[k] = js[i] => k = i
  /\ \A k \in LiveIn(g) : d \in BeingAcquired(g.job[k]) => \E i \in DOMAIN js : js[i] = k

GivesTo(g, p, d, js, F) ==
  [around |-> p, fetching |-> F, digest |-> d, live |-> LiveIn(g), list |-> js]

LEMMA OneMoreGiven ==
  ASSUME NEW g, NEW p, NEW d, NEW js, NEW F, ToGive(g, p, d, js, F),
         NEW n \in 1 .. Len(js), NEW h, AdvanceInv(GivesTo(g, p, d, js, F), n - 1, h), NEW o
  PROVE  AdvanceInv(GivesTo(g, p, d, js, F), n, AdvanceStep(d, o, h, js[n]))
<1> DEFINE N == Len(js)
           j == js[n]
           q == [p EXCEPT !.fetching = MoreBy(F, d, N - (n - 1))]
           w == [p EXCEPT !.fetching = MoreBy(F, d, N - n)]
           x == [q EXCEPT !.fetching = Less(q.fetching, d)]
           k == AdvanceStep(d, o, h, j)
           L == LiveIn(g)
<1>1. /\ p.unread = {} /\ d \in Digest /\ js \in Seq(Job) /\ F \in [Digest -> Nat]
      /\ DOMAIN p = {"started", "uploaded", "clients", "fetching", "announced", "completed",
                     "unlisted", "unread", "unasked"}
      /\ \A i \in DOMAIN js : js[i] \in L =>
           /\ Owner(js[i]) \in p.clients
           /\ \A e \in DOMAIN js : js[e] = js[i] => e = i
  BY DEF ToGive
<1>2. n \in DOMAIN js /\ DOMAIN js = 1 .. N /\ j \in Job /\ N \in Nat /\ n \in Nat /\ n >= 1
      /\ N >= n
  BY <1>1
<1>3. js # <<>>
  BY <1>2
<1> HIDE DEF L, k
<1>4. /\ Kept(h, q) /\ WaitFull(h) /\ LiveIn(h) = L /\ h.cache.entry[d].st = "inUse"
      /\ \A i \in (n - 1) + 1 .. N : js[i] \in L => d \in BeingAcquired(h.job[js[i]])
      /\ \A e \in L : d \in BeingAcquired(h.job[e]) => \E i \in (n - 1) + 1 .. N : js[i] = e
  BY <1>3 DEF AdvanceInv, GivesTo, L
<1> HIDE DEF N, j
<1>5. /\ \A i \in n .. N : js[i] \in L => d \in BeingAcquired(h.job[js[i]])
      /\ \A e \in L : d \in BeingAcquired(h.job[e]) => \E i \in n .. N : js[i] = e
  <2>1. (n - 1) + 1 = n
    BY <1>2
  <2>2. QED
    BY <1>4, <2>1
<1>6. /\ q.fetching = MoreBy(F, d, N - (n - 1)) /\ q.unread = {} /\ q.clients = p.clients
      /\ DOMAIN q = DOMAIN p
  BY <1>1
<1>7. /\ q.fetching \in [Digest -> Nat] /\ q.fetching[d] > 0
      /\ \A e \in Digest : MoreBy(F, d, N - n)[e] <= q.fetching[e]
      /\ MoreBy(F, d, N - n) \in [Digest -> Nat]
      /\ Less(q.fetching, d) = MoreBy(F, d, N - n)
  <2>1. N - (n - 1) \in Nat /\ N - n \in Nat /\ N - (n - 1) = (N - n) + 1
    BY <1>2
  <2>2. QED
    BY <1>1, <1>6, <2>1 DEF MoreBy, Less
<1>8. x = w /\ [q EXCEPT !.fetching = MoreBy(F, d, N - n)] = w
  BY <1>1, <1>6, <1>7
<1> HIDE DEF q, w, x
<1>9. CASE j \notin L
  <2>1. k = h
    <3>1. h.job[j] = NoJob
      BY <1>2, <1>4, <1>9 DEF LiveIn, j
    <3>2. QED
      BY Zenon, <3>1 DEF AdvanceStep, k
  <2>2. Kept(h, w)
    <3> DEFINE G == MoreBy(F, d, N - n)
    <3>1. G \in [Digest -> Nat] /\ \A e \in Digest : G[e] <= q.fetching[e]
      BY <1>7
    <3>2. [q EXCEPT !.fetching = G] = w
      BY <1>8
    <3> HIDE DEF G
    <3>3. Kept(h, [q EXCEPT !.fetching = G])
      BY <1>4, <3>1, FewerFetches
    <3>4. QED
      BY <3>2, <3>3
  <2>3. \A i \in n + 1 .. N : i \in n .. N
    BY <1>2
  <2>4. ASSUME NEW e \in L, d \in BeingAcquired(h.job[e])
        PROVE  \E i \in n + 1 .. N : js[i] = e
    <3>1. PICK i \in n .. N : js[i] = e
      BY <1>5, <2>4
    <3>2. i # n
      BY <1>9, <2>4, <3>1 DEF j
    <3>3. i \in n + 1 .. N
      BY <1>2, <3>1, <3>2
    <3>4. QED
      BY <3>1, <3>3
  <2>5. QED
    BY <1>4, <1>5, <2>1, <2>2, <2>3, <2>4 DEF AdvanceInv, GivesTo, L, w, k, N, j
<1>10. CASE j \in L
  <2>1. n \in n .. N
    BY <1>2
  <2>2. d \in BeingAcquired(h.job[j]) /\ Owner(j) \in p.clients
    BY <1>1, <1>2, <1>5, <1>10, <2>1 DEF j
  <2>3. ToAdvance(h, q, d, j)
    BY <1>1, <1>4, <1>6, <1>7, <1>10, <2>2 DEF ToAdvance
  <2>4. Advanced(h, q, d, j, k)
    BY <2>3, AdvanceIsRight DEF k
  <2>5. /\ Kept(k, w) /\ WaitFull(k) /\ LiveIn(k) = L
        /\ \A i \in Job \ {j} : k.job[i] = h.job[i]
        /\ d \notin BeingAcquired(k.job[j]) /\ k.cache.entry[d].st = "inUse"
    BY <1>4, <1>8, <2>4 DEF Advanced, x
  <2>6. L \subseteq Job
    BY DEF L, LiveIn
  <2>7. ASSUME NEW i \in n + 1 .. N, js[i] \in L
        PROVE  d \in BeingAcquired(k.job[js[i]])
    <3>1. i \in n .. N /\ i # n /\ i \in DOMAIN js
      BY <1>2, <2>7
    <3>2. js[i] # j
      BY <1>1, <1>2, <1>10, <3>1 DEF j
    <3>3. QED
      BY <1>5, <2>5, <2>6, <2>7, <3>1, <3>2
  <2>8. ASSUME NEW e \in L, d \in BeingAcquired(k.job[e])
        PROVE  \E i \in n + 1 .. N : js[i] = e
    <3>1. e # j
      BY <2>5, <2>8
    <3>2. d \in BeingAcquired(h.job[e])
      BY <2>5, <2>6, <2>8, <3>1
    <3>3. PICK i \in n .. N : js[i] = e
      BY <1>5, <3>2
    <3>4. i # n
      BY <3>1, <3>3 DEF j
    <3>5. i \in n + 1 .. N
      BY <1>2, <3>3, <3>4
    <3>6. QED
      BY <3>3, <3>5
  <2>9. QED
    BY <2>5, <2>7, <2>8 DEF AdvanceInv, GivesTo, L, w, k, N, j
<1>11. QED
  BY <1>9, <1>10

\* Nobody is left who waits for d.
LEMMA NoneUnlisted ==
  ASSUME NEW g, NEW p, Kept(g, p), NEW d, p.unlisted = {d} \X Job,
         \A k \in LiveIn(g) : Owner(k) \in p.clients => d \notin BeingAcquired(g.job[k])
  PROVE  Kept(g, [p EXCEPT !.unlisted = {}])
<1> DEFINE q == [p EXCEPT !.unlisted = {}]
           S == p.started
           U == p.uploaded
           C == p.clients
<1>1. DOMAIN p = {"started", "uploaded", "clients", "fetching", "announced", "completed",
                  "unlisted", "unread", "unasked"}
  BY DEF Kept
<1>2. /\ q.started = S /\ q.uploaded = U /\ q.clients = C
      /\ q.fetching = p.fetching /\ q.announced = p.announced /\ q.completed = p.completed
      /\ q.unlisted = {} /\ q.unread = p.unread /\ q.unasked = p.unasked
      /\ DOMAIN q = DOMAIN p
  BY <1>1
<1> HIDE DEF q
<1>3. WaitsRight(g, S, U, C, p.unlisted)
  BY DEF Kept
<1>4. WaitsRight(g, S, U, C, {})
  <2>1. ASSUME NEW k \in LiveIn(g), Owner(k) \in C, NEW x \in BeingAcquired(g.job[k])
        PROVE  Listed(g.cache.entry[x], k)
    <3>1. x # d
      BY <2>1
    <3>2. <<x, k>> \notin p.unlisted
      BY <3>1
    <3>3. QED
      BY <1>3, <2>1, <3>2 DEF WaitsRight
  <2>2. QED
    BY <1>3, <2>1 DEF WaitsRight
<1> HIDE DEF S, U, C
<1>5. Kept(g, q)
  BY <1>2, <1>4 DEF Kept, S, U, C
<1>6. QED
  BY <1>5 DEF q

\* All who waited for d have it.
AllGiven(g, p, F, h) ==
  /\ Kept(h, [p EXCEPT !.fetching = F, !.unlisted = {}]) /\ WaitFull(h)
  /\ LiveIn(h) = LiveIn(g)

LEMMA AllAreGiven ==
  ASSUME NEW g, NEW p, NEW d, NEW js, NEW F, ToGive(g, p, d, js, F), p.unlisted = {d} \X Job
  PROVE  AllGiven(g, p, F, Advances!Fold(d, 0, g, js))
<1> DEFINE r == GivesTo(g, p, d, js, F)
           e == Advances!Fold(d, 0, g, js)
           N == Len(js)
           w == [p EXCEPT !.fetching = F]
<1>1. /\ Kept(g, [p EXCEPT !.fetching = MoreBy(F, d, N)]) /\ WaitFull(g)
      /\ d \in Digest /\ js \in Seq(Job) /\ F \in [Digest -> Nat]
      /\ (js # <<>> => g.cache.entry[d].st = "inUse")
      /\ \A i \in DOMAIN js : js[i] \in LiveIn(g) => d \in BeingAcquired(g.job[js[i]])
      /\ \A k \in LiveIn(g) : d \in BeingAcquired(g.job[k]) => \E i \in DOMAIN js : js[i] = k
      /\ DOMAIN p = {"started", "uploaded", "clients", "fetching", "announced", "completed",
                     "unlisted", "unread", "unasked"}
  BY DEF ToGive
<1>2. /\ r.around = p /\ r.fetching = F /\ r.digest = d /\ r.live = LiveIn(g) /\ r.list = js
  BY DEF GivesTo
<1>3. DOMAIN js = 1 .. N /\ N \in Nat /\ N - 0 = N /\ 0 + 1 = 1
  BY <1>1
<1> HIDE DEF r, N
<1>4. AdvanceInv(r, 0, g)
  BY <1>1, <1>2, <1>3 DEF AdvanceInv, N
<1>5. ASSUME NEW a, NEW n \in 1 .. Len(js), js[n] \in Job, AdvanceInv(r, n - 1, a)
      PROVE  AdvanceInv(r, n, AdvanceStep(d, 0, a, js[n]))
  BY <1>5, OneMoreGiven DEF r
<1>6. AdvanceInv(r, N, e)
  BY <1>1, <1>4, <1>5, LeastOf, Advances!FoldKeeps DEF N
<1> HIDE DEF e
<1>7. /\ Kept(e, [p EXCEPT !.fetching = MoreBy(F, d, N - N)]) /\ WaitFull(e)
      /\ LiveIn(e) = LiveIn(g)
      /\ \A k \in LiveIn(g) : d \in BeingAcquired(e.job[k]) => \E i \in N + 1 .. N : js[i] = k
  BY <1>2, <1>6 DEF AdvanceInv, N
<1>8. MoreBy(F, d, N - N) = F
  BY <1>1, <1>3 DEF MoreBy
<1>9. Kept(e, w)
  BY <1>7, <1>8
<1>10. \A k \in LiveIn(e) : d \notin BeingAcquired(e.job[k])
  <2>1. N + 1 .. N = {}
    BY <1>3
  <2>2. QED
    BY <1>7, <2>1
<1>11. w.unlisted = {d} \X Job
  BY <1>1
<1>12. [w EXCEPT !.unlisted = {}] = [p EXCEPT !.fetching = F, !.unlisted = {}]
  OBVIOUS
<1> HIDE DEF w
<1>13. Kept(e, [w EXCEPT !.unlisted = {}])
  BY <1>9, <1>10, <1>11, NoneUnlisted
<1>14. AllGiven(g, p, F, e)
  BY <1>7, <1>12, <1>13 DEF AllGiven
<1>15. QED
  BY <1>14 DEF e

-----------------------------------------------------------------------------
(***************************************************************************)
(* receive_artifact_transferred.                                           *)
(***************************************************************************)
\* The live jobs among js are those that wait for d.
Waiters(g, C, d, js) ==
  /\ js \in Seq(Job)
  /\ \A i \in DOMAIN js : js[i] \in LiveIn(g) =>
       /\ Owner(js[i]) \in C /\ d \in BeingAcquired(g.job[js[i]])
       /\ \A k \in DOMAIN js : js[k] = js[i] => k = i
  /\ \A k \in LiveIn(g) : d \in BeingAcquired(g.job[k]) => \E i \in DOMAIN js : js[i] = k

LEMMA WhoWaits ==
  ASSUME NEW g, NEW p, Kept(g, p), p.unlisted = {}, NEW d \in Digest,
         \A k \in LiveIn(g) : Owner(k) \in p.clients
  PROVE  Waiters(g, p.clients, d,
                 IF g.cache.entry[d].st = "getting" THEN g.cache.entry[d].jobs ELSE <<>>)
<1> DEFINE e == g.cache.entry[d]
           js == IF e.st = "getting" THEN e.jobs ELSE <<>>
           C == p.clients
           S == p.started
           U == p.uploaded
<1>1. e \in Entry /\ WaitsRight(g, S, U, C, {})
  BY DEF Kept, Typed, CacheTyped
<1>2. js \in Seq(Job)
  BY <1>1, FormsOfEntry
<1>3. ASSUME NEW k \in LiveIn(g), d \in BeingAcquired(g.job[k])
      PROVE  Listed(e, k)
  BY <1>1, <1>3 DEF WaitsRight
<1>4. ASSUME NEW k \in LiveIn(g), d \in BeingAcquired(g.job[k])
      PROVE  /\ \E i \in DOMAIN js : js[i] = k
             /\ \A i \in DOMAIN js : js[i] = k => \A b \in DOMAIN js : js[b] = k => b = i
  BY <1>3, <1>4 DEF Listed
<1>5. ASSUME NEW i \in DOMAIN js, js[i] \in LiveIn(g)
      PROVE  Owner(js[i]) \in C /\ d \in BeingAcquired(g.job[js[i]])
  <2>1. e.st = "getting" /\ js = e.jobs
    BY <1>5
  <2>2. ListRight(g, S, U, C, d)
    BY <1>1, <2>1 DEF WaitsRight
  <2>3. QED
    BY <1>5, <2>1, <2>2 DEF ListRight
<1> HIDE DEF js
<1>6. Waiters(g, C, d, js)
  BY <1>2, <1>4, <1>5 DEF Waiters
<1>7. QED
  BY <1>6 DEF js

LEMMA RightForgets ==
  ASSUME Right
  PROVE  GoneIsForgotten
<1>1. \A j \in LiveIn(Now) : Owner(j) \in clients
  BY DEF Right
<1>2. /\ Kept(Now, Around) /\ Now.cache = cache /\ Now.job = job
      /\ Around.uploaded = uploaded /\ Around.clients = clients /\ Around.started = started
      /\ Around.unlisted = {}
  BY NowIsKept
<1>3. WaitsRight(Now, started, uploaded, clients, {})
  BY <1>2 DEF Kept
<1>4. ASSUME NEW d \in Digest, cache.entry[d].st = "getting"
      PROVE  /\ cache.entry[d].getters \subseteq clients
             /\ \A i \in DOMAIN cache.entry[d].jobs : Owner(cache.entry[d].jobs[i]) \in clients
  <2>1. ListRight(Now, started, uploaded, clients, d)
    BY <1>2, <1>3, <1>4 DEF WaitsRight
  <2>2. QED
    BY <1>2, <2>1 DEF ListRight
<1>5. \A j \in Live : Owner(j) \in clients
  BY <1>1, <1>2 DEF Live, LiveIn
<1>6. QED
  BY <1>4, <1>5 DEF GoneIsForgotten

\* What the action does, by the folds above.
TransferEnds(c, d, got, ord) ==
  /\ c \in clients /\ uploaded[<<c, d>>] > 0
  /\ uploaded' = [uploaded EXCEPT ![<<c, d>>] = @ - 1] /\ landed' = landed \ {d}
  /\ got.ok => Become(Advances!Fold(d, 0, [Now EXCEPT !.cache = got.cache], got.jobs))
  /\ ~got.ok => Become(FailJobs([Now EXCEPT !.cache = got.cache], got.jobs, ord))
  /\ clients' = clients /\ started' = started /\ completed' = completed /\ fetching' = fetching

LEMMA AdvanceFold ==
  ASSUME Right, NEW c, NEW d \in Digest, NEW fsOk \in BOOLEAN, NEW ord,
         ArtifactTransferred(c, d, fsOk, ord)
  PROVE  TransferEnds(c, d, IF d \in landed THEN GotArtifactSuccess(cache, d, fsOk)
                            ELSE GotArtifactFailure(cache, d), ord)
<1> DEFINE got == IF d \in landed THEN GotArtifactSuccess(cache, d, fsOk)
                  ELSE GotArtifactFailure(cache, d)
           g == [Now EXCEPT !.cache = got.cache]
<1>1. IF \E j \in ToSet(got.jobs) : ~HasClient(j) THEN Become(Panic(g))
      ELSE IF got.ok THEN Become(Advances!Fold(d, 0, g, got.jobs))
      ELSE Become(FailJobs(g, got.jobs, ord))
  BY Zenon DEF ArtifactTransferred, Advances!Fold, AdvanceStep, FoldLeft,
               MapThenFoldSet, Max, Advances!Greatest
<1>2. /\ c \in clients /\ uploaded[<<c, d>>] > 0
      /\ uploaded' = [uploaded EXCEPT ![<<c, d>>] = @ - 1] /\ landed' = landed \ {d}
      /\ clients' = clients /\ started' = started /\ completed' = completed
      /\ fetching' = fetching
  BY Zenon DEF ArtifactTransferred
<1>3. CacheTyped(cache)
  BY NowIsKept DEF Typed
<1>4. Arrived(cache, d, got)
  BY <1>3, ArrivedIsRight
<1> HIDE DEF got, g
<1>5. \A j \in ToSet(got.jobs) : HasClient(j)
  <2>1. GoneIsForgotten
    BY RightForgets
  <2>2. got.jobs = IF cache.entry[d].st = "getting" THEN cache.entry[d].jobs ELSE <<>>
    BY <1>4 DEF Arrived
  <2>3. CASE cache.entry[d].st = "getting"
    BY <2>1, <2>2, <2>3 DEF GoneIsForgotten, HasClient, ToSet
  <2>4. CASE cache.entry[d].st # "getting"
    BY <2>2, <2>4 DEF ToSet
  <2>5. QED
    BY <2>3, <2>4
<1>6. IF got.ok THEN Become(Advances!Fold(d, 0, g, got.jobs))
      ELSE Become(FailJobs(g, got.jobs, ord))
  BY <1>1, <1>5, Zenon
<1>7. QED
  BY <1>2, <1>6 DEF TransferEnds, got, g

LEMMA ArtifactTransferredIsRight ==
  ASSUME Right, NEW c \in Client, NEW d \in Digest, NEW fsOk \in BOOLEAN, NEW ord \in Orders,
         ArtifactTransferred(c, d, fsOk, ord)
  PROVE  Right'
<1> DEFINE got == IF d \in landed THEN GotArtifactSuccess(cache, d, fsOk)
                  ELSE GotArtifactFailure(cache, d)
           g == [Now EXCEPT !.cache = got.cache]
           js == got.jobs
           U == [uploaded EXCEPT ![<<c, d>>] = @ - 1]
           F == fetching
           p == [Around EXCEPT !.uploaded = U, !.unlisted = {d} \X Job]
           M == IF got.ok THEN MoreBy(F, d, Len(js)) ELSE F
           q == [p EXCEPT !.fetching = M]
           w == [p EXCEPT !.fetching = F, !.unlisted = {}]
<1>1. TransferEnds(c, d, got, ord)
  BY AdvanceFold
<1>2. /\ c \in clients /\ uploaded[<<c, d>>] > 0
      /\ uploaded' = U /\ landed' = landed \ {d}
      /\ (got.ok => Become(Advances!Fold(d, 0, g, js)))
      /\ (~got.ok => Become(FailJobs(g, js, ord)))
      /\ clients' = clients /\ started' = started /\ completed' = completed
      /\ fetching' = fetching
  BY <1>1 DEF TransferEnds
<1>3. /\ clients \subseteq Client /\ landed \subseteq Digest /\ completed \subseteq started
      /\ \A k \in LiveIn(Now) : Owner(k) \in clients
      /\ (~Overlap => UploadsRight)
  BY DEF Right
<1>4. /\ Kept(Now, Around) /\ WaitFull(Now) /\ Typed(Now)
      /\ Now.ready = {} /\ Now.failed = {} /\ Now.cache = cache
      /\ Around.started = started /\ Around.uploaded = uploaded
      /\ Around.clients = clients /\ Around.fetching = fetching
      /\ Around.announced = announced /\ Around.completed = completed
      /\ Around.unlisted = {} /\ Around.unread = {} /\ Around.unasked = {}
  BY NowIsKept
<1>5. /\ F \in [Digest -> Nat] /\ uploaded \in [Client \X Digest -> Nat]
      /\ DOMAIN Around = {"started", "uploaded", "clients", "fetching", "announced", "completed",
                          "unlisted", "unread", "unasked"}
  BY <1>4 DEF Kept
<1>6. /\ p.started = started /\ p.uploaded = U /\ p.clients = clients /\ p.fetching = F
      /\ p.announced = announced /\ p.completed = completed /\ p.unlisted = {d} \X Job
      /\ p.unread = {} /\ p.unasked = {} /\ DOMAIN p = DOMAIN Around
  BY <1>4, <1>5
<1> HIDE DEF p
<1>7. /\ q.started = started /\ q.uploaded = U /\ q.clients = clients /\ q.fetching = M
      /\ q.announced = announced /\ q.completed = completed /\ q.unlisted = {d} \X Job
      /\ q.unread = {} /\ q.unasked = {} /\ DOMAIN q = DOMAIN Around
  BY <1>5, <1>6
<1>8. /\ w.started = started /\ w.uploaded = U /\ w.clients = clients /\ w.fetching = F
      /\ w.announced = announced /\ w.completed = completed /\ w.unlisted = {}
      /\ w.unread = {} /\ w.unasked = {} /\ [q EXCEPT !.fetching = F, !.unlisted = {}] = w
  BY <1>5, <1>6
<1>9. CacheTyped(cache)
  BY <1>4 DEF Typed
<1>10. Arrived(cache, d, got)
  BY <1>9, ArrivedIsRight
<1>11. ~Overlap => got.ok \/ cache.entry[d].st = "getting"
  BY <1>2, <1>3 DEF UploadsRight, GotArtifactSuccess
<1> HIDE DEF got
<1>12. /\ g.cache = got.cache /\ DOMAIN g = DOMAIN Now /\ g.job = Now.job
       /\ g.asked = Now.asked /\ SameReads(Now, g) /\ g.ready = Now.ready
       /\ g.failed = Now.failed
  BY DEF Now, SameReads
<1> HIDE DEF g, q, w
<1>13. U \in [Client \X Digest -> Nat]
       /\ \A e \in Client : \A x \in Digest \ {d} : U[<<e, x>>] = uploaded[<<e, x>>]
  <2>1. U \in [Client \X Digest -> Nat]
    BY <1>2, <1>5
  <2>2. ASSUME NEW e \in Client, NEW x \in Digest \ {d}
        PROVE  U[<<e, x>>] = uploaded[<<e, x>>]
    <3>1. <<e, x>> # <<c, d>> /\ <<e, x>> \in Client \X Digest
      BY <2>2
    <3>2. QED
      BY <1>5, <3>1
  <2>3. QED
    BY <2>1, <2>2
<1>14. U[<<c, d>>] = uploaded[<<c, d>>] - 1
       /\ \A u \in Client \X Digest : u # <<c, d>> => U[u] = uploaded[u]
  BY <1>5
<1> HIDE DEF U
<1>15. Arrives(Now, Around, d, got, g, q)
  BY <1>4, <1>7, <1>10, <1>11, <1>12, <1>13 DEF Arrives
<1>16. Kept(g, q)
  BY <1>4, <1>15, ArrivesIsRight
<1>17. LiveIn(g) = LiveIn(Now) /\ WaitFull(g)
  BY <1>4, <1>12 DEF LiveIn, WaitFull, SameReads
<1>18. js = IF Now.cache.entry[d].st = "getting" THEN Now.cache.entry[d].jobs ELSE <<>>
  BY <1>4, <1>10 DEF Arrived
<1>19. Waiters(g, clients, d, js)
  <2>1. Waiters(Now, clients, d, js)
    BY <1>3, <1>4, <1>18, WhoWaits
  <2>2. QED
    BY <1>12, <1>17, <2>1 DEF Waiters
<1>20. ~Overlap => UploadsRight'
  <2>1. ASSUME ~Overlap, NEW x \in Digest, NEW e \in Client, U[<<e, x>>] > 0
        PROVE  /\ x \in landed \ {d} /\ U[<<e, x>>] = 1
               /\ \A f \in Client : U[<<f, x>>] > 0 => f = e
    <3>1. \A f \in Client : \A y \in Digest : U[<<f, y>>] > 0 => uploaded[<<f, y>>] > 0
      <4>1. ASSUME NEW f \in Client, NEW y \in Digest, U[<<f, y>>] > 0
            PROVE  uploaded[<<f, y>>] > 0
        <5>1. <<f, y>> \in Client \X Digest
          OBVIOUS
        <5>2. CASE <<f, y>> = <<c, d>>
          BY <1>2, <5>2
        <5>3. CASE <<f, y>> # <<c, d>>
          BY <1>14, <4>1, <5>1, <5>3
        <5>4. QED
          BY <5>2, <5>3
      <4>2. QED
        BY <4>1
    <3>2. /\ x \in landed /\ uploaded[<<e, x>>] = 1
          /\ \A f \in Client : uploaded[<<f, x>>] > 0 => f = e
      BY <1>3, <2>1, <3>1 DEF UploadsRight
    <3>3. x # d
      <4>1. SUFFICES ASSUME x = d PROVE FALSE
        OBVIOUS
      <4>2. e = c
        BY <1>2, <3>2, <4>1
      <4>3. U[<<c, d>>] = 0
        BY <1>14, <3>2, <4>1, <4>2
      <4>4. QED
        BY <2>1, <4>1, <4>2, <4>3
    <3>4. QED
      BY <1>13, <3>1, <3>2, <3>3
  <2>2. QED
    BY <1>2, <2>1 DEF UploadsRight
<1>21. ASSUME NEW h, Become(h), Kept(h, w), WaitFull(h), LiveIn(h) \subseteq LiveIn(Now)
       PROVE  Right'
  <2>1. EndsAmong(h, w)
    BY <1>2, <1>3, <1>8, <1>20, <1>21 DEF EndsAmong
  <2>2. QED
    BY <2>1, EndsAmongRight
<1>22. CASE got.ok
  <2>1. js # <<>> => g.cache.entry[d].st = "inUse"
    BY <1>4, <1>10, <1>12, <1>18, <1>22 DEF Arrived
  <2>2. Kept(g, [p EXCEPT !.fetching = MoreBy(F, d, Len(js))])
    BY <1>16, <1>22 DEF q
  <2>3. ToGive(g, p, d, js, F)
    BY <1>5, <1>6, <1>17, <1>19, <2>1, <2>2 DEF ToGive, Waiters
  <2> DEFINE h == Advances!Fold(d, 0, g, js)
  <2>4. AllGiven(g, p, F, h)
    BY <1>6, <2>3, AllAreGiven
  <2>5. Become(h)
    BY <1>2, <1>22
  <2> HIDE DEF h
  <2>6. Kept(h, w) /\ WaitFull(h) /\ LiveIn(h) \subseteq LiveIn(Now)
    BY <1>17, <2>4 DEF AllGiven, w
  <2>7. QED
    BY <1>21, <2>5, <2>6
<1>23. CASE ~got.ok
  <2> DEFINE h == FailJobs(g, js, ord)
  <2>1. js \in Seq(Job) /\ M = F
    BY <1>19, <1>23 DEF Waiters
  <2>2. ASSUME NEW j \in ToSet(js), j \in LiveIn(g)
        PROVE  q.announced[j] = <<>> /\ j \notin g.ready
    <3>1. PICK i \in DOMAIN js : js[i] = j
      BY <2>2 DEF ToSet
    <3>2. d \in BeingAcquired(g.job[j])
      BY <1>19, <2>2, <3>1 DEF Waiters
    <3>3. g.job[j].being # {}
      BY <3>2 DEF BeingAcquired
    <3>4. QED
      BY <1>16, <2>2, <3>3, NotReadyYet
  <2>3. AllGone(g, q, js, h)
    BY <1>16, <2>1, <2>2, FailJobsIsRight
  <2>4. Become(h)
    BY <1>2, <1>23
  <2> HIDE DEF h
  <2>5. /\ Kept(h, q) /\ LiveIn(h) = LiveIn(g) \ ToSet(js)
        /\ \A k \in LiveIn(h) : h.job[k] = g.job[k]
        /\ h.waiting = g.waiting /\ h.inProgress = g.inProgress
    BY <2>3 DEF AllGone
  <2>6. ASSUME NEW k \in LiveIn(h)
        PROVE  d \notin BeingAcquired(h.job[k])
    <3>1. k \in LiveIn(g) /\ k \notin ToSet(js) /\ h.job[k] = g.job[k]
      BY <2>5, <2>6
    <3>2. ~\E i \in DOMAIN js : js[i] = k
      BY <3>1 DEF ToSet
    <3>3. QED
      BY <1>19, <3>1, <3>2 DEF Waiters
  <2>7. Kept(h, [q EXCEPT !.unlisted = {}])
    BY <1>7, <2>5, <2>6, NoneUnlisted
  <2>8. [q EXCEPT !.unlisted = {}] = w
    BY <1>5, <1>6, <2>1 DEF q, w
  <2>9. WaitFull(h) /\ LiveIn(h) \subseteq LiveIn(Now)
    BY <1>17, <2>5 DEF WaitFull
  <2>10. QED
    BY <1>21, <2>4, <2>7, <2>8, <2>9
<1>24. QED
  BY <1>22, <1>23

-----------------------------------------------------------------------------
(***************************************************************************)
(* receive_manifest_entry.                                                 *)
(***************************************************************************)
\* The read of d has got the entry e; the jobs that read d are still to be told
\* of it, if it is new.
Gets(g, p, d, e, h, q) ==
  /\ Kept(g, p) /\ d \in Digest /\ g.reader[d].st = "open" /\ p.unread = {}
  /\ g.reader[d].next <= Len(Entries[d]) /\ e = Entries[d][g.reader[d].next]
  /\ DOMAIN h = DOMAIN g /\ h.cache = g.cache /\ h.job = g.job /\ h.asked = g.asked
  /\ h.known = g.known /\ h.waiting = g.waiting /\ h.inProgress = g.inProgress
  /\ h.ready = g.ready /\ h.failed = g.failed
  /\ h.reader = [g.reader EXCEPT ![d].next = @ + 1]
  /\ h.reads = [g.reads EXCEPT ![d].entries = @ \cup {e}]
  /\ q.started = p.started /\ q.clients = p.clients /\ q.announced = p.announced
  /\ q.completed = p.completed /\ q.unasked = p.unasked /\ q.unlisted = p.unlisted
  /\ q.uploaded = p.uploaded /\ q.fetching = p.fetching /\ DOMAIN q = DOMAIN p
  /\ \A j \in g.reads[d].jobs : <<j, d>> \in q.unread \/ e \in g.reads[d].entries

\* What is read is one of the reads.
LEMMA ReaderReads ==
  ASSUME NEW g, Typed(g), ReadersRight(g), NEW d \in Digest, g.reader[d].st # "none"
  PROVE  /\ g.reads[d] # NoRead /\ g.reads[d].st = "read" /\ g.reads[d].jobs \in SUBSET Job
         /\ DOMAIN g.reads[d] = {"st", "jobs", "entries"} /\ g.reads[d].entries \in SUBSET Digest
         /\ g.reader[d] # NoReader /\ g.reader[d].next \in Nat \ {0}
         /\ g.reader[d].st \in {"requested", "open", "failed"}
         /\ DOMAIN g.reader[d] = {"st", "next"}
<1>1. g.reader[d] \in ReaderRecord /\ g.reader[d] # NoReader /\ g.reads[d] \in ReadRecord
  BY DEF Typed, NoReader
<1>2. d \in ReadersOf(g)
  BY <1>1 DEF ReadersOf
<1>3. g.reads[d] # NoRead
  BY <1>2 DEF ReadersRight, InReads
<1>4. QED
  BY <1>1, <1>3 DEF ReadRecord, ReaderRecord

LEMMA GetsIsRight ==
  ASSUME NEW g, NEW p, NEW d, NEW e, NEW h, NEW q, Gets(g, p, d, e, h, q)
  PROVE  Kept(h, q)
<1> DEFINE S == p.started
           n == g.reader[d].next
           es == Entries[d]
           L == LiveIn(g)
<1>1. /\ Kept(g, p) /\ d \in Digest /\ g.reader[d].st = "open" /\ p.unread = {}
      /\ n <= Len(es) /\ e = es[n]
      /\ DOMAIN h = DOMAIN g /\ h.cache = g.cache /\ h.job = g.job /\ h.asked = g.asked
      /\ h.known = g.known /\ h.waiting = g.waiting /\ h.inProgress = g.inProgress
      /\ h.ready = g.ready /\ h.failed = g.failed
      /\ h.reader = [g.reader EXCEPT ![d].next = @ + 1]
      /\ h.reads = [g.reads EXCEPT ![d].entries = @ \cup {e}]
  BY DEF Gets
<1>2. /\ q.started = S /\ q.clients = p.clients /\ q.announced = p.announced
      /\ q.completed = p.completed /\ q.unasked = p.unasked /\ q.unlisted = p.unlisted
      /\ q.uploaded = p.uploaded /\ q.fetching = p.fetching /\ DOMAIN q = DOMAIN p
      /\ \A j \in g.reads[d].jobs : <<j, d>> \in q.unread \/ e \in g.reads[d].entries
  BY DEF Gets
<1>3. /\ Typed(g) /\ g.failed \subseteq S /\ p.fetching \in [Digest -> Nat]
      /\ Spare(g.cache) >= 0 /\ p.uploaded \in [Client \X Digest -> Nat]
      /\ LiveRight(g, S) /\ WaitsRight(g, S, p.uploaded, p.clients, p.unlisted)
      /\ ReadsRight(g) /\ ReadersRight(g) /\ EntriesRight(g)
      /\ LayersRight(g, {}, p.unasked)
      /\ TellsRight(g, p.announced, p.completed, p.clients)
      /\ (~Overlap => HeldRight(g, p.fetching))
      /\ DOMAIN p = {"started", "uploaded", "clients", "fetching", "announced", "completed",
                     "unlisted", "unread", "unasked"}
  BY <1>1 DEF Kept
<1> DEFINE rd == g.reads[d]
           rd2 == [rd EXCEPT !.entries = @ \cup {e}]
           rr == g.reader[d]
           rr2 == [rr EXCEPT !.next = @ + 1]
<1>4. /\ rd # NoRead /\ rd.st = "read" /\ rd.jobs \in SUBSET Job
      /\ DOMAIN rd = {"st", "jobs", "entries"} /\ rd.entries \in SUBSET Digest
      /\ rr # NoReader /\ n \in Nat \ {0} /\ DOMAIN rr = {"st", "next"}
  BY <1>1, <1>3, ReaderReads
<1>5. /\ es \in Seq(Digest) /\ Len(es) \in Nat /\ n \in 1 .. Len(es) /\ e \in Digest
  BY <1>1, <1>4, EntriesListed
<1>6. /\ rd2.st = "read" /\ rd2.jobs = rd.jobs /\ rd2.entries = rd.entries \cup {e}
      /\ rd2 \in ReadRecord /\ rd2 # NoRead
  BY <1>4, <1>5 DEF ReadRecord, NoRead
<1>7. /\ rr2.st = "open" /\ rr2.next = n + 1 /\ rr2 \in ReaderRecord /\ rr2 # NoReader
  BY <1>1, <1>4 DEF ReaderRecord, NoReader
<1> HIDE DEF rd2, rr2
<1>8. /\ h.reads \in [Digest -> ReadRecord] /\ h.reads[d] = rd2
      /\ \A x \in Digest \ {d} : h.reads[x] = g.reads[x]
      /\ h.reader \in [Digest -> ReaderRecord] /\ h.reader[d] = rr2
      /\ \A x \in Digest \ {d} : h.reader[x] = g.reader[x]
  <2>1. g.reads \in [Digest -> ReadRecord] /\ g.reader \in [Digest -> ReaderRecord]
    BY <1>3 DEF Typed
  <2>2. h.reads = [g.reads EXCEPT ![d] = rd2] /\ h.reader = [g.reader EXCEPT ![d] = rr2]
    BY <1>1 DEF rd2, rr2
  <2>3. d \in Digest /\ rd2 \in ReadRecord /\ rr2 \in ReaderRecord
    BY <1>1, <1>6, <1>7
  <2>4. /\ h.reads \in [Digest -> ReadRecord] /\ h.reads[d] = rd2
        /\ \A x \in Digest \ {d} : h.reads[x] = g.reads[x]
    BY <2>1, <2>2, <2>3
  <2>5. /\ h.reader \in [Digest -> ReaderRecord] /\ h.reader[d] = rr2
        /\ \A x \in Digest \ {d} : h.reader[x] = g.reader[x]
    BY <2>1, <2>2, <2>3
  <2>6. QED
    BY <2>4, <2>5
<1> HIDE DEF n, es, rd, rr
<1>9. Typed(h)
  BY <1>1, <1>3, <1>8 DEF Typed
<1>10. LiveIn(h) = L
  BY <1>1 DEF LiveIn
<1>11. LiveRight(h, S) /\ WaitsRight(h, S, p.uploaded, p.clients, p.unlisted)
  <2>1. SameWaits(g.cache, h.cache)
    BY <1>1 DEF SameWaits
  <2>2. QED
    BY <1>1, <1>3, <1>10, <2>1, LiveStays, WaitsStay
<1>12. \A x \in Digest : /\ (h.reads[x] = NoRead) <=> (g.reads[x] = NoRead)
                         /\ g.reads[x] # NoRead => h.reads[x].jobs = g.reads[x].jobs
                         /\ (h.reader[x] = NoReader) <=> (g.reader[x] = NoReader)
  BY <1>4, <1>6, <1>7, <1>8 DEF rd, rr
<1>13. ReadsRight(h)
  BY <1>1, <1>3, <1>10, <1>12 DEF ReadsRight
<1>14. ReadersRight(h)
  <2>1. ReadersOf(h) = ReadersOf(g) /\ InReads(h) = InReads(g)
    BY <1>12 DEF ReadersOf, InReads
  <2>2. QED
    BY <1>1, <1>3, <2>1 DEF ReadersRight
<1>15. EntriesRight(h)
  <2>1. ASSUME NEW x \in Digest, h.reads[x] # NoRead
        PROVE  /\ h.reader[x].next <= Len(Entries[x]) + 1
               /\ h.reads[x].entries = {Entries[x][i] : i \in 1 .. h.reader[x].next - 1}
    <3>1. CASE x # d
      BY <1>3, <1>8, <1>12, <2>1, <3>1 DEF EntriesRight
    <3>2. CASE x = d
      <4>1. rd.entries = {es[i] : i \in 1 .. n - 1}
        BY <1>1, <1>3, <1>4 DEF EntriesRight, rd, n, es
      <4>2. 1 .. (n + 1) - 1 = (1 .. n - 1) \cup {n}
        BY <1>5
      <4>3. rd2.entries = {es[i] : i \in 1 .. (n + 1) - 1}
        BY <1>1, <1>6, <4>1, <4>2
      <4>4. n + 1 <= Len(es) + 1
        BY <1>5
      <4>5. QED
        BY <1>7, <1>8, <3>2, <4>3, <4>4 DEF es
    <3>3. QED
      BY <3>1, <3>2
  <2>2. QED
    BY <2>1 DEF EntriesRight
<1>16. LayersRight(h, q.unread, q.unasked)
  <2>1. ASSUME NEW k \in L, NEW x \in Digest, k \notin rd.jobs \/ x # d
        PROVE  Seen(h, k, x) = Seen(g, k, x)
    <3>1. CASE x # d
      BY <1>1, <1>8, <3>1 DEF Seen
    <3>2. CASE x = d
      <4>1. d \notin g.job[k].reading
        BY <1>1, <1>3, <2>1, <3>2 DEF ReadsRight, L, LiveIn, rd
      <4>2. QED
        BY <1>1, <3>2, <4>1 DEF Seen
    <3>3. QED
      BY <3>1, <3>2
  <2>2. ASSUME NEW k \in rd.jobs, <<k, d>> \notin q.unread
        PROVE  Seen(h, k, d) \subseteq Seen(g, k, d)
    <3>1. d \in g.job[k].reading /\ e \in rd.entries
      BY <1>1, <1>2, <1>3, <1>4, <2>2 DEF ReadsRight, rd
    <3>2. QED
      BY <1>1, <1>6, <1>8, <3>1 DEF Seen, rd
  <2>3. ASSUME NEW k \in L, Apart(k), NEW x \in Manifests(k), x \in h.job[k].acquired
        PROVE  <<k, x>> \in q.unread \/ Seen(h, k, x) \subseteq Has(h.job[k])
    <3>1. Seen(g, k, x) \subseteq Has(g.job[k])
      BY <1>1, <1>3, <2>3 DEF LayersRight, L
    <3>2. x \in Digest
      <4>1. g.job[k].acquired \in SUBSET Digest
        BY <1>3, LiveJob DEF L
      <4>2. QED
        BY <1>1, <2>3, <4>1
    <3>3. QED
      BY <1>1, <2>1, <2>2, <2>3, <3>1, <3>2
  <2>4. QED
    BY <1>1, <1>2, <1>3, <1>10, <2>3 DEF LayersRight, L
<1>17. TellsRight(h, p.announced, p.completed, p.clients)
  BY <1>1, <1>3, <1>10 DEF TellsRight, L
<1>18. ASSUME ~Overlap PROVE HeldRight(h, p.fetching)
  <2>1. ClaimsIn(h, p.fetching) = ClaimsIn(g, p.fetching)
    BY <1>1, <1>10, SameClaims DEF L
  <2>2. HeldRight(g, p.fetching)
    BY <1>3, <1>18
  <2>3. QED
    BY <1>1, <2>1, <2>2 DEF HeldRight
<1>19. QED
  BY <1>1, <1>2, <1>3, <1>9, <1>11, <1>13, <1>14, <1>15, <1>16, <1>17, <1>18 DEF Kept, S

\* The jobs that read d are told of its entry e.
ShareStep(e, o, h, j) == StartAcquiring(h, j, e, FALSE)
Shared(r, n, h) ==
  /\ Kept(h, r.around) /\ LiveIn(h) = LiveIn(r.from) /\ h.ready = r.from.ready
  /\ SameReads(r.from, h)
  /\ \A k \in LiveIn(h) : /\ h.job[k].reading = r.from.job[k].reading
                          /\ Has(r.from.job[k]) \subseteq Has(h.job[k])
                          /\ h.job[k].acquired \subseteq r.from.job[k].acquired \cup {r.entry}
  /\ \A i \in 1 .. n : r.entry \in Has(h.job[r.list[i]])
Shares == INSTANCE FoldTheorems WITH Op <- ShareStep, Inv <- Shared

LEMMA ShareFold ==
  ASSUME NEW g, NEW e, NEW js
  PROVE  FoldLeft(LAMBDA h, j : StartAcquiring(h, j, e, FALSE), g, js)
           = Shares!Fold(e, 0, g, js)
BY DEF Shares!Fold, ShareStep, FoldLeft, MapThenFoldSet, Max,
       Shares!Greatest

ToShare(g, p, d, e, js) ==
  /\ Kept(g, p) /\ d \in Digest /\ e \in ToSet(Entries[d]) /\ g.reads[d] # NoRead
  /\ js \in Seq(Job) /\ ToSet(js) = g.reads[d].jobs
  /\ \A k \in LiveIn(g) : Owner(k) \in p.clients

SharesIn(g, p, e, js) == [around |-> p, from |-> g, entry |-> e, list |-> js]

LEMMA OneMoreShared ==
  ASSUME NEW g, NEW p, NEW d, NEW e, NEW js, ToShare(g, p, d, e, js),
         NEW n \in 1 .. Len(js), NEW h, Shared(SharesIn(g, p, e, js), n - 1, h)
  PROVE  Shared(SharesIn(g, p, e, js), n, ShareStep(e, 0, h, js[n]))
<1> DEFINE j == js[n]
           k == StartAcquiring(h, j, e, FALSE)
           L == LiveIn(g)
<1>1. /\ Kept(g, p) /\ d \in Digest /\ e \in ToSet(Entries[d]) /\ g.reads[d] # NoRead
      /\ js \in Seq(Job) /\ ToSet(js) = g.reads[d].jobs
      /\ \A i \in L : Owner(i) \in p.clients
  BY DEF ToShare
<1>2. /\ Kept(h, p) /\ LiveIn(h) = L /\ h.ready = g.ready /\ SameReads(g, h)
      /\ \A i \in L : /\ h.job[i].reading = g.job[i].reading
                      /\ Has(g.job[i]) \subseteq Has(h.job[i])
                      /\ h.job[i].acquired \subseteq g.job[i].acquired \cup {e}
      /\ \A i \in 1 .. n - 1 : e \in Has(h.job[js[i]])
  BY DEF Shared, SharesIn
<1>3. j \in ToSet(js) /\ j \in Job /\ e \in Digest
  <2>1. e \in Digest
    BY <1>1, EntriesListed
  <2>2. n \in DOMAIN js
    BY <1>1
  <2>3. QED
    BY <1>1, <2>1, <2>2, InSequence
<1>4. Typed(h) /\ ReadsRight(h) /\ TellsRight(h, p.announced, p.completed, p.clients)
  BY <1>2 DEF Kept
<1> HIDE DEF j
<1>5. j \in L /\ d \in h.job[j].reading
  <2>1. h.reads[d] # NoRead /\ j \in h.reads[d].jobs
    BY <1>1, <1>2, <1>3 DEF SameReads
  <2>2. QED
    BY <1>1, <1>2, <1>3, <1>4, <2>1 DEF ReadsRight
<1>6. p.announced[j] = <<>> /\ j \notin h.ready
  <2>1. ~HaveAll(h.job[j])
    BY <1>5 DEF HaveAll
  <2>2. QED
    BY <1>2, <1>4, <1>5, <2>1 DEF TellsRight
<1>7. Apart(j) => e \notin Manifests(j)
  <2>1. ASSUME Apart(j) PROVE d \in Manifests(j)
    BY <1>2, <1>4, <1>5, <2>1 DEF ReadsRight
  <2>2. QED
    BY <1>1, <2>1, EntriesApart
<1>8. MayAcquire(h, p, j, e, FALSE)
  BY <1>1, <1>2, <1>3, <1>5, <1>6, <1>7 DEF MayAcquire, MayTake
<1>9. /\ Kept(k, p) /\ Acquiring(h, j, k) /\ e \in Has(k.job[j])
      /\ k.job[j].acquired \subseteq h.job[j].acquired \cup {e}
  BY <1>2, <1>3, <1>4, <1>5, <1>8, StartAcquiringIsRight, AcquiresOnly
<1> HIDE DEF k, L
<1>10. /\ LiveIn(k) = L /\ k.ready = g.ready /\ SameReads(g, k)
       /\ k.job[j].reading = h.job[j].reading /\ Has(h.job[j]) \subseteq Has(k.job[j])
       /\ \A i \in Job \ {j} : k.job[i] = h.job[i]
  BY <1>2, <1>9 DEF Acquiring, Grows, SameReads
<1>11. L \subseteq Job
  BY DEF L, LiveIn
<1>12. \A i \in L : /\ k.job[i].reading = g.job[i].reading
                    /\ Has(g.job[i]) \subseteq Has(k.job[i])
                    /\ k.job[i].acquired \subseteq g.job[i].acquired \cup {e}
  BY <1>2, <1>9, <1>10, <1>11
<1>13. ASSUME NEW i \in 1 .. n
       PROVE  e \in Has(k.job[js[i]])
  <2>1. CASE js[i] = j
    BY <1>9, <2>1
  <2>2. CASE js[i] # j
    <3>1. i \in 1 .. n - 1 /\ i \in DOMAIN js /\ js[i] \in Job
      BY <1>1, <2>2 DEF j
    <3>2. QED
      BY <1>2, <1>10, <2>2, <3>1
  <2>3. QED
    BY <2>1, <2>2
<1>14. Shared(SharesIn(g, p, e, js), n, k)
  BY <1>9, <1>10, <1>12, <1>13 DEF Shared, SharesIn, L
<1>15. ShareStep(e, 0, h, j) = k
  BY DEF ShareStep, k
<1>16. QED
  BY <1>14, <1>15 DEF j

LEMMA AllShared ==
  ASSUME NEW g, NEW p, NEW d, NEW e, NEW js, ToShare(g, p, d, e, js)
  PROVE  Shared(SharesIn(g, p, e, js), Len(js), Shares!Fold(e, 0, g, js))
<1> DEFINE r == SharesIn(g, p, e, js)
<1>1. Kept(g, p) /\ js \in Seq(Job)
  BY DEF ToShare
<1>2. r.around = p /\ r.from = g
  BY DEF SharesIn
<1> HIDE DEF r
<1>3. Shared(r, 0, g)
  <2>1. \A i \in 1 .. 0 : FALSE
    OBVIOUS
  <2>2. QED
    BY <1>1, <1>2, <2>1 DEF Shared, SameReads
<1>4. ASSUME NEW a, NEW n \in 1 .. Len(js), js[n] \in Job, Shared(r, n - 1, a)
      PROVE  Shared(r, n, ShareStep(e, 0, a, js[n]))
  BY <1>4, OneMoreShared DEF r
<1>5. Shared(r, Len(js), Shares!Fold(e, 0, g, js))
  BY <1>1, <1>3, <1>4, LeastOf, Shares!FoldKeeps
<1>6. QED
  BY <1>5 DEF r

SameAround(p, q) ==
  /\ q.started = p.started /\ q.uploaded = p.uploaded /\ q.clients = p.clients
  /\ q.fetching = p.fetching /\ q.announced = p.announced /\ q.completed = p.completed
  /\ q.unlisted = p.unlisted /\ q.unread = p.unread /\ q.unasked = p.unasked
  /\ DOMAIN q = DOMAIN p

LEMMA AroundKept ==
  ASSUME NEW g, NEW p, NEW q, Kept(g, p), SameAround(p, q)
  PROVE  Kept(g, q)
BY DEF Kept, SameAround

\* All jobs have been told.
LEMMA NoneUnread ==
  ASSUME NEW g, NEW p, Kept(g, p),
         \A k \in LiveIn(g) : \A x \in g.job[k].acquired : Apart(k) /\ <<k, x>> \in p.unread
           => Seen(g, k, x) \subseteq Has(g.job[k])
  PROVE  Kept(g, [p EXCEPT !.unread = {}])
<1> DEFINE q == [p EXCEPT !.unread = {}]
<1>1. DOMAIN p = {"started", "uploaded", "clients", "fetching", "announced", "completed",
                  "unlisted", "unread", "unasked"}
  BY DEF Kept
<1>2. /\ q.started = p.started /\ q.uploaded = p.uploaded /\ q.clients = p.clients
      /\ q.fetching = p.fetching /\ q.announced = p.announced /\ q.completed = p.completed
      /\ q.unlisted = p.unlisted /\ q.unread = {} /\ q.unasked = p.unasked
      /\ DOMAIN q = DOMAIN p
  BY <1>1
<1> HIDE DEF q
<1>3. LayersRight(g, p.unread, p.unasked)
  BY DEF Kept
<1>4. LayersRight(g, {}, p.unasked)
  BY <1>3 DEF LayersRight
<1>5. Kept(g, q)
  BY <1>2, <1>4 DEF Kept
<1>6. QED
  BY <1>5 DEF q

LEMMA ReadersFinite ==
  ASSUME NEW g, NEW S, LiveRight(g, S), ReadsRight(g), NEW d \in Digest, g.reads[d] # NoRead,
         g.reads[d].jobs \in SUBSET Job
  PROVE  /\ IsFiniteSet(g.reads[d].jobs) /\ g.reads[d].jobs \subseteq LiveIn(g)
         /\ \A j \in g.reads[d].jobs : d \in g.job[j].reading
<1>1. \A j \in g.reads[d].jobs : j \in LiveIn(g) /\ d \in g.job[j].reading
  BY DEF ReadsRight
<1>2. IsFiniteSet(LiveIn(g))
  BY DEF LiveRight
<1>3. QED
  BY <1>1, <1>2, FS_Subset

\* A read that has a reader is there, with its jobs and their clients.
LEMMA ReadJobs ==
  ASSUME Right, NEW d \in Digest, reader[d].st # "none"
  PROVE  /\ reads[d] # NoRead /\ \A j \in reads[d].jobs : HasJob(j)
         /\ \A ok \in BOOLEAN : ReadInOrder(d, ok)
<1>1. /\ Kept(Now, Around) /\ Typed(Now) /\ Now.job = job /\ Now.reads = reads
      /\ Now.reader = reader /\ Now.known = known /\ Now.inProgress = inProgress
  BY NowIsKept
<1>2. /\ ReadersRight(Now) /\ ReadsRight(Now) /\ LiveRight(Now, Around.started)
      /\ \A j \in LiveIn(Now) : Owner(j) \in clients
  BY <1>1 DEF Kept, Right
<1>3. /\ reads[d] # NoRead /\ reads[d].jobs \in SUBSET Job /\ reader[d] # NoReader
  BY <1>1, <1>2, ReaderReads
<1>4. reads[d].jobs \subseteq LiveIn(Now) /\ \A j \in reads[d].jobs : d \in job[j].reading
  BY <1>1, <1>2, <1>3, ReadersFinite
<1>5. \A j \in reads[d].jobs : HasJob(j)
  BY <1>1, <1>2, <1>4 DEF LiveIn, HasJob, HasClient
<1>6. d \notin ToSet(known)
  BY <1>1, <1>2, <1>3 DEF ReadersRight, InReads
<1>7. inProgress > 0
  <2> DEFINE A == ReadersOf(Now)
  <2>1. d \in A
    BY <1>1, <1>3 DEF ReadersOf
  <2>2. IsFiniteSet(A)
    BY GathererAssumption, FS_Subset DEF ReadersOf
  <2>3. inProgress = Cardinality(A)
    BY <1>1, <1>2 DEF ReadersRight
  <2> HIDE DEF A
  <2>4. Cardinality(A) \in Nat /\ Cardinality(A) # 0
    BY <2>1, <2>2, FS_EmptySet, FS_CardinalityType
  <2>5. QED
    BY <2>3, <2>4
<1>8. QED
  BY <1>3, <1>4, <1>5, <1>6, <1>7 DEF ReadInOrder

LEMMA ManifestEntryIsRight ==
  ASSUME Right, NEW d \in Digest, ManifestEntry(d)
  PROVE  Right'
<1> DEFINE n == reader[d].next
           e == Entries[d][n]
           J == reads[d].jobs
           js == SetToSeq(J)
           s == [Now EXCEPT !.reader[d].next = @ + 1, !.reads[d].entries = @ \cup {e}]
           h == FoldLeft(LAMBDA g, j : StartAcquiring(g, j, e, FALSE), s, js)
           q == [Around EXCEPT !.unread = {<<j, d>> : j \in J}]
<1>1. /\ reader[d].st = "open" /\ n <= Len(Entries[d])
      /\ Become(IF e \in reads[d].entries THEN s ELSE h)
      /\ clients' = clients /\ landed' = landed /\ started' = started
      /\ uploaded' = uploaded /\ completed' = completed /\ fetching' = fetching
  <2>1. reader[d].st # "none"
    BY DEF ManifestEntry
  <2>2. reads[d] # NoRead /\ \A j \in reads[d].jobs : HasJob(j)
    BY <2>1, ReadJobs
  <2>3. QED
    BY <2>2, Zenon DEF ManifestEntry
<1> HIDE DEF h
<1>2. /\ clients \subseteq Client /\ landed \subseteq Digest /\ completed \subseteq started
      /\ \A k \in LiveIn(Now) : Owner(k) \in clients
      /\ (~Overlap => UploadsRight)
  BY DEF Right
<1>3. /\ Kept(Now, Around) /\ WaitFull(Now) /\ Typed(Now)
      /\ Now.job = job /\ Now.reads = reads /\ Now.reader = reader
      /\ Around.started = started /\ Around.uploaded = uploaded
      /\ Around.clients = clients /\ Around.fetching = fetching
      /\ Around.announced = announced /\ Around.completed = completed
      /\ Around.unlisted = {} /\ Around.unread = {} /\ Around.unasked = {}
  BY NowIsKept
<1>4. /\ ReadersRight(Now) /\ ReadsRight(Now) /\ LiveRight(Now, started)
      /\ EntriesRight(Now) /\ LayersRight(Now, {}, {})
      /\ DOMAIN Around = {"started", "uploaded", "clients", "fetching", "announced", "completed",
                          "unlisted", "unread", "unasked"}
  BY <1>3 DEF Kept
<1>5. /\ reads[d] # NoRead /\ J \in SUBSET Job /\ reads[d].entries \in SUBSET Digest
      /\ DOMAIN reads[d] = {"st", "jobs", "entries"} /\ DOMAIN reader[d] = {"st", "next"}
      /\ n \in Nat \ {0}
  BY <1>1, <1>3, <1>4, ReaderReads
<1>6. IsFiniteSet(J) /\ J \subseteq LiveIn(Now) /\ \A j \in J : d \in Now.job[j].reading
  BY <1>3, <1>4, <1>5, ReadersFinite
<1>7. js \in Seq(Job) /\ ToSet(js) = J
  <2>1. js \in Seq(J) /\ ToSet(js) = J
    BY <1>6, SetInOrder
  <2>2. QED
    BY <1>5, <2>1
<1>8. e \in Digest /\ e \in ToSet(Entries[d])
  BY <1>1, <1>5, EntriesListed
<1>9. /\ DOMAIN s = DOMAIN Now /\ s.cache = Now.cache /\ s.job = Now.job /\ s.asked = Now.asked
      /\ s.known = Now.known /\ s.waiting = Now.waiting /\ s.inProgress = Now.inProgress
      /\ s.ready = Now.ready /\ s.failed = Now.failed
      /\ s.reader = [Now.reader EXCEPT ![d].next = @ + 1]
      /\ s.reads = [Now.reads EXCEPT ![d].entries = @ \cup {e}]
  BY DEF Now
<1>10. /\ q.started = started /\ q.uploaded = uploaded /\ q.clients = clients
       /\ q.fetching = fetching /\ q.announced = announced /\ q.completed = completed
       /\ q.unlisted = {} /\ q.unread = {<<j, d>> : j \in J} /\ q.unasked = {}
       /\ DOMAIN q = DOMAIN Around
  BY <1>3, <1>4
<1>11. LiveIn(s) = LiveIn(Now) /\ WaitFull(s)
  BY <1>3, <1>9 DEF LiveIn, WaitFull
<1>12. s.reads[d].jobs = J /\ s.reads[d].entries = reads[d].entries \cup {e}
       /\ s.reads[d] # NoRead
  <2>1. reads \in [Digest -> ReadRecord]
    BY <1>3 DEF Typed
  <2>2. s.reads[d] = [reads[d] EXCEPT !.entries = @ \cup {e}]
    BY <1>3, <1>9, <2>1
  <2>3. QED
    BY <1>5, <2>2 DEF NoRead
<1> HIDE DEF s, q, n, e, js, J
<1>13. ASSUME NEW g, Become(g), Kept(g, Around), WaitFull(g), LiveIn(g) = LiveIn(Now)
       PROVE  Right'
  <2>1. ~Overlap => UploadsRight'
    BY <1>1, <1>2, UploadsStay
  <2>2. EndsAmong(g, Around)
    BY <1>1, <1>2, <1>3, <1>13, <2>1 DEF EndsAmong
  <2>3. QED
    BY <2>2, EndsAmongRight
<1>14. CASE e \in reads[d].entries
  <2>1. Gets(Now, Around, d, e, s, Around)
    BY <1>1, <1>3, <1>9, <1>14 DEF Gets, n, e
  <2>2. Kept(s, Around)
    BY <2>1, GetsIsRight
  <2>3. QED
    BY <1>1, <1>11, <1>13, <1>14, <2>2
<1>15. CASE e \notin reads[d].entries
  <2>1. \A j \in Now.reads[d].jobs : <<j, d>> \in q.unread
    BY <1>3, <1>10 DEF J
  <2>2. Gets(Now, Around, d, e, s, q)
    BY <1>1, <1>3, <1>9, <1>10, <2>1 DEF Gets, n, e
  <2>3. Kept(s, q)
    BY <2>2, GetsIsRight
  <2>4. ToShare(s, q, d, e, js)
    BY <1>2, <1>7, <1>8, <1>10, <1>11, <1>12, <2>3 DEF ToShare
  <2>5. Shared(SharesIn(s, q, e, js), Len(js), Shares!Fold(e, 0, s, js))
    BY <2>4, AllShared
  <2>6. h = Shares!Fold(e, 0, s, js)
    BY Zenon, ShareFold DEF h
  <2>7. Shared(SharesIn(s, q, e, js), Len(js), h)
    BY <2>5, <2>6
  <2>8. /\ Kept(h, q) /\ LiveIn(h) = LiveIn(s) /\ SameReads(s, h)
        /\ \A k \in LiveIn(h) : /\ h.job[k].reading = s.job[k].reading
                                /\ Has(s.job[k]) \subseteq Has(h.job[k])
                                /\ h.job[k].acquired \subseteq s.job[k].acquired \cup {e}
        /\ \A i \in 1 .. Len(js) : e \in Has(h.job[js[i]])
    BY <2>7 DEF Shared, SharesIn
  <2>9. ASSUME NEW k \in LiveIn(h), NEW x \in h.job[k].acquired, Apart(k), <<k, x>> \in q.unread
        PROVE  Seen(h, k, x) \subseteq Has(h.job[k])
    <3>1. x = d /\ k \in J
      BY <1>10, <2>9
    <3>2. d \in Now.job[k].reading /\ k \in LiveIn(Now)
      BY <1>6, <3>1
    <3>3. d \in Manifests(k)
      BY <1>4, <2>9, <3>2 DEF ReadsRight
    <3>4. e \notin Manifests(k)
      BY <1>8, <2>9, <3>3, EntriesApart
    <3>5. d \in Now.job[k].acquired
      BY <1>9, <2>8, <2>9, <3>1, <3>3, <3>4
    <3>6. reads[d].entries \subseteq Has(Now.job[k])
      <4>1. Seen(Now, k, d) \subseteq Has(Now.job[k])
        BY <1>4, <2>9, <3>2, <3>3, <3>5 DEF LayersRight
      <4>2. QED
        BY <1>3, <3>2, <4>1 DEF Seen
    <3>7. e \in Has(h.job[k])
      <4>1. \E i \in 1 .. Len(js) : js[i] = k
        BY <1>7, <3>1, InSequence
      <4>2. QED
        BY <2>8, <4>1
    <3>8. Has(Now.job[k]) \subseteq Has(h.job[k])
      BY <1>9, <2>8, <2>9
    <3>9. Seen(h, k, d) = reads[d].entries \cup {e}
      <4>1. d \in h.job[k].reading
        BY <1>9, <2>8, <2>9, <3>2
      <4>2. QED
        BY <1>12, <2>8, <4>1 DEF Seen, SameReads
    <3>10. QED
      BY <3>1, <3>6, <3>7, <3>8, <3>9
  <2>10. Kept(h, Around)
    <3>1. Kept(h, [q EXCEPT !.unread = {}])
      BY <2>8, <2>9, NoneUnread
    <3>2. SameAround([q EXCEPT !.unread = {}], Around)
      BY <1>3, <1>4, <1>10 DEF SameAround
    <3>3. QED
      BY <3>1, <3>2, AroundKept
  <2>11. WaitFull(h)
    BY <1>11, <2>8 DEF WaitFull, SameReads
  <2>12. QED
    BY <1>1, <1>11, <1>13, <1>15, <2>8, <2>10, <2>11
<1>16. QED
  BY <1>14, <1>15

-----------------------------------------------------------------------------
(***************************************************************************)
(* receive_finished_reading_manifest.                                      *)
(***************************************************************************)
\* The read of d has ended; unless all of d was read, the jobs that read it are
\* still to be failed.
Finishes(g, p, d, h, q) ==
  /\ Kept(g, p) /\ d \in Digest /\ g.reader[d].st # "none" /\ p.unread = {}
  /\ DOMAIN h = DOMAIN g /\ h.cache = g.cache /\ h.asked = g.asked
  /\ h.known \in Seq(Digest) /\ ToSet(h.known) \subseteq ToSet(g.known) \cup {d}
  /\ h.waiting = g.waiting /\ h.inProgress = g.inProgress - 1
  /\ h.failed = g.failed
  /\ h.job = [j \in Job |-> IF j \in g.reads[d].jobs
                            THEN [g.job[j] EXCEPT !.reading = @ \ {d}] ELSE g.job[j]]
  /\ h.reader = [g.reader EXCEPT ![d] = NoReader] /\ h.reads = [g.reads EXCEPT ![d] = NoRead]
  /\ g.ready \subseteq h.ready
  /\ \A j \in h.ready \ g.ready : j \in g.reads[d].jobs /\ HaveAll(h.job[j])
  /\ q.started = p.started /\ q.clients = p.clients /\ q.announced = p.announced
  /\ q.completed = p.completed /\ q.unasked = p.unasked /\ q.unlisted = p.unlisted
  /\ q.uploaded = p.uploaded /\ q.fetching = p.fetching /\ DOMAIN q = DOMAIN p
  /\ \A j \in g.reads[d].jobs :
       <<j, d>> \in q.unread \/ ToSet(Entries[d]) \subseteq g.reads[d].entries

LEMMA FinishesIsRight ==
  ASSUME NEW g, NEW p, NEW d, NEW h, NEW q, Finishes(g, p, d, h, q)
  PROVE  /\ Kept(h, q) /\ LiveIn(h) = LiveIn(g)
         /\ \A j \in g.reads[d].jobs : p.announced[j] = <<>> /\ j \notin g.ready
<1> DEFINE S == p.started
           L == LiveIn(g)
           J == g.reads[d].jobs
           es == Entries[d]
           R == h.ready
<1>1. /\ Kept(g, p) /\ d \in Digest /\ g.reader[d].st # "none" /\ p.unread = {}
      /\ DOMAIN h = DOMAIN g /\ h.cache = g.cache /\ h.asked = g.asked
      /\ h.known \in Seq(Digest) /\ ToSet(h.known) \subseteq ToSet(g.known) \cup {d}
      /\ h.waiting = g.waiting /\ h.inProgress = g.inProgress - 1
      /\ h.failed = g.failed
      /\ h.job = [j \in Job |-> IF j \in J THEN [g.job[j] EXCEPT !.reading = @ \ {d}]
                                ELSE g.job[j]]
      /\ h.reader = [g.reader EXCEPT ![d] = NoReader] /\ h.reads = [g.reads EXCEPT ![d] = NoRead]
      /\ g.ready \subseteq R /\ \A j \in R \ g.ready : j \in J /\ HaveAll(h.job[j])
  BY DEF Finishes
<1>2. /\ q.started = S /\ q.clients = p.clients /\ q.announced = p.announced
      /\ q.completed = p.completed /\ q.unasked = p.unasked /\ q.unlisted = p.unlisted
      /\ q.uploaded = p.uploaded /\ q.fetching = p.fetching /\ DOMAIN q = DOMAIN p
      /\ \A j \in J : <<j, d>> \in q.unread \/ ToSet(es) \subseteq g.reads[d].entries
  BY DEF Finishes
<1>3. /\ Typed(g) /\ g.failed \subseteq S /\ p.fetching \in [Digest -> Nat]
      /\ Spare(g.cache) >= 0 /\ p.uploaded \in [Client \X Digest -> Nat]
      /\ LiveRight(g, S) /\ WaitsRight(g, S, p.uploaded, p.clients, p.unlisted)
      /\ ReadsRight(g) /\ ReadersRight(g) /\ EntriesRight(g)
      /\ LayersRight(g, {}, p.unasked)
      /\ TellsRight(g, p.announced, p.completed, p.clients)
      /\ (~Overlap => HeldRight(g, p.fetching))
      /\ DOMAIN p = {"started", "uploaded", "clients", "fetching", "announced", "completed",
                     "unlisted", "unread", "unasked"}
  BY <1>1 DEF Kept
<1>4. /\ g.reads[d] # NoRead /\ J \in SUBSET Job /\ g.reader[d] # NoReader
  BY <1>1, <1>3, ReaderReads
<1>5. J \subseteq L /\ \A j \in J : d \in g.job[j].reading
  BY <1>1, <1>3, <1>4, ReadersFinite
<1>6. \A j \in L : d \in g.job[j].reading => j \in J
  BY <1>1, <1>3 DEF ReadsRight, LiveIn
<1>7. L \subseteq Job /\ g.job \in [Job -> JobRecord]
  BY <1>3 DEF LiveIn, Typed
<1> HIDE DEF J, L, R
<1>8. ASSUME NEW j \in J
      PROVE  /\ h.job[j].st = "job" /\ h.job[j].acquired = g.job[j].acquired
             /\ h.job[j].being = g.job[j].being /\ h.job[j].reading = g.job[j].reading \ {d}
             /\ h.job[j] \in JobRecord /\ h.job[j] # NoJob
  <2> DEFINE o == g.job[j]
             r == [o EXCEPT !.reading = @ \ {d}]
  <2>1. /\ DOMAIN o = {"st", "acquired", "being", "reading"} /\ o.st = "job"
        /\ o.acquired \in SUBSET Digest /\ o.being \in SUBSET (Digest \X BOOLEAN)
        /\ o.reading \in SUBSET Digest
    BY <1>3, <1>5, <1>8, LiveJob DEF L
  <2>2. h.job[j] = r
    BY <1>1, <1>4, <1>8
  <2> HIDE DEF o
  <2>3. /\ r.st = "job" /\ r.acquired = o.acquired /\ r.being = o.being
        /\ r.reading = o.reading \ {d} /\ r \in JobRecord /\ r # NoJob
    BY <2>1 DEF JobRecord, NoJob
  <2>4. QED
    BY <2>2, <2>3 DEF o
<1>9. \A j \in Job \ J : h.job[j] = g.job[j]
  BY <1>1
<1>10. h.job \in [Job -> JobRecord]
  <2>1. \A j \in Job : h.job[j] \in JobRecord
    BY <1>7, <1>8, <1>9
  <2>2. h.job = [j \in Job |-> h.job[j]]
    BY <1>1
  <2>3. QED
    BY <2>1, <2>2
<1>11. LiveIn(h) = L
  <2>1. \A j \in J : g.job[j] # NoJob
    BY <1>5 DEF L, LiveIn
  <2>2. \A j \in Job : h.job[j] # NoJob <=> g.job[j] # NoJob
    BY <1>8, <1>9, <2>1
  <2>3. QED
    BY <2>2 DEF L, LiveIn
<1>12. \A k \in L : /\ h.job[k].being = g.job[k].being /\ h.job[k].acquired = g.job[k].acquired
                    /\ h.job[k].reading = g.job[k].reading \ {d}
  BY <1>6, <1>7, <1>8, <1>9
<1>13. /\ h.reads \in [Digest -> ReadRecord] /\ h.reads[d] = NoRead
       /\ \A x \in Digest \ {d} : h.reads[x] = g.reads[x]
  <2>1. g.reads \in [Digest -> ReadRecord] /\ NoRead \in ReadRecord /\ d \in Digest
        /\ h.reads = [g.reads EXCEPT ![d] = NoRead]
    BY <1>1, <1>3 DEF Typed, ReadRecord
  <2>2. QED
    BY <2>1
<1>14. /\ h.reader \in [Digest -> ReaderRecord] /\ h.reader[d] = NoReader
       /\ \A x \in Digest \ {d} : h.reader[x] = g.reader[x]
  <2>1. g.reader \in [Digest -> ReaderRecord] /\ NoReader \in ReaderRecord /\ d \in Digest
        /\ h.reader = [g.reader EXCEPT ![d] = NoReader]
    BY <1>1, <1>3 DEF Typed, ReaderRecord
  <2>2. QED
    BY <2>1
<1>15. \A j \in J : p.announced[j] = <<>> /\ j \notin g.ready
  <2>1. \A j \in J : ~HaveAll(g.job[j])
    BY <1>5 DEF HaveAll
  <2>2. QED
    BY <1>3, <1>5, <2>1 DEF TellsRight, L
<1>16. ReadersRight(h) /\ h.inProgress \in Nat
  <2> DEFINE A == ReadersOf(g)
             B == ReadersOf(h)
  <2>1. A \subseteq Digest /\ IsFiniteSet(Digest)
    BY GathererAssumption DEF ReadersOf
  <2>2. d \in A /\ B = A \ {d}
    BY <1>1, <1>4, <1>14 DEF ReadersOf
  <2>3. IsFiniteSet(A)
    BY <2>1, FS_Subset
  <2>4. /\ g.inProgress = Cardinality(A) /\ g.inProgress <= MaxReads
        /\ InReads(g) = A \cup ToSet(g.waiting) /\ A \cap ToSet(g.waiting) = {}
        /\ IsInjective(g.waiting) /\ g.inProgress \in Nat
        /\ InReads(g) \cap ToSet(g.known) = {}
    BY <1>3 DEF ReadersRight, Typed
  <2> HIDE DEF A, B
  <2>5. Cardinality(B) = Cardinality(A) - 1
    BY <2>2, <2>3, FS_RemoveElement
  <2>6. Cardinality(A) # 0
    BY <2>2, <2>3, FS_EmptySet
  <2>7. h.inProgress = Cardinality(B) /\ h.inProgress \in Nat /\ h.inProgress <= MaxReads
    BY <1>1, <2>4, <2>5, <2>6, GathererAssumption
  <2>8. InReads(h) = InReads(g) \ {d}
    BY <1>13 DEF InReads
  <2>9. QED
    BY <1>1, <2>2, <2>4, <2>7, <2>8 DEF ReadersRight, B
<1>17. Typed(h)
  <2>1. R \subseteq Job
    BY <1>1, <1>3, <1>4 DEF Typed
  <2>2. QED
    BY <1>1, <1>3, <1>10, <1>13, <1>14, <1>16, <2>1 DEF Typed, R
<1>18. LiveRight(h, S) /\ WaitsRight(h, S, p.uploaded, p.clients, p.unlisted)
  <2>1. SameWaits(g.cache, h.cache)
    BY <1>1 DEF SameWaits
  <2>2. /\ LiveIn(h) = LiveIn(g) /\ h.asked = g.asked
        /\ \A k \in LiveIn(g) : h.job[k].being = g.job[k].being
                              /\ h.job[k].acquired = g.job[k].acquired
    BY <1>1, <1>11, <1>12 DEF L
  <2>3. LiveRight(h, S)
    BY <1>3, <2>2, LiveStays
  <2>4. WaitsRight(h, S, p.uploaded, p.clients, p.unlisted)
    BY <1>3, <2>1, <2>2, WaitsStay
  <2>5. QED
    BY <2>3, <2>4
<1>19. ReadsRight(h)
  <2>1. ASSUME NEW k \in Job, NEW x \in Digest
        PROVE  (k \in LiveIn(h) /\ x \in h.job[k].reading) <=> (h.reads[x] # NoRead /\ k \in h.reads[x].jobs)
    <3>1. (k \in L /\ x \in g.job[k].reading) <=> (g.reads[x] # NoRead /\ k \in g.reads[x].jobs)
      BY <1>3, <2>1 DEF ReadsRight, L
    <3>2. CASE x = d
      BY <1>11, <1>12, <1>13, <3>2
    <3>3. CASE x # d
      BY <1>11, <1>12, <1>13, <3>1, <3>3
    <3>4. QED
      BY <3>2, <3>3
  <2>2. \A k \in LiveIn(h) : Apart(k) => h.job[k].reading \subseteq Manifests(k)
    BY <1>3, <1>11, <1>12 DEF ReadsRight, L
  <2>3. QED
    BY <2>1, <2>2 DEF ReadsRight
<1>20. EntriesRight(h)
  BY <1>3, <1>13, <1>14 DEF EntriesRight
<1>21. LayersRight(h, q.unread, q.unasked)
  <2>1. \A k \in L : Has(h.job[k]) = Has(g.job[k])
    BY <1>12 DEF Has, BeingAcquired
  <2>2. ASSUME NEW k \in L, NEW x \in Digest, k \notin J \/ x # d
        PROVE  Seen(h, k, x) = Seen(g, k, x)
    <3>1. CASE x # d
      <4>1. x \in h.job[k].reading <=> x \in g.job[k].reading
        BY <1>12, <3>1
      <4>2. QED
        BY <1>13, <3>1, <4>1 DEF Seen
    <3>2. CASE x = d
      <4>1. d \notin g.job[k].reading /\ d \notin h.job[k].reading
        BY <1>6, <1>12, <2>2, <3>2
      <4>2. QED
        BY <3>2, <4>1 DEF Seen
    <3>3. QED
      BY <3>1, <3>2
  <2>3. ASSUME NEW k \in J, <<k, d>> \notin q.unread
        PROVE  Seen(h, k, d) \subseteq Seen(g, k, d)
    <3>1. d \in g.job[k].reading /\ d \notin h.job[k].reading
          /\ ToSet(es) \subseteq g.reads[d].entries
      BY <1>2, <1>5, <1>12, <2>3
    <3>2. QED
      BY <3>1 DEF Seen, es
  <2>4. ASSUME NEW k \in L, Apart(k), NEW x \in Manifests(k), x \in h.job[k].acquired
        PROVE  <<k, x>> \in q.unread \/ Seen(h, k, x) \subseteq Has(h.job[k])
    <3>1. x \in g.job[k].acquired
      BY <1>12, <2>4
    <3>2. Seen(g, k, x) \subseteq Has(g.job[k])
      BY <1>3, <2>4, <3>1 DEF LayersRight, L
    <3>3. x \in Digest
      <4>1. g.job[k].acquired \in SUBSET Digest
        BY <1>3, LiveJob DEF L
      <4>2. QED
        BY <3>1, <4>1
    <3>4. QED
      BY <2>1, <2>2, <2>3, <2>4, <3>2, <3>3
  <2>5. ASSUME NEW k \in L, Apart(k)
        PROVE  /\ \A l \in ToSet(Layers[k]) : <<k, l[1]>> \in q.unasked \/ l[1] \in Has(h.job[k])
               /\ \A b \in h.job[k].being : b[2] <=> b[1] \in Manifests(k)
    BY <1>2, <1>3, <1>12, <2>1, <2>5 DEF LayersRight, L
  <2>6. QED
    BY <1>11, <2>4, <2>5 DEF LayersRight
<1>22. TellsRight(h, p.announced, p.completed, p.clients)
  <2>1. \A k \in L : HaveAll(g.job[k]) => HaveAll(h.job[k])
    BY <1>12 DEF HaveAll
  <2>2. \A j \in R : p.announced[j] = <<>> /\ j \in L /\ HaveAll(h.job[j])
    BY <1>1, <1>3, <1>5, <1>15, <2>1 DEF TellsRight, L
  <2>3. QED
    BY <1>1, <1>3, <1>11, <2>1, <2>2 DEF TellsRight, L, R
<1>23. ASSUME ~Overlap PROVE HeldRight(h, p.fetching)
  <2>1. ClaimsIn(h, p.fetching) = ClaimsIn(g, p.fetching)
    BY <1>11, <1>12, SameClaims DEF L
  <2>2. HeldRight(g, p.fetching)
    BY <1>3, <1>23
  <2>3. QED
    BY <1>1, <2>1, <2>2 DEF HeldRight
<1>24. Kept(h, q)
  BY <1>1, <1>2, <1>3, <1>16, <1>17, <1>18, <1>19, <1>20, <1>21, <1>22, <1>23 DEF Kept, S
<1>25. QED
  BY <1>11, <1>15, <1>24 DEF L, J

\* One step nearer to the limit of reads than WaitFull says.
OneLess(g) == g.waiting # <<>> => g.inProgress + 1 = MaxReads

\* h is g after the next of the waiting reads, if there is one, has got a reader.
NextStarted(g, p, h) ==
  /\ Kept(h, p) /\ WaitFull(h) /\ LiveIn(h) = LiveIn(g) /\ h.job = g.job
  /\ h.ready = g.ready /\ h.failed = g.failed

LEMMA NextReadIsRight ==
  ASSUME NEW g, NEW p, Kept(g, p), OneLess(g)
  PROVE  NextStarted(g, p, NextRead(g))
<1> DEFINE q == g.waiting
           n == g.inProgress
           x == Head(q)
           a == [g EXCEPT !.waiting = Tail(@)]
           h == NextRead(g)
           R == ReadersOf(g)
<1>1. /\ Typed(g) /\ Spare(g.cache) >= 0 /\ g.failed \subseteq p.started
      /\ LiveRight(g, p.started)
      /\ WaitsRight(g, p.started, p.uploaded, p.clients, p.unlisted)
      /\ ReadsRight(g) /\ ReadersRight(g) /\ EntriesRight(g)
      /\ LayersRight(g, p.unread, p.unasked)
      /\ TellsRight(g, p.announced, p.completed, p.clients)
      /\ (~Overlap => HeldRight(g, p.fetching))
  BY DEF Kept
<1>2. CASE q = <<>>
  <2>1. h = g
    BY <1>2 DEF NextRead
  <2> HIDE DEF h
  <2>2. NextStarted(g, p, h)
    BY <1>2, <2>1 DEF NextStarted, WaitFull
  <2>3. QED
    BY <2>2 DEF h
<1>3. CASE q # <<>>
  <2>1. /\ q \in Seq(Digest) /\ n \in Nat /\ g.reader \in [Digest -> ReaderRecord]
        /\ MaxReads \in Nat \ {0} /\ n + 1 = MaxReads
    BY <1>1, <1>3, GathererAssumption DEF Typed, OneLess
  <2>2. /\ n = Cardinality(R) /\ InReads(g) = R \cup ToSet(q) /\ R \cap ToSet(q) = {}
        /\ IsInjective(q) /\ InReads(g) \cap ToSet(g.known) = {}
    BY <1>1 DEF ReadersRight
  <2>3. /\ Tail(q) \in Seq(Digest) /\ IsInjective(Tail(q)) /\ x \in Digest
        /\ x \notin ToSet(Tail(q)) /\ ToSet(q) = ToSet(Tail(q)) \cup {x}
    BY <1>3, <2>1, <2>2, TailOnce
  <2>4. x \notin R /\ g.reads[x] # NoRead /\ g.reader[x] = NoReader
    BY <2>2, <2>3 DEF ReadersOf, InReads
  <2>5. /\ DOMAIN a = DOMAIN g /\ a.waiting = Tail(q) /\ a.inProgress = n
        /\ a.reader = g.reader /\ a.cache = g.cache /\ a.job = g.job /\ a.reads = g.reads
        /\ a.known = g.known /\ a.asked = g.asked /\ a.ready = g.ready /\ a.failed = g.failed
    BY <1>1 DEF Typed
  <2>6. h = StartReader(a, x)
    BY <1>3 DEF NextRead
  <2> HIDE DEF a, h
  <2>7. ~(a.inProgress >= MaxReads)
    BY <2>1, <2>5
  <2>8. h = [a EXCEPT !.inProgress = @ + 1, !.reader[x] = NewReader]
    BY <2>6, <2>7 DEF StartReader
  <2>9. /\ DOMAIN h = DOMAIN g /\ h.waiting = Tail(q) /\ h.inProgress = n + 1
        /\ h.reader = [g.reader EXCEPT ![x] = NewReader] /\ h.cache = g.cache /\ h.job = g.job
        /\ h.reads = g.reads /\ h.known = g.known /\ h.asked = g.asked
        /\ h.ready = g.ready /\ h.failed = g.failed
    BY <1>1, <2>5, <2>8 DEF Typed
  <2> HIDE DEF q, n, x
  <2>10. /\ h.reader \in [Digest -> ReaderRecord] /\ h.reader[x] = NewReader
         /\ \A y \in Digest \ {x} : h.reader[y] = g.reader[y]
         /\ NewReader # NoReader /\ NewReader.next = 1 /\ NoReader.next = 1
    <3>1. /\ NewReader \in ReaderRecord /\ NewReader # NoReader /\ NewReader.next = 1
          /\ NoReader.next = 1
      BY DEF NewReader, NoReader, ReaderRecord
    <3>2. QED
      BY <2>1, <2>3, <2>9, <3>1
  <2>11. ReadersRight(h)
    <3>1. ReadersOf(h) = R \cup {x}
      BY <2>3, <2>10 DEF ReadersOf
    <3>2. IsFiniteSet(R)
      BY GathererAssumption, FS_Subset DEF ReadersOf
    <3>3. InReads(h) = InReads(g)
      BY <2>9 DEF InReads
    <3> HIDE DEF R
    <3>4. Cardinality(R \cup {x}) = Cardinality(R) + 1
      BY <2>4, <3>2, FS_AddElement
    <3>5. h.inProgress = Cardinality(ReadersOf(h)) /\ h.inProgress <= MaxReads
      BY <2>1, <2>2, <2>9, <3>1, <3>4
    <3>6. /\ InReads(h) = ReadersOf(h) \cup ToSet(h.waiting)
          /\ ReadersOf(h) \cap ToSet(h.waiting) = {} /\ IsInjective(h.waiting)
          /\ InReads(h) \cap ToSet(h.known) = {}
      BY <2>2, <2>3, <2>9, <3>1, <3>3
    <3>7. QED
      BY <3>5, <3>6 DEF ReadersRight
  <2>12. EntriesRight(h)
    <3>1. ASSUME NEW y \in Digest
          PROVE  h.reader[y].next = g.reader[y].next
      BY <2>4, <2>10
    <3>2. QED
      BY <1>1, <2>9, <3>1 DEF EntriesRight
  <2>13. LiveIn(h) = LiveIn(g)
    BY <2>9 DEF LiveIn
  <2>14. Typed(h)
    <3>1. h.inProgress \in Nat
      BY <2>1, <2>9
    <3>2. QED
      BY <1>1, <2>3, <2>9, <2>10, <3>1 DEF Typed
  <2>15. LiveRight(h, p.started)
         /\ WaitsRight(h, p.started, p.uploaded, p.clients, p.unlisted)
    <3>1. SameWaits(g.cache, h.cache)
      BY <2>9 DEF SameWaits
    <3>2. /\ h.asked = g.asked
          /\ \A k \in LiveIn(g) : h.job[k].being = g.job[k].being
                                  /\ h.job[k].acquired = g.job[k].acquired
      BY <2>9
    <3>3. LiveRight(h, p.started)
      BY <1>1, <2>13, <3>2, LiveStays
    <3>4. WaitsRight(h, p.started, p.uploaded, p.clients, p.unlisted)
      BY <1>1, <2>13, <3>1, <3>2, WaitsStay
    <3>5. QED
      BY <3>3, <3>4
  <2>16. ReadsRight(h)
    BY <1>1, <2>9, <2>13 DEF ReadsRight
  <2>17. LayersRight(h, p.unread, p.unasked)
    <3>1. \A j, d : Seen(h, j, d) = Seen(g, j, d)
      BY <2>9 DEF Seen
    <3>2. QED
      BY <1>1, <2>9, <2>13, <3>1 DEF LayersRight
  <2>18. TellsRight(h, p.announced, p.completed, p.clients)
    BY <1>1, <2>9, <2>13 DEF TellsRight
  <2>19. ASSUME ~Overlap PROVE HeldRight(h, p.fetching)
    <3>1. ClaimsIn(h, p.fetching) = ClaimsIn(g, p.fetching)
      BY <2>9, <2>13 DEF ClaimsIn, HeldBy
    <3>2. HeldRight(g, p.fetching)
      BY <1>1, <2>19
    <3>3. QED
      BY <2>9, <3>1, <3>2 DEF HeldRight
  <2>20. Kept(h, p)
    <3>1. Spare(h.cache) >= 0 /\ h.failed \subseteq p.started
      BY <1>1, <2>9
    <3>2. /\ DOMAIN p = {"started", "uploaded", "clients", "fetching", "announced",
                         "completed", "unlisted", "unread", "unasked"}
          /\ p.fetching \in [Digest -> Nat] /\ p.uploaded \in [Client \X Digest -> Nat]
      BY DEF Kept
    <3>3. QED
      BY <2>11, <2>12, <2>14, <2>15, <2>16, <2>17, <2>18, <2>19, <3>1, <3>2 DEF Kept
  <2>21. WaitFull(h)
    BY <2>1, <2>9 DEF WaitFull
  <2>22. NextStarted(g, p, h)
    BY <2>9, <2>13, <2>20, <2>21 DEF NextStarted
  <2>23. QED
    BY <2>22 DEF h
<1>4. QED
  BY <1>2, <1>3

LEMMA LearnsDigests ==
  ASSUME NEW s \in Seq(Digest), NEW d \in Digest
  PROVE  Learn(s, d) \in Seq(Digest) /\ ToSet(Learn(s, d)) \subseteq ToSet(s) \cup {d}
<1> DEFINE t == Append(s, d)
           n == Len(t)
           k == IF n > MaxKnown THEN MaxKnown ELSE n
           m == n - k + 1
<1>1. t \in Seq(Digest) /\ n \in Nat /\ MaxKnown \in Nat /\ ToSet(t) \subseteq ToSet(s) \cup {d}
  BY AppendedIn, GathererAssumption
<1>2. Learn(s, d) = SubSeq(t, m, n)
  BY DEF Learn
<1> HIDE DEF t, n
<1>3. m \in 1 .. n + 1
  <2>1. k \in Nat /\ k <= n
    BY <1>1
  <2> HIDE DEF k
  <2>2. QED
    BY <1>1, <2>1
<1> HIDE DEF m
<1>4. \A i \in m .. n : i \in 1 .. n /\ t[i] \in Digest
  <2>1. \A i \in 1 .. n : t[i] \in Digest
    BY <1>1 DEF n
  <2>2. \A i \in m .. n : i \in 1 .. n
    BY <1>1, <1>3
  <2>3. QED
    BY <2>1, <2>2
<1>5. /\ SubSeq(t, m, n) \in Seq(Digest)
      /\ DOMAIN SubSeq(t, m, n) = 1 .. n - m + 1
      /\ \A i \in 1 .. n - m + 1 : SubSeq(t, m, n)[i] = t[m + i - 1] /\ m + i - 1 \in 1 .. n
  BY <1>1, <1>3, <1>4, SubSeqProperties DEF n
<1>6. DOMAIN t = 1 .. n
  BY <1>1 DEF n
<1>7. ToSet(SubSeq(t, m, n)) \subseteq ToSet(t)
  BY <1>5, <1>6 DEF ToSet
<1>8. QED
  BY <1>1, <1>2, <1>5, <1>7

\* No reader is idle but that of d, which has just ended.
LEMMA OneLessNow ==
  ASSUME Right, NEW h, h.waiting = waiting, h.inProgress = inProgress - 1
  PROVE  OneLess(h)
<1>1. /\ WaitFull(Now) /\ Typed(Now) /\ Now.waiting = waiting /\ Now.inProgress = inProgress
  BY NowIsKept
<1>2. inProgress \in Nat /\ (waiting # <<>> => inProgress = MaxReads)
  BY <1>1 DEF WaitFull, Typed
<1>3. QED
  BY <1>2 DEF OneLess

LEMMA FinishedReadingIsRight ==
  ASSUME Right, NEW d \in Digest, NEW ok \in BOOLEAN, NEW ord \in Orders,
         FinishedReadingManifest(d, ok, ord)
  PROVE  Right'
<1> DEFINE J == reads[d].jobs
           g == [Now EXCEPT !.reads[d] = NoRead, !.inProgress = @ - 1,
                            !.reader[d] = NoReader,
                            !.job = [j \in Job |->
                               IF j \in reads[d].jobs
                               THEN [job[j] EXCEPT !.reading = @ \ {d}] ELSE job[j]]]
           R == {j \in reads[d].jobs : HaveAll(g.job[j])}
           a == [g EXCEPT !.ready = R, !.known = Learn(@, d)]
           q == [Around EXCEPT !.unread = {<<j, d>> : j \in J}]
<1>1. /\ \/ reader[d].st = "failed" /\ ~ok
         \/ reader[d].st = "open" /\ (ok => reader[d].next > Len(Entries[d]))
      /\ ok => Become(NextRead(a))
      /\ ~ok => \E js \in SetToSeqs(J) : Become(NextRead(FailJobs(g, js, ord)))
      /\ clients' = clients /\ landed' = landed /\ started' = started
      /\ uploaded' = uploaded /\ completed' = completed /\ fetching' = fetching
  <2>1. reader[d].st # "none"
    BY DEF FinishedReadingManifest
  <2>2. ReadInOrder(d, ok)
    BY <2>1, ReadJobs
  <2>3. QED
    BY <2>2, Zenon DEF FinishedReadingManifest
<1>2. /\ landed \subseteq Digest /\ completed \subseteq started
      /\ (~Overlap => UploadsRight)
  BY DEF Right
<1>3. /\ Kept(Now, Around) /\ Typed(Now)
      /\ Now.job = job /\ Now.reads = reads /\ Now.reader = reader
      /\ Now.waiting = waiting /\ Now.inProgress = inProgress
      /\ Now.ready = {} /\ Now.failed = {}
      /\ Around.started = started /\ Around.uploaded = uploaded
      /\ Around.clients = clients /\ Around.fetching = fetching
      /\ Around.announced = announced /\ Around.completed = completed
      /\ Around.unlisted = {} /\ Around.unread = {} /\ Around.unasked = {}
  BY NowIsKept
<1>4. /\ ReadersRight(Now) /\ ReadsRight(Now) /\ LiveRight(Now, started)
      /\ EntriesRight(Now)
      /\ DOMAIN Around = {"started", "uploaded", "clients", "fetching", "announced", "completed",
                          "unlisted", "unread", "unasked"}
  BY <1>3 DEF Kept
<1>5. reader[d].st # "none"
  <2>1. reader[d].st = "failed" \/ reader[d].st = "open"
    BY <1>1, Zenon
  <2>2. QED
    BY <2>1
<1>6. /\ reads[d] # NoRead /\ J \in SUBSET Job /\ reader[d].next \in Nat \ {0}
  BY <1>3, <1>4, <1>5, ReaderReads
<1>7. IsFiniteSet(J)
  BY <1>3, <1>4, <1>6, ReadersFinite
<1>8. /\ DOMAIN g = DOMAIN Now /\ g.cache = Now.cache /\ g.asked = Now.asked
      /\ g.known = Now.known /\ g.waiting = Now.waiting /\ g.inProgress = Now.inProgress - 1
      /\ g.ready = Now.ready /\ g.failed = Now.failed
      /\ g.reader = [Now.reader EXCEPT ![d] = NoReader]
      /\ g.reads = [Now.reads EXCEPT ![d] = NoRead]
      /\ g.job = [j \in Job |-> IF j \in J THEN [Now.job[j] EXCEPT !.reading = @ \ {d}]
                                ELSE Now.job[j]]
  BY DEF Now
<1>9. /\ q.started = started /\ q.uploaded = uploaded /\ q.clients = clients
      /\ q.fetching = fetching /\ q.announced = announced /\ q.completed = completed
      /\ q.unlisted = {} /\ q.unread = {<<j, d>> : j \in J} /\ q.unasked = {}
      /\ DOMAIN q = DOMAIN Around
  BY <1>3, <1>4
<1> HIDE DEF g, q
<1>10. /\ DOMAIN a = DOMAIN Now /\ a.cache = g.cache /\ a.asked = g.asked /\ a.job = g.job
       /\ a.known = Learn(Now.known, d) /\ a.waiting = g.waiting /\ a.inProgress = g.inProgress
       /\ a.ready = R /\ a.failed = g.failed /\ a.reader = g.reader /\ a.reads = g.reads
  BY <1>3, <1>8 DEF Typed
<1> HIDE DEF a, R
<1>11. \A h : Kept(h, Around) /\ OneLess(h) /\ Become(NextRead(h))
              /\ LiveIn(h) \subseteq LiveIn(Now) => Right'
  <2>1. ASSUME NEW h, Kept(h, Around), OneLess(h), Become(NextRead(h)),
               LiveIn(h) \subseteq LiveIn(Now)
        PROVE  Right'
    <3> DEFINE b == NextRead(h)
    <3>1. NextStarted(h, Around, b)
      BY <2>1, NextReadIsRight
    <3>2. Become(b)
      BY <2>1
    <3> HIDE DEF b
    <3>3. EndsAmong(b, Around)
      BY <1>1, <1>2, <1>3, <2>1, <3>1, <3>2, UploadsStay DEF EndsAmong, NextStarted
    <3>4. QED
      BY <3>3, EndsAmongRight
  <2>2. QED
    BY <2>1
<1>12. CASE ok
  <2>1. ToSet(Entries[d]) \subseteq reads[d].entries
    <3> DEFINE es == Entries[d]
               n == reader[d].next
    <3>1. /\ n <= Len(es) + 1 /\ reads[d].entries = {es[i] : i \in 1 .. n - 1}
      BY <1>3, <1>4, <1>6 DEF EntriesRight
    <3>2. n > Len(es)
      BY <1>1, <1>12
    <3>3. Len(es) \in Nat /\ es \in Seq(Digest)
      BY EntriesListed
    <3>4. \A y \in ToSet(es) : \E i \in 1 .. Len(es) : es[i] = y
      BY <3>3, InSequence
    <3> HIDE DEF es, n
    <3>5. n - 1 = Len(es)
      BY <1>6, <3>1, <3>2, <3>3 DEF n
    <3>6. QED
      BY <3>1, <3>4, <3>5 DEF es
  <2>2. Finishes(Now, Around, d, a, Around)
    <3>1. /\ Learn(Now.known, d) \in Seq(Digest)
          /\ ToSet(Learn(Now.known, d)) \subseteq ToSet(Now.known) \cup {d}
      BY <1>3, LearnsDigests DEF Typed
    <3>2. \A j \in R : j \in J /\ HaveAll(a.job[j])
      BY <1>10 DEF R
    <3>3. /\ a.job = [j \in Job |-> IF j \in Now.reads[d].jobs
                                   THEN [Now.job[j] EXCEPT !.reading = @ \ {d}]
                                   ELSE Now.job[j]]
          /\ a.waiting = Now.waiting /\ a.inProgress = Now.inProgress - 1
          /\ a.cache = Now.cache /\ a.asked = Now.asked /\ a.failed = Now.failed
          /\ a.reader = [Now.reader EXCEPT ![d] = NoReader]
          /\ a.reads = [Now.reads EXCEPT ![d] = NoRead]
          /\ DOMAIN a = DOMAIN Now /\ a.known \in Seq(Digest)
          /\ ToSet(a.known) \subseteq ToSet(Now.known) \cup {d}
      BY <1>3, <1>8, <1>10, <3>1
    <3>4. /\ Now.ready \subseteq a.ready
          /\ \A j \in a.ready \ Now.ready : j \in Now.reads[d].jobs /\ HaveAll(a.job[j])
          /\ ToSet(Entries[d]) \subseteq Now.reads[d].entries
      BY <1>3, <1>10, <2>1, <3>2
    <3>5. QED
      BY <1>3, <1>5, <3>3, <3>4 DEF Finishes
  <2>3. Kept(a, Around) /\ LiveIn(a) = LiveIn(Now)
    BY <2>2, FinishesIsRight
  <2>4. OneLess(a)
    BY <1>3, <1>8, <1>10, OneLessNow
  <2>5. QED
    BY <1>1, <1>11, <1>12, <2>3, <2>4
<1>13. CASE ~ok
  <2>1. PICK js \in SetToSeqs(J) : Become(NextRead(FailJobs(g, js, ord)))
    BY <1>1, <1>13
  <2> DEFINE f == FailJobs(g, js, ord)
  <2>2. Finishes(Now, Around, d, g, q)
    <3>1. \A j \in J : <<j, d>> \in q.unread
      BY <1>9
    <3>2. Now.known \in Seq(Digest)
      BY <1>3 DEF Typed
    <3>3. QED
      BY <1>3, <1>5, <1>8, <1>9, <3>1, <3>2 DEF Finishes
  <2>3. /\ Kept(g, q) /\ LiveIn(g) = LiveIn(Now)
        /\ \A j \in J : announced[j] = <<>>
    BY <1>3, <2>2, FinishesIsRight
  <2>4. js \in Seq(Job) /\ ToSet(js) = J
    <3>1. js \in Seq(J) /\ ToSet(js) = J
      BY <1>7, AnyOrder
    <3>2. QED
      BY <1>6, <3>1
  <2>5. AllGone(g, q, js, f)
    BY <1>3, <1>8, <1>9, <2>3, <2>4, FailJobsIsRight
  <2>6. Become(NextRead(f))
    BY <2>1
  <2> HIDE DEF f
  <2>7. Kept(f, q) /\ LiveIn(f) = LiveIn(Now) \ J
        /\ f.waiting = waiting /\ f.inProgress = inProgress - 1
    BY <1>3, <1>8, <2>3, <2>4, <2>5 DEF AllGone
  <2>8. Kept(f, Around)
    <3>1. \A k \in LiveIn(f) : \A x : <<k, x>> \notin q.unread
      BY <1>9, <2>7
    <3>2. Kept(f, [q EXCEPT !.unread = {}])
      BY <2>7, <3>1, NoneUnread
    <3>3. SameAround([q EXCEPT !.unread = {}], Around)
      BY <1>3, <1>4, <1>9 DEF SameAround
    <3>4. QED
      BY <3>2, <3>3, AroundKept
  <2>9. OneLess(f)
    BY <2>7, OneLessNow
  <2>10. QED
    BY <1>11, <2>6, <2>7, <2>8, <2>9
<1>14. QED
  BY <1>12, <1>13

-----------------------------------------------------------------------------
(***************************************************************************)
(* The handlers that change nothing of jobs and reads.                     *)
(***************************************************************************)
Beside(g, p, h, q) ==
  /\ DOMAIN h = DOMAIN g /\ h.job = g.job /\ h.reads = g.reads /\ h.known = g.known
  /\ h.waiting = g.waiting /\ h.inProgress = g.inProgress /\ h.ready = g.ready
  /\ h.failed = g.failed
  /\ CacheTyped(h.cache) /\ Spare(h.cache) = Spare(g.cache) /\ SameWaits(g.cache, h.cache)
  /\ h.asked \in [Client \X Digest -> Nat] /\ h.reader \in [Digest -> ReaderRecord]
  /\ \A d \in Digest : /\ h.reader[d].next = g.reader[d].next
                       /\ h.reader[d] = NoReader <=> g.reader[d] = NoReader
  /\ p.started \subseteq q.started /\ p.clients \subseteq q.clients
  /\ \A j \in Job : Owner(j) \in q.clients \ p.clients
                      => j \notin LiveIn(g) /\ p.announced[j] # <<"ready">>
  /\ q.announced = p.announced /\ q.completed = p.completed /\ q.unlisted = p.unlisted
  /\ q.unread = p.unread /\ q.unasked = p.unasked /\ DOMAIN q = DOMAIN p
  /\ q.uploaded \in [Client \X Digest -> Nat] /\ q.fetching \in [Digest -> Nat]
  /\ \A c \in p.clients : \A d \in Digest : g.asked[<<c, d>>] + p.uploaded[<<c, d>>] > 0
                                              => h.asked[<<c, d>>] + q.uploaded[<<c, d>>] > 0
  /\ ~Overlap => HeldRight(h, q.fetching)

LEMMA BesideIsRight ==
  ASSUME NEW g, NEW p, Kept(g, p), NEW h, NEW q, Beside(g, p, h, q)
  PROVE  Kept(h, q) /\ LiveIn(h) = LiveIn(g) /\ (WaitFull(g) => WaitFull(h))
<1>1. /\ Typed(g) /\ Spare(g.cache) >= 0 /\ g.failed \subseteq p.started
      /\ LiveRight(g, p.started)
      /\ WaitsRight(g, p.started, p.uploaded, p.clients, p.unlisted)
      /\ ReadsRight(g) /\ ReadersRight(g) /\ EntriesRight(g)
      /\ LayersRight(g, p.unread, p.unasked)
      /\ TellsRight(g, p.announced, p.completed, p.clients)
      /\ DOMAIN p = {"started", "uploaded", "clients", "fetching", "announced", "completed",
                     "unlisted", "unread", "unasked"}
  BY DEF Kept
<1>2. /\ DOMAIN h = DOMAIN g /\ h.job = g.job /\ h.reads = g.reads /\ h.known = g.known
      /\ h.waiting = g.waiting /\ h.inProgress = g.inProgress /\ h.ready = g.ready
      /\ h.failed = g.failed
      /\ CacheTyped(h.cache) /\ Spare(h.cache) = Spare(g.cache) /\ SameWaits(g.cache, h.cache)
      /\ h.asked \in [Client \X Digest -> Nat] /\ h.reader \in [Digest -> ReaderRecord]
      /\ \A d \in Digest : /\ h.reader[d].next = g.reader[d].next
                           /\ h.reader[d] = NoReader <=> g.reader[d] = NoReader
  BY DEF Beside
<1>3. /\ p.started \subseteq q.started /\ p.clients \subseteq q.clients
      /\ \A j \in Job : Owner(j) \in q.clients \ p.clients
                          => j \notin LiveIn(g) /\ p.announced[j] # <<"ready">>
      /\ q.announced = p.announced /\ q.completed = p.completed /\ q.unlisted = p.unlisted
      /\ q.unread = p.unread /\ q.unasked = p.unasked /\ DOMAIN q = DOMAIN p
      /\ q.uploaded \in [Client \X Digest -> Nat] /\ q.fetching \in [Digest -> Nat]
      /\ \A c \in p.clients : \A d \in Digest : g.asked[<<c, d>>] + p.uploaded[<<c, d>>] > 0
                                                  => h.asked[<<c, d>>] + q.uploaded[<<c, d>>] > 0
      /\ (~Overlap => HeldRight(h, q.fetching))
  BY DEF Beside
<1>4. LiveIn(h) = LiveIn(g) /\ LiveIn(g) \subseteq Job
  BY <1>2 DEF LiveIn
<1>5. Typed(h)
  BY <1>1, <1>2 DEF Typed
<1>6. LiveRight(h, q.started)
  BY <1>1, <1>2, <1>3, <1>4 DEF LiveRight
<1>7. WaitsRight(h, q.started, q.uploaded, q.clients, q.unlisted)
  <2>1. ASSUME NEW j \in LiveIn(h), Owner(j) \in q.clients, NEW d \in BeingAcquired(h.job[j])
        PROVE  <<d, j>> \in q.unlisted \/ Listed(h.cache.entry[d], j)
    <3>1. Owner(j) \in p.clients
      BY <1>3, <1>4, <2>1
    <3>2. <<d, j>> \in p.unlisted \/ Listed(g.cache.entry[d], j)
      BY <1>1, <1>2, <1>4, <3>1 DEF WaitsRight
    <3>3. d \in Digest
      <4>1. g.job[j].being \in SUBSET (Digest \X BOOLEAN)
        BY <1>1, <1>4, LiveJob
      <4>2. QED
        BY <1>2, <4>1 DEF BeingAcquired
    <3>4. Listed(g.cache.entry[d], j) => h.cache.entry[d] = g.cache.entry[d]
      BY <1>2, <3>3 DEF Listed, SameWaits
    <3>5. QED
      BY <1>3, <3>2, <3>4
  <2>2. ASSUME NEW d \in Digest, h.cache.entry[d].st = "getting"
        PROVE  ListRight(h, q.started, q.uploaded, q.clients, d)
    <3> DEFINE e == h.cache.entry[d]
    <3>1. e = g.cache.entry[d]
      BY <1>2, <2>2 DEF SameWaits
    <3>2. ListRight(g, p.started, p.uploaded, p.clients, d)
      BY <1>1, <2>2, <3>1 DEF WaitsRight
    <3> HIDE DEF e
    <3>3. /\ e.getters \subseteq p.clients
          /\ \A c \in e.getters : g.asked[<<c, d>>] + p.uploaded[<<c, d>>] > 0
          /\ \A i \in DOMAIN e.jobs :
               /\ e.jobs[i] \in p.started /\ Owner(e.jobs[i]) \in e.getters
               /\ e.jobs[i] \in LiveIn(g) => d \in BeingAcquired(g.job[e.jobs[i]])
      BY <3>1, <3>2 DEF ListRight
    <3>4. \A c \in e.getters : h.asked[<<c, d>>] + q.uploaded[<<c, d>>] > 0
      BY <1>3, <3>3
    <3>5. /\ e.getters \subseteq q.clients
          /\ \A i \in DOMAIN e.jobs :
               /\ e.jobs[i] \in q.started /\ Owner(e.jobs[i]) \in e.getters
               /\ e.jobs[i] \in LiveIn(h) => d \in BeingAcquired(h.job[e.jobs[i]])
      BY <1>2, <1>3, <1>4, <3>3
    <3>6. QED
      BY <3>4, <3>5 DEF ListRight, e
  <2>3. QED
    BY <2>1, <2>2 DEF WaitsRight
<1>8. ReadsRight(h)
  BY <1>1, <1>2, <1>4 DEF ReadsRight
<1>9. ReadersRight(h)
  <2>1. ReadersOf(h) = ReadersOf(g) /\ InReads(h) = InReads(g)
    BY <1>2 DEF ReadersOf, InReads
  <2>2. QED
    BY <1>1, <1>2, <2>1 DEF ReadersRight
<1>10. EntriesRight(h)
  BY <1>1, <1>2 DEF EntriesRight
<1>11. LayersRight(h, q.unread, q.unasked)
  <2>1. \A j, d : Seen(h, j, d) = Seen(g, j, d)
    BY <1>2 DEF Seen
  <2>2. QED
    BY <1>1, <1>2, <1>3, <1>4, <2>1 DEF LayersRight
<1>12. TellsRight(h, q.announced, q.completed, q.clients)
  <2>1. \A j \in Job : q.announced[j] = <<"ready">> /\ Owner(j) \in q.clients /\ j \notin q.completed
                         => j \in LiveIn(h)
    BY <1>1, <1>3, <1>4 DEF TellsRight
  <2>2. QED
    BY <1>1, <1>2, <1>3, <1>4, <2>1 DEF TellsRight
<1>13. WaitFull(g) => WaitFull(h)
  BY <1>2 DEF WaitFull
<1>14. Kept(h, q)
  BY <1>1, <1>2, <1>3, <1>5, <1>6, <1>7, <1>8, <1>9, <1>10, <1>11, <1>12 DEF Kept
<1>15. QED
  BY <1>4, <1>13, <1>14

\* Such a handler ends in h.
EndsBeside(h, q) ==
  /\ Beside(Now, Around, h, q)
  /\ cache' = h.cache /\ job' = job /\ reads' = reads /\ known' = known
  /\ waiting' = waiting /\ inProgress' = inProgress /\ asked' = h.asked /\ reader' = h.reader
  /\ announced' = announced /\ completed' = completed
  /\ q.started = started' /\ q.uploaded = uploaded' /\ q.clients = clients'
  /\ q.fetching = fetching'
  /\ clients' \subseteq Client /\ landed' \subseteq Digest
  /\ ~Overlap => UploadsRight'

LEMMA EndsBesideRight ==
  ASSUME Right, NEW h, NEW q, EndsBeside(h, q)
  PROVE  Right'
<1>1. /\ Beside(Now, Around, h, q)
      /\ cache' = h.cache /\ job' = job /\ reads' = reads /\ known' = known
      /\ waiting' = waiting /\ inProgress' = inProgress /\ asked' = h.asked /\ reader' = h.reader
      /\ announced' = announced /\ completed' = completed
      /\ q.started = started' /\ q.uploaded = uploaded' /\ q.clients = clients'
      /\ q.fetching = fetching'
      /\ clients' \subseteq Client /\ landed' \subseteq Digest
      /\ (~Overlap => UploadsRight')
  BY DEF EndsBeside
<1>2. /\ announced \in [Job -> {<<>>, <<"ready">>, <<"failed">>}] /\ completed \subseteq started
      /\ \A j \in LiveIn(Now) : Owner(j) \in clients
  BY DEF Right
<1>3. /\ Kept(Now, Around) /\ WaitFull(Now)
      /\ Now.ready = {} /\ Now.failed = {} /\ Now.job = job /\ Now.reads = reads
      /\ Now.known = known /\ Now.waiting = waiting /\ Now.inProgress = inProgress
      /\ Around.started = started /\ Around.clients = clients
      /\ Around.announced = announced /\ Around.completed = completed
      /\ Around.unlisted = {} /\ Around.unread = {} /\ Around.unasked = {}
  BY NowIsKept
<1>4. Kept(h, q) /\ LiveIn(h) = LiveIn(Now) /\ WaitFull(h)
  BY <1>1, <1>3, BesideIsRight
<1>5. /\ h.job = job /\ h.reads = reads /\ h.known = known /\ h.waiting = waiting
      /\ h.inProgress = inProgress /\ h.ready = {} /\ h.failed = {}
      /\ q.announced = announced /\ q.completed = completed /\ q.unlisted = {}
      /\ q.unread = {} /\ q.unasked = {}
      /\ started \subseteq started' /\ clients \subseteq clients'
  BY <1>1, <1>3 DEF Beside
<1>6. Tells(h)
  <2>1. announced = [j \in Job |-> IF j \in {} THEN <<"ready">>
                                   ELSE IF j \in {} THEN <<"failed">> ELSE announced[j]]
    BY <1>2
  <2>2. QED
    BY <1>1, <1>5, <2>1 DEF Tells
<1>7. completed' \subseteq started' /\ \A j \in LiveIn(h) : Owner(j) \in clients'
  BY <1>1, <1>2, <1>4, <1>5
<1>8. Ends(h, q)
  BY <1>1, <1>4, <1>5, <1>6, <1>7 DEF Ends
<1>9. QED
  BY <1>8, EndsRight

LEMMA ConnectedIsRight ==
  ASSUME Right, clients \subseteq started,
         \A j \in Job : j \in started => Owner(j) \in started,
         NEW c \in Client, ClientConnected(c)
  PROVE  Right'
<1> DEFINE q == [Around EXCEPT !.started = started \cup {c}, !.clients = clients \cup {c}]
<1>1. /\ c \notin started /\ started' = started \cup {c} /\ clients' = clients \cup {c}
      /\ cache' = cache /\ job' = job /\ landed' = landed /\ reads' = reads /\ known' = known
      /\ waiting' = waiting /\ inProgress' = inProgress /\ asked' = asked
      /\ uploaded' = uploaded /\ reader' = reader /\ announced' = announced
      /\ completed' = completed /\ fetching' = fetching
  BY DEF ClientConnected, MayCome
<1>2. /\ clients \subseteq Client /\ landed \subseteq Digest
      /\ \A j \in Job : announced[j] # <<>> => j \in started
      /\ \A j \in LiveIn(Now) : Owner(j) \in clients
      /\ (~Overlap => UploadsRight)
  BY DEF Right
<1>3. /\ Kept(Now, Around) /\ Typed(Now) /\ Now.cache = cache /\ Now.asked = asked
      /\ Now.reader = reader
      /\ Around.started = started /\ Around.uploaded = uploaded
      /\ Around.clients = clients /\ Around.fetching = fetching
      /\ Around.announced = announced /\ Around.completed = completed
  BY NowIsKept
<1>4. /\ q.started = started \cup {c} /\ q.clients = clients \cup {c}
      /\ q.uploaded = Around.uploaded /\ q.fetching = Around.fetching
      /\ q.announced = Around.announced
      /\ q.completed = Around.completed /\ q.unlisted = Around.unlisted
      /\ q.unread = Around.unread /\ q.unasked = Around.unasked /\ DOMAIN q = DOMAIN Around
  BY DEF Around
<1> HIDE DEF q
<1>5. ASSUME NEW j \in Job, Owner(j) \in q.clients \ clients
      PROVE  j \notin LiveIn(Now) /\ announced[j] # <<"ready">>
  <2>1. Owner(j) = c /\ c \notin clients
    BY <1>1, <1>4, <1>5
  <2>2. announced[j] = <<>>
    BY <1>1, <1>2, <2>1
  <2>3. QED
    BY <1>2, <2>1, <2>2, Told
<1>6. Beside(Now, Around, Now, q)
  <2>1. /\ CacheTyped(cache) /\ asked \in [Client \X Digest -> Nat]
        /\ reader \in [Digest -> ReaderRecord] /\ fetching \in [Digest -> Nat]
        /\ uploaded \in [Client \X Digest -> Nat] /\ (~Overlap => HeldRight(Now, fetching))
    BY <1>3 DEF Kept, Typed
  <2>2. SameWaits(cache, cache)
    BY DEF SameWaits
  <2>3. QED
    BY <1>3, <1>4, <1>5, <2>1, <2>2 DEF Beside
<1>7. UploadsRight => UploadsRight'
  BY <1>1, UploadsStay
<1>8. EndsBeside(Now, q)
  BY <1>1, <1>2, <1>3, <1>4, <1>6, <1>7 DEF EndsBeside
<1>9. QED
  BY <1>8, EndsBesideRight

LEMMA GotArtifactIsRight ==
  ASSUME Right, NEW c \in Client, NEW d \in Digest, GotArtifact(c, d)
  PROVE  Right'
<1> DEFINE A == [asked EXCEPT ![<<c, d>>] = @ - 1]
           U == [uploaded EXCEPT ![<<c, d>>] = IF c \in clients THEN @ + 1 ELSE @]
           h == [Now EXCEPT !.asked = A]
           q == [Around EXCEPT !.uploaded = U]
<1>1. /\ asked[<<c, d>>] > 0 /\ (Overlap \/ \A e \in Client : uploaded[<<e, d>>] = 0)
      /\ asked' = A /\ landed' = landed \cup {d} /\ uploaded' = U
      /\ cache' = cache /\ clients' = clients /\ job' = job /\ reads' = reads /\ known' = known
      /\ waiting' = waiting /\ inProgress' = inProgress /\ started' = started
      /\ reader' = reader /\ announced' = announced
      /\ completed' = completed /\ fetching' = fetching
  BY DEF GotArtifact
<1>2. /\ clients \subseteq Client /\ landed \subseteq Digest
      /\ (~Overlap => UploadsRight)
  BY DEF Right
<1>3. /\ Kept(Now, Around) /\ Typed(Now) /\ Now.cache = cache /\ Now.asked = asked
      /\ Now.reader = reader
      /\ Around.started = started /\ Around.uploaded = uploaded
      /\ Around.clients = clients /\ Around.fetching = fetching
      /\ Around.announced = announced /\ Around.completed = completed
  BY NowIsKept
<1>4. /\ CacheTyped(cache) /\ asked \in [Client \X Digest -> Nat]
      /\ reader \in [Digest -> ReaderRecord] /\ fetching \in [Digest -> Nat]
      /\ uploaded \in [Client \X Digest -> Nat] /\ (~Overlap => HeldRight(Now, fetching))
  BY <1>3 DEF Kept, Typed
<1>5. /\ A \in [Client \X Digest -> Nat] /\ U \in [Client \X Digest -> Nat]
      /\ \A u \in Client \X Digest : u # <<c, d>> => A[u] = asked[u] /\ U[u] = uploaded[u]
      /\ U[<<c, d>>] = IF c \in clients THEN uploaded[<<c, d>>] + 1 ELSE uploaded[<<c, d>>]
  BY <1>1, <1>4
<1>6. /\ DOMAIN h = DOMAIN Now /\ h.cache = cache /\ h.asked = A /\ h.reader = reader
      /\ h.job = Now.job /\ h.reads = Now.reads /\ h.known = Now.known
      /\ h.waiting = Now.waiting /\ h.inProgress = Now.inProgress /\ h.ready = Now.ready
      /\ h.failed = Now.failed
  BY DEF Now
<1>7. /\ q.uploaded = U /\ q.started = Around.started /\ q.clients = Around.clients
      /\ q.fetching = Around.fetching /\ q.announced = Around.announced
      /\ q.completed = Around.completed /\ q.unlisted = Around.unlisted
      /\ q.unread = Around.unread /\ q.unasked = Around.unasked /\ DOMAIN q = DOMAIN Around
  BY DEF Around
<1> HIDE DEF A, U, h, q
<1>8. ASSUME NEW e \in clients, NEW x \in Digest, asked[<<e, x>>] + uploaded[<<e, x>>] > 0
      PROVE  A[<<e, x>>] + U[<<e, x>>] > 0
  <2>1. e \in Client /\ <<e, x>> \in Client \X Digest
    BY <1>2
  <2>2. CASE <<e, x>> = <<c, d>>
    <3>1. e = c /\ x = d
      BY <2>2
    <3>2. U[<<e, x>>] = uploaded[<<e, x>>] + 1
      BY <1>5, <1>8, <3>1
    <3>3. A[<<e, x>>] \in Nat /\ uploaded[<<e, x>>] \in Nat
      BY <1>4, <1>5, <2>1
    <3>4. QED
      BY <3>2, <3>3
  <2>3. CASE <<e, x>> # <<c, d>>
    BY <1>5, <1>8, <2>1, <2>3
  <2>4. QED
    BY <2>2, <2>3
<1>9. Beside(Now, Around, h, q)
  <2>1. SameWaits(cache, cache)
    BY DEF SameWaits
  <2>2. ~Overlap => HeldRight(h, fetching)
    <3>1. LiveIn(h) = LiveIn(Now) /\ ClaimsIn(h, fetching) = ClaimsIn(Now, fetching)
      BY <1>6 DEF LiveIn, ClaimsIn, HeldBy
    <3>2. QED
      BY <1>3, <1>4, <1>6, <3>1 DEF HeldRight
  <2>3. QED
    BY <1>3, <1>4, <1>5, <1>6, <1>7, <1>8, <2>1, <2>2 DEF Beside
<1>10. ~Overlap => UploadsRight'
  <2>1. ASSUME ~Overlap, NEW x \in Digest, NEW e \in Client, U[<<e, x>>] > 0
        PROVE  /\ x \in landed \cup {d} /\ U[<<e, x>>] = 1
               /\ \A b \in Client : U[<<b, x>>] > 0 => b = e
    <3>1. CASE x = d
      <4>1. \A b \in Client : uploaded[<<b, d>>] = 0
        BY <1>1, <2>1
      <4>2. \A b \in Client : b # c => U[<<b, d>>] = 0
        <5>1. \A b \in Client : b # c => <<b, d>> # <<c, d>> /\ <<b, d>> \in Client \X Digest
          OBVIOUS
        <5>2. QED
          BY <1>5, <4>1, <5>1
      <4>3. U[<<c, d>>] \in {0, 1}
        BY <1>5, <4>1
      <4>4. QED
        BY <2>1, <3>1, <4>2, <4>3
    <3>2. CASE x # d
      <4>1. \A b \in Client : U[<<b, x>>] = uploaded[<<b, x>>]
        BY <1>5, <3>2
      <4>2. QED
        BY <1>2, <2>1, <4>1 DEF UploadsRight
    <3>3. QED
      BY <3>1, <3>2
  <2>2. QED
    BY <1>1, <2>1 DEF UploadsRight
<1>11. EndsBeside(h, q)
  BY <1>1, <1>2, <1>3, <1>6, <1>7, <1>9, <1>10 DEF EndsBeside
<1>12. QED
  BY <1>11, EndsBesideRight

LEMMA ReaderOpensIsRight ==
  ASSUME Right, NEW d \in Digest, ReaderOpens(d)
  PROVE  Right'
<1> DEFINE s == IF d \in Stored(cache) \cup cache.left THEN "open" ELSE "failed"
           F == [reader EXCEPT ![d].st = s]
           h == [Now EXCEPT !.reader = F]
<1>1. /\ reader[d].st = "requested" /\ reader' = F
      /\ cache' = cache /\ clients' = clients /\ job' = job /\ landed' = landed
      /\ reads' = reads /\ known' = known
      /\ waiting' = waiting /\ inProgress' = inProgress /\ started' = started
      /\ asked' = asked /\ uploaded' = uploaded /\ announced' = announced
      /\ completed' = completed /\ fetching' = fetching
  BY DEF ReaderOpens, gathererVars
<1>2. /\ clients \subseteq Client /\ landed \subseteq Digest
      /\ (~Overlap => UploadsRight)
  BY DEF Right
<1>3. /\ Kept(Now, Around) /\ Typed(Now) /\ Now.cache = cache /\ Now.asked = asked
      /\ Now.reader = reader
      /\ Around.started = started /\ Around.uploaded = uploaded
      /\ Around.clients = clients /\ Around.fetching = fetching
      /\ Around.announced = announced /\ Around.completed = completed
  BY NowIsKept
<1>4. /\ CacheTyped(cache) /\ asked \in [Client \X Digest -> Nat]
      /\ reader \in [Digest -> ReaderRecord] /\ fetching \in [Digest -> Nat]
      /\ uploaded \in [Client \X Digest -> Nat] /\ (~Overlap => HeldRight(Now, fetching))
  BY <1>3 DEF Kept, Typed
<1>5. /\ F \in [Digest -> ReaderRecord]
      /\ \A x \in Digest : F[x].next = reader[x].next /\ (F[x] = NoReader <=> reader[x] = NoReader)
  <2> DEFINE o == reader[d]
             r == [o EXCEPT !.st = s]
  <2>1. s \in {"open", "failed"}
    OBVIOUS
  <2>2. /\ o.st = "requested" /\ DOMAIN o = {"st", "next"} /\ o.next \in Nat \ {0}
    BY <1>1, <1>4 DEF ReaderRecord, NoReader
  <2>3. F = [reader EXCEPT ![d] = r]
    OBVIOUS
  <2> HIDE DEF s
  <2>4. r \in ReaderRecord /\ r.next = o.next /\ r # NoReader /\ o # NoReader
    BY <2>1, <2>2 DEF ReaderRecord, NoReader
  <2> HIDE DEF r
  <2>5. QED
    BY <1>4, <2>3, <2>4
<1>6. /\ DOMAIN h = DOMAIN Now /\ h.cache = cache /\ h.asked = asked /\ h.reader = F
      /\ h.job = Now.job /\ h.reads = Now.reads /\ h.known = Now.known
      /\ h.waiting = Now.waiting /\ h.inProgress = Now.inProgress /\ h.ready = Now.ready
      /\ h.failed = Now.failed
  BY DEF Now
<1> HIDE DEF F, h
<1>7. Beside(Now, Around, h, Around)
  <2>1. SameWaits(cache, cache)
    BY DEF SameWaits
  <2>2. ~Overlap => HeldRight(h, fetching)
    <3>1. LiveIn(h) = LiveIn(Now) /\ ClaimsIn(h, fetching) = ClaimsIn(Now, fetching)
      BY <1>6 DEF LiveIn, ClaimsIn, HeldBy
    <3>2. QED
      BY <1>3, <1>4, <1>6, <3>1 DEF HeldRight
  <2>3. QED
    BY <1>3, <1>4, <1>5, <1>6, <2>1, <2>2 DEF Beside
<1>8. UploadsRight => UploadsRight'
  BY <1>1, UploadsStay
<1>9. EndsBeside(h, Around)
  BY <1>1, <1>2, <1>3, <1>6, <1>7, <1>8 DEF EndsBeside
<1>10. QED
  BY <1>9, EndsBesideRight

-----------------------------------------------------------------------------
(***************************************************************************)
(* The workers' fetches.                                                   *)
(***************************************************************************)
IncrementedOnce(c, d, b) ==
  /\ CacheTyped(b) /\ Spare(b) = Spare(c) /\ SameWaits(c, b)
  /\ CacheGood(c) => CacheGood(b)
  /\ \A N \in [Digest -> Nat] : Covers(c, N) => Covers(b, MoreBy(N, d, 1))

LEMMA IncrementedIsRight ==
  ASSUME NEW c, CacheTyped(c), NEW d \in Digest, c.entry[d].st = "inUse"
  PROVE  IncrementedOnce(c, d, Incremented(c, d))
<1> DEFINE e == c.entry[d]
           k == e.refs
           f == InUse(k + 1)
           b == Incremented(c, d)
<1>1. /\ e \in Entry /\ c.heap \in Seq(Digest) /\ c.bytes \in Int
      /\ c.entry \in [Digest -> Entry] /\ e.st = "inUse"
  BY DEF CacheTyped
<1> HIDE DEF e
<1>2. k \in Nat \ {0} /\ e = InUse(k)
  BY <1>1, FormsOfEntry
<1>3. [e EXCEPT !.refs = @ + 1] = f
  <2>1. [InUse(k) EXCEPT !.refs = @ + 1] = InUse(k + 1)
    BY DEF InUse
  <2> HIDE DEF k
  <2>2. QED
    BY <1>2, <2>1
<1>4. f \in Entry /\ f.st = "inUse" /\ f.refs = k + 1
  <2> HIDE DEF k
  <2>1. k + 1 \in Nat \ {0}
    BY <1>2
  <2>2. QED
    BY <2>1, EntryForms
<1>5. b = SetEntry(c, d, f, c.heap, c.bytes, c.left)
  <2>1. b = [c EXCEPT !.entry = [c.entry EXCEPT ![d] = [e EXCEPT !.refs = @ + 1]]]
    BY DEF Incremented, e
  <2>2. b = [c EXCEPT !.entry = [c.entry EXCEPT ![d] = f]]
    BY <1>3, <2>1
  <2> HIDE DEF f, b
  <2>3. QED
    BY <2>2 DEF SetEntry, CacheTyped
<1> HIDE DEF b, f
<1>6. EntrySet(c, d, f, c.heap, c.bytes, b)
  BY <1>1, <1>4, <1>5, EntryIsSet
<1>7. /\ CacheTyped(b) /\ b.heap = c.heap /\ b.bytes = c.bytes /\ b.panicked = c.panicked
      /\ b.lost = c.lost /\ b.stopped = c.stopped
      /\ b.entry[d] = f /\ \A x \in Digest \ {d} : b.entry[x] = c.entry[x]
  BY <1>6 DEF EntrySet
<1>8. Stored(b) = Stored(c)
  BY <1>1, <1>4, <1>7 DEF Stored, e
<1>9. {x \in Digest : b.entry[x] = InHeap} = {x \in Digest : c.entry[x] = InHeap}
  BY <1>1, <1>4, <1>7, EntryForms DEF e
<1>10. CacheGood(c) => CacheGood(b)
  BY <1>7, <1>9 DEF CacheGood, CacheOk, HeapRight
<1>11. SameWaits(c, b)
  BY <1>1, <1>4, <1>7 DEF SameWaits, e
<1>12. Spare(b) = Spare(c)
  BY <1>7, <1>8 DEF Spare
<1>13. ASSUME NEW N \in [Digest -> Nat], Covers(c, N)
       PROVE  Covers(b, MoreBy(N, d, 1))
  <2> DEFINE M == MoreBy(N, d, 1)
  <2>1. M[d] = N[d] + 1 /\ \A x \in Digest \ {d} : M[x] = N[x]
    BY DEF MoreBy
  <2>2. N[d] \in Nat /\ (N[d] > 0 => k >= N[d])
    BY <1>13 DEF Covers, k, e
  <2> HIDE DEF M, k
  <2>3. k + 1 >= M[d]
    BY <1>2, <2>1, <2>2
  <2>4. OnlyEntry(c, d, b, N, M)
    BY <1>4, <1>7, <1>13, <2>1, <2>3 DEF OnlyEntry
  <2>5. QED
    BY <2>4, CoversOthers DEF M
<1>14. QED
  BY <1>7, <1>10, <1>11, <1>12, <1>13 DEF IncrementedOnce, b

\* Only the cache has changed, and what the workers hold.
Fetched(b, F) ==
  /\ CacheTyped(b) /\ Spare(b) = Spare(cache) /\ SameWaits(cache, b)
  /\ F \in [Digest -> Nat]
  /\ ~Overlap => CacheGood(b) /\ Covers(b, ClaimsIn(Now, F))
  /\ cache' = b /\ fetching' = F
  /\ clients' = clients /\ job' = job /\ landed' = landed
  /\ reads' = reads /\ known' = known
  /\ waiting' = waiting /\ inProgress' = inProgress /\ started' = started
  /\ asked' = asked /\ uploaded' = uploaded /\ reader' = reader
  /\ announced' = announced /\ completed' = completed

LEMMA FetchedIsRight ==
  ASSUME Right, NEW b, NEW F, Fetched(b, F)
  PROVE  Right'
<1> DEFINE h == [Now EXCEPT !.cache = b]
           q == [Around EXCEPT !.fetching = F]
<1>1. /\ CacheTyped(b) /\ Spare(b) = Spare(cache) /\ SameWaits(cache, b)
      /\ F \in [Digest -> Nat]
      /\ (~Overlap => CacheGood(b) /\ Covers(b, ClaimsIn(Now, F)))
      /\ cache' = b /\ fetching' = F
      /\ clients' = clients /\ job' = job /\ landed' = landed
      /\ reads' = reads /\ known' = known
      /\ waiting' = waiting /\ inProgress' = inProgress /\ started' = started
      /\ asked' = asked /\ uploaded' = uploaded /\ reader' = reader
      /\ announced' = announced /\ completed' = completed
  BY DEF Fetched
<1>2. /\ clients \subseteq Client /\ landed \subseteq Digest
      /\ (~Overlap => UploadsRight)
  BY DEF Right
<1>3. /\ Kept(Now, Around) /\ Typed(Now) /\ Now.cache = cache /\ Now.asked = asked
      /\ Now.reader = reader
      /\ Around.started = started /\ Around.uploaded = uploaded
      /\ Around.clients = clients /\ Around.fetching = fetching
      /\ Around.announced = announced /\ Around.completed = completed
  BY NowIsKept
<1>4. /\ asked \in [Client \X Digest -> Nat] /\ reader \in [Digest -> ReaderRecord]
      /\ uploaded \in [Client \X Digest -> Nat] /\ (~Overlap => HeldRight(Now, fetching))
  BY <1>3 DEF Kept, Typed
<1>5. /\ DOMAIN h = DOMAIN Now /\ h.cache = b /\ h.asked = asked /\ h.reader = reader
      /\ h.job = Now.job /\ h.reads = Now.reads /\ h.known = Now.known
      /\ h.waiting = Now.waiting /\ h.inProgress = Now.inProgress /\ h.ready = Now.ready
      /\ h.failed = Now.failed
  BY DEF Now
<1>6. /\ q.fetching = F /\ q.started = Around.started /\ q.clients = Around.clients
      /\ q.uploaded = Around.uploaded /\ q.announced = Around.announced
      /\ q.completed = Around.completed /\ q.unlisted = Around.unlisted
      /\ q.unread = Around.unread /\ q.unasked = Around.unasked /\ DOMAIN q = DOMAIN Around
  BY DEF Around
<1> HIDE DEF h, q
<1>7. Beside(Now, Around, h, q)
  <2>1. ASSUME ~Overlap PROVE HeldRight(h, F)
    <3>1. LiveIn(h) = LiveIn(Now) /\ ClaimsIn(h, F) = ClaimsIn(Now, F)
      BY <1>5 DEF LiveIn, ClaimsIn, HeldBy
    <3>2. Spare(cache) = 0
      BY <1>3, <1>4, <2>1 DEF HeldRight
    <3>3. QED
      BY <1>1, <1>5, <2>1, <3>1, <3>2 DEF HeldRight
  <2>2. QED
    BY <1>1, <1>3, <1>4, <1>5, <1>6, <2>1 DEF Beside
<1>8. UploadsRight => UploadsRight'
  BY <1>1, UploadsStay
<1>9. EndsBeside(h, q)
  BY <1>1, <1>2, <1>3, <1>5, <1>6, <1>7, <1>8 DEF EndsBeside
<1>10. QED
  BY <1>9, EndsBesideRight

LEMMA FetchIsRight ==
  ASSUME Right, NEW d \in Digest, GetArtifactForWorker(d)
  PROVE  Right'
<1> DEFINE b == Incremented(cache, d)
           F == MoreBy(fetching, d, 1)
<1>1. /\ cache.entry[d].st = "inUse" /\ cache' = b /\ fetching' = F
      /\ clients' = clients /\ job' = job /\ landed' = landed
      /\ reads' = reads /\ known' = known
      /\ waiting' = waiting /\ inProgress' = inProgress /\ started' = started
      /\ asked' = asked /\ uploaded' = uploaded /\ reader' = reader
      /\ announced' = announced /\ completed' = completed
  BY Zenon DEF GetArtifactForWorker, MoreBy
<1>2. Kept(Now, Around) /\ Now.cache = cache /\ Around.started = started /\ Around.fetching = fetching
  BY NowIsKept
<1>3. /\ LiveRight(Now, started) /\ fetching \in [Digest -> Nat] /\ CacheTyped(cache)
      /\ (~Overlap => HeldRight(Now, fetching))
  BY <1>2 DEF Kept, Typed
<1>4. cache.entry[d].st = "inUse"
  BY <1>1, Zenon
<1>5. IncrementedOnce(cache, d, b)
  BY <1>3, <1>4, IncrementedIsRight
<1> HIDE DEF b
<1>6. F \in [Digest -> Nat] /\ ClaimsIn(Now, F) = MoreBy(ClaimsIn(Now, fetching), d, 1)
  BY <1>3, MoreClaims
<1>7. ClaimsIn(Now, fetching) \in [Digest -> Nat]
  BY <1>3, ClaimsTyped
<1> HIDE DEF F
<1>8. ~Overlap => CacheGood(b) /\ Covers(b, ClaimsIn(Now, F))
  BY <1>2, <1>3, <1>5, <1>6, <1>7 DEF HeldRight, IncrementedOnce
<1>9. Fetched(b, F)
  BY <1>1, <1>5, <1>6, <1>8 DEF Fetched, IncrementedOnce
<1>10. QED
  BY <1>9, FetchedIsRight

LEMMA FewerIsLess ==
  ASSUME Right, NEW d \in Digest, fetching[d] > 0
  PROVE  /\ fetching \in [Digest -> Nat] /\ Less(fetching, d) \in [Digest -> Nat]
         /\ ClaimsIn(Now, Less(fetching, d)) = Less(ClaimsIn(Now, fetching), d)
         /\ ClaimsIn(Now, fetching) \in [Digest -> Nat] /\ ClaimsIn(Now, fetching)[d] > 0
         /\ \A x \in Digest : Less(fetching, d)[x] <= fetching[x]
<1> DEFINE F == Less(fetching, d)
           N == ClaimsIn(Now, fetching)
           M == ClaimsIn(Now, F)
<1>1. Kept(Now, Around) /\ Around.started = started /\ Around.fetching = fetching
  BY NowIsKept
<1>2. LiveRight(Now, started) /\ fetching \in [Digest -> Nat]
  BY <1>1 DEF Kept
<1>3. F \in [Digest -> Nat] /\ F[d] = fetching[d] - 1 /\ \A x \in Digest \ {d} : F[x] = fetching[x]
  BY <1>2 DEF Less
<1> HIDE DEF F
<1>4. N \in [Digest -> Nat] /\ M \in [Digest -> Nat] /\ IsFiniteSet(HeldBy(Now, d))
  BY <1>2, <1>3, ClaimsTyped
<1> DEFINE a == Cardinality(HeldBy(Now, d))
<1>5. /\ N[d] = a + fetching[d] /\ M[d] = a + F[d] /\ a \in Nat
      /\ \A x \in Digest \ {d} : M[x] = N[x]
  BY <1>3, <1>4, FS_CardinalityType DEF ClaimsIn
<1> HIDE DEF M, N, a
<1>6. fetching[d] \in Nat
  BY <1>2
<1>7. M[d] = N[d] - 1 /\ N[d] > 0
  BY <1>3, <1>5, <1>6
<1>8. M = Less(N, d)
  BY <1>4, <1>5, <1>7 DEF Less
<1>9. \A x \in Digest : F[x] <= fetching[x]
  <2>1. \A x \in Digest : fetching[x] \in Nat
    BY <1>2
  <2>2. QED
    BY <1>3, <2>1
<1>10. QED
  BY <1>2, <1>3, <1>4, <1>7, <1>8, <1>9 DEF M, N, F

LEMMA FetchedOnceIsRight ==
  ASSUME Right, NEW d \in Digest, DecrementRefcount(d)
  PROVE  Right'
<1> DEFINE b == Decremented(cache, d)
           F == Less(fetching, d)
<1>1. /\ fetching[d] > 0 /\ cache' = b /\ fetching' = F
      /\ clients' = clients /\ job' = job /\ landed' = landed
      /\ reads' = reads /\ known' = known
      /\ waiting' = waiting /\ inProgress' = inProgress /\ started' = started
      /\ asked' = asked /\ uploaded' = uploaded /\ reader' = reader
      /\ announced' = announced /\ completed' = completed
  BY DEF DecrementRefcount, Less
<1>2. Kept(Now, Around) /\ Now.cache = cache /\ Around.fetching = fetching
  BY NowIsKept
<1>3. CacheTyped(cache) /\ (~Overlap => HeldRight(Now, fetching))
  BY <1>2 DEF Kept, Typed
<1>4. GivenBack(cache, d, b)
  BY <1>3, DecrementedIsRight
<1> HIDE DEF b
<1>5. /\ F \in [Digest -> Nat] /\ ClaimsIn(Now, F) = Less(ClaimsIn(Now, fetching), d)
      /\ ClaimsIn(Now, fetching) \in [Digest -> Nat] /\ ClaimsIn(Now, fetching)[d] > 0
  BY <1>1, FewerIsLess
<1> HIDE DEF F
<1>6. ~Overlap => CacheGood(b) /\ Covers(b, ClaimsIn(Now, F))
  BY <1>2, <1>3, <1>4, <1>5 DEF HeldRight, GivenBack
<1>7. Fetched(b, F)
  BY <1>1, <1>4, <1>5, <1>6 DEF Fetched, GivenBack
<1>8. QED
  BY <1>7, FetchedIsRight

LEMMA AbortedIsRight ==
  ASSUME Right, NEW d \in Digest, FetchAborted(d)
  PROVE  Right'
<1> DEFINE F == Less(fetching, d)
           q == [Around EXCEPT !.fetching = F]
<1>1. /\ fetching[d] > 0 /\ cache' = cache /\ fetching' = F
      /\ clients' = clients /\ job' = job /\ landed' = landed
      /\ reads' = reads /\ known' = known
      /\ waiting' = waiting /\ inProgress' = inProgress /\ started' = started
      /\ asked' = asked /\ uploaded' = uploaded /\ reader' = reader
      /\ announced' = announced /\ completed' = completed
  BY DEF FetchAborted, Less, gathererVars
<1>2. Kept(Now, Around) /\ Now.cache = cache /\ Around.fetching = fetching
  BY NowIsKept
<1>3. F \in [Digest -> Nat] /\ \A x \in Digest : F[x] <= fetching[x]
  BY <1>1, FewerIsLess
<1> HIDE DEF F
<1>4. Kept(Now, q) /\ q.fetching = F
  BY <1>2, <1>3, FewerFetches DEF Around
<1> HIDE DEF q
<1>5. ~Overlap => CacheGood(cache) /\ Covers(cache, ClaimsIn(Now, F))
  BY <1>2, <1>4 DEF Kept, HeldRight
<1>6. CacheTyped(cache) /\ SameWaits(cache, cache)
  BY <1>2 DEF Kept, Typed, SameWaits
<1>7. Fetched(cache, F)
  BY <1>1, <1>3, <1>5, <1>6 DEF Fetched
<1>8. QED
  BY <1>7, FetchedIsRight

-----------------------------------------------------------------------------
(***************************************************************************)
(* The invariant.                                                          *)
(***************************************************************************)
LEMMA InitIsRight ==
  ASSUME Init
  PROVE  Right
<1> DEFINE g == Now
           p == Around
<1>1. /\ cache = EmptyCache /\ clients = {} /\ job = [j \in Job |-> NoJob]
      /\ landed = {} /\ reads = [d \in Digest |-> NoRead]
      /\ known = <<>> /\ waiting = <<>> /\ inProgress = 0 /\ started = {}
      /\ asked = [u \in Client \X Digest |-> 0]
      /\ uploaded = [u \in Client \X Digest |-> 0]
      /\ reader = [d \in Digest |-> NoReader]
      /\ announced = [j \in Job |-> <<>>] /\ completed = {}
      /\ fetching = [d \in Digest |-> 0]
  BY DEF Init
<1>2. /\ g.cache = cache /\ g.job = job /\ g.reads = reads /\ g.known = known
      /\ g.waiting = waiting /\ g.inProgress = inProgress /\ g.asked = asked
      /\ g.reader = reader /\ g.ready = {} /\ g.failed = {}
      /\ DOMAIN g = {"cache", "job", "reads", "known", "waiting", "inProgress", "asked",
                     "reader", "ready", "failed"}
  BY DEF Now
<1>3. /\ p.started = started /\ p.uploaded = uploaded
      /\ p.clients = clients /\ p.fetching = fetching
      /\ p.announced = announced /\ p.completed = completed
      /\ p.unlisted = {} /\ p.unread = {} /\ p.unasked = {}
      /\ DOMAIN p = {"started", "uploaded", "clients", "fetching", "announced", "completed",
                     "unlisted", "unread", "unasked"}
  BY DEF Around
<1> HIDE DEF g, p
<1>4. /\ CacheTyped(cache) /\ cache.bytes = 0 /\ cache.lost = 0 /\ cache.heap = <<>> /\ ~cache.panicked
      /\ \A d \in Digest : cache.entry[d] = Absent
  BY <1>1, EntryForms DEF EmptyCache, CacheTyped
<1>5. Stored(cache) = {} /\ {d \in Digest : cache.entry[d] = InHeap} = {}
  BY <1>4, EntryForms DEF Stored
<1>6. Spare(cache) = 0
  BY <1>4, <1>5, SumTyped DEF Spare
<1>7. LiveIn(g) = {}
  BY <1>1, <1>2 DEF LiveIn
<1>8. Typed(g)
  <2>1. NoJob \in JobRecord /\ NoRead \in ReadRecord /\ NoReader \in ReaderRecord
    BY DEF JobRecord, ReadRecord, ReaderRecord
  <2>2. <<>> \in Seq(Digest)
    OBVIOUS
  <2>3. QED
    BY <1>1, <1>2, <1>4, <2>1, <2>2 DEF Typed
<1>9. LiveRight(g, p.started)
  BY <1>7, FS_EmptySet DEF LiveRight
<1>10. WaitsRight(g, p.started, p.uploaded, p.clients, p.unlisted)
  BY <1>2, <1>4, <1>7, EntryForms DEF WaitsRight
<1>11. ReadsRight(g)
  BY <1>1, <1>2, <1>7 DEF ReadsRight
<1>12. ReadersRight(g) /\ EntriesRight(g)
  <2>1. ReadersOf(g) = {} /\ InReads(g) = {}
    BY <1>1, <1>2 DEF ReadersOf, InReads
  <2>2. ToSet(<<>>) = {} /\ IsInjective(<<>>)
    BY DEF ToSet, IsInjective
  <2>3. Cardinality({}) = 0 /\ 0 <= MaxReads
    BY FS_EmptySet, GathererAssumption
  <2>4. QED
    BY <1>1, <1>2, <2>1, <2>2, <2>3 DEF ReadersRight, EntriesRight
<1>13. LayersRight(g, p.unread, p.unasked)
  BY <1>7 DEF LayersRight
<1>14. TellsRight(g, p.announced, p.completed, p.clients)
  BY <1>1, <1>2, <1>3, <1>7, Told DEF TellsRight
<1>15. HeldRight(g, p.fetching)
  <2>1. \A d \in Digest : ClaimsIn(g, p.fetching)[d] = 0
    <3>1. \A d \in Digest : HeldBy(g, d) = {}
      BY <1>7 DEF HeldBy
    <3>2. \A d \in Digest : p.fetching[d] = 0
      BY <1>1, <1>3
    <3>3. Cardinality({}) = 0
      BY FS_EmptySet
    <3>4. QED
      BY <3>1, <3>2, <3>3 DEF ClaimsIn
  <2>2. Covers(g.cache, ClaimsIn(g, p.fetching))
    BY <2>1 DEF Covers
  <2>3. ToSet(<<>>) = {} /\ IsInjective(<<>>)
    BY DEF ToSet, IsInjective
  <2>4. CacheGood(cache)
    BY <1>4, <1>5, <2>3 DEF CacheGood, CacheOk, HeapRight
  <2>5. QED
    BY <1>2, <1>6, <2>2, <2>4 DEF HeldRight
<1>16. Kept(g, p) /\ WaitFull(g)
  <2>1. /\ p.fetching \in [Digest -> Nat] /\ p.uploaded \in [Client \X Digest -> Nat]
        /\ Spare(g.cache) >= 0 /\ g.failed \subseteq p.started
    BY <1>1, <1>2, <1>3, <1>6
  <2>2. WaitFull(g)
    BY <1>1, <1>2 DEF WaitFull
  <2>3. QED
    BY <1>3, <1>8, <1>9, <1>10, <1>11, <1>12, <1>13, <1>14, <1>15, <2>1, <2>2 DEF Kept
<1>17. UploadsRight
  BY <1>1 DEF UploadsRight
<1>18. announced \in [Job -> {<<>>, <<"ready">>, <<"failed">>}]
       /\ \A j \in Job : announced[j] = <<>>
  BY <1>1
<1>19. QED
  BY <1>1, <1>7, <1>16, <1>17, <1>18 DEF Right, g, p

\* A client connects once, before its jobs come.
Came == clients \subseteq started /\ \A j \in Job : j \in started => Owner(j) \in started

LEMMA StillCame ==
  ASSUME Came, clients' \subseteq clients, started' = started
  PROVE  Came'
BY DEF Came

LEMMA NextIsTaken ==
  ASSUME Right, Came, BrokerNext
  PROVE  Right' /\ Came'
<1>1. CASE \E c \in Client : ClientConnected(c)
  <2>1. PICK c \in Client : ClientConnected(c)
    BY <1>1
  <2>2. Right'
    BY <2>1, ConnectedIsRight DEF Came
  <2>3. started' = started \cup {c} /\ clients' = clients \cup {c}
    BY <2>1 DEF ClientConnected
  <2>4. c \notin Job
    BY GathererAssumption
  <2>5. Came'
    BY <2>3, <2>4 DEF Came
  <2>6. QED
    BY <2>2, <2>5
<1>2. CASE \E c \in Client, ord \in Orders : ClientDisconnected(c, ord)
  <2>1. PICK c \in Client, ord \in Orders : ClientDisconnected(c, ord)
    BY <1>2
  <2>2. Right'
    BY <2>1, ClientDisconnectedIsRight
  <2>3. started' = started /\ clients' = clients \ {c}
    BY <2>1, Zenon DEF ClientDisconnected
  <2>4. QED
    BY <2>2, <2>3, StillCame
<1>3. CASE \E j \in Job : StartJob(j)
  <2>1. PICK j \in Job : StartJob(j)
    BY <1>3
  <2>2. Right'
    BY <2>1, StartJobIsRight
  <2>3. started' = started \cup {j} /\ clients' = clients /\ Owner(j) \in clients
    BY <2>1, Zenon DEF StartJob
  <2>4. Came'
    BY <2>3 DEF Came
  <2>5. QED
    BY <2>2, <2>4
<1>4. CASE \E c \in Client, d \in Digest : GotArtifact(c, d)
  <2>1. PICK c \in Client, d \in Digest : GotArtifact(c, d)
    BY <1>4
  <2>2. started' = started /\ clients' = clients
    BY <2>1 DEF GotArtifact
  <2>3. QED
    BY <2>1, <2>2, GotArtifactIsRight, StillCame
<1>5. CASE \E c \in Client, d \in Digest, fsOk \in BOOLEAN, ord \in Orders :
             ArtifactTransferred(c, d, fsOk, ord)
  <2>1. PICK c \in Client, d \in Digest, fsOk \in BOOLEAN, ord \in Orders :
               ArtifactTransferred(c, d, fsOk, ord)
    BY <1>5
  <2>2. Right'
    BY <2>1, ArtifactTransferredIsRight
  <2>3. started' = started /\ clients' = clients
    BY <2>1, Zenon DEF ArtifactTransferred
  <2>4. QED
    BY <2>2, <2>3, StillCame
<1>6. CASE \E d \in Digest : ReaderOpens(d) \/ ManifestEntry(d)
  <2>1. PICK d \in Digest : ReaderOpens(d) \/ ManifestEntry(d)
    BY <1>6
  <2>2. Right'
    BY <2>1, ReaderOpensIsRight, ManifestEntryIsRight
  <2>3. started' = started /\ clients' = clients
    <3>1. CASE ReaderOpens(d)
      BY <3>1 DEF ReaderOpens, gathererVars
    <3>2. CASE ManifestEntry(d)
      BY <3>2, Zenon DEF ManifestEntry
    <3>3. QED
      BY <2>1, <3>1, <3>2
  <2>4. QED
    BY <2>2, <2>3, StillCame
<1>7. CASE \E d \in Digest, ok \in BOOLEAN, ord \in Orders :
             FinishedReadingManifest(d, ok, ord)
  <2>1. PICK d \in Digest, ok \in BOOLEAN, ord \in Orders : FinishedReadingManifest(d, ok, ord)
    BY <1>7
  <2>2. Right'
    BY <2>1, FinishedReadingIsRight
  <2>3. started' = started /\ clients' = clients
    BY <2>1, Zenon DEF FinishedReadingManifest
  <2>4. QED
    BY <2>2, <2>3, StillCame
<1>8. CASE \E j \in Job, ord \in Orders : JobCompleted(j, ord)
  <2>1. PICK j \in Job, ord \in Orders : JobCompleted(j, ord)
    BY <1>8
  <2>2. Right'
    BY <2>1, JobCompletedIsRight
  <2>3. started' = started /\ clients' = clients
    BY <2>1 DEF JobCompleted
  <2>4. QED
    BY <2>2, <2>3, StillCame
<1>9. CASE \E d \in Digest : GetArtifactForWorker(d) \/ DecrementRefcount(d) \/ FetchAborted(d)
  <2>1. PICK d \in Digest : GetArtifactForWorker(d) \/ DecrementRefcount(d) \/ FetchAborted(d)
    BY <1>9
  <2>2. Right'
    BY <2>1, FetchIsRight, FetchedOnceIsRight, AbortedIsRight
  <2>3. started' = started /\ clients' = clients
    <3>1. CASE GetArtifactForWorker(d)
      BY <3>1, Zenon DEF GetArtifactForWorker
    <3>2. CASE DecrementRefcount(d)
      BY <3>2 DEF DecrementRefcount
    <3>3. CASE FetchAborted(d)
      BY <3>3 DEF FetchAborted, gathererVars
    <3>4. QED
      BY <2>1, <3>1, <3>2, <3>3
  <2>4. QED
    BY <2>2, <2>3, StillCame
<1>10. QED
  BY <1>1, <1>2, <1>3, <1>4, <1>5, <1>6, <1>7, <1>8, <1>9, Zenon DEF BrokerNext

LEMMA StutterIsRight ==
  ASSUME Right, Came, UNCHANGED brokerVars
  PROVE  Right' /\ Came'
<1>1. /\ cache' = cache /\ clients' = clients /\ job' = job /\ landed' = landed
      /\ reads' = reads /\ known' = known
      /\ waiting' = waiting /\ inProgress' = inProgress /\ started' = started
      /\ asked' = asked /\ uploaded' = uploaded /\ reader' = reader
      /\ announced' = announced /\ completed' = completed /\ fetching' = fetching
  BY DEF brokerVars, gathererVars, envVars
<1>2. Kept(Now, Around) /\ Now.cache = cache /\ Around.fetching = fetching
  BY NowIsKept
<1>3. Fetched(cache, fetching)
  BY <1>1, <1>2 DEF Fetched, SameWaits, Kept, Typed, HeldRight
<1>4. Right'
  BY <1>3, FetchedIsRight
<1>5. QED
  BY <1>1, <1>4, StillCame

\* What the file system would remove is no part of the broker's state.
LEMMA BrokerSteps == [Next]_vars => [BrokerNext]_brokerVars
BY DEF Next, FileSystem, vars

\* The inductive invariant: the cache, the jobs, the manifest reads and what
\* the scheduler was told agree, in every state.
THEOREM GathererIsRight == Spec => [](Right /\ Came)
<1>1. Init => Right /\ Came
  <2>1. Init => Came
    BY DEF Init, Came
  <2>2. QED
    BY <2>1, InitIsRight
<1>2. Right /\ Came /\ [Next]_vars => (Right /\ Came)'
  BY NextIsTaken, StutterIsRight, BrokerSteps
<1>3. QED
  BY <1>1, <1>2, PTL DEF Spec

-----------------------------------------------------------------------------
(***************************************************************************)
(* What the runs check.                                                    *)
(***************************************************************************)
\* Whatever the gatherer does, its state keeps its type: no count goes below
\* zero, no more reads are in progress than may be, and nothing is said of a
\* job but that it is ready or has failed.
LEMMA RightIsTyped ==
  ASSUME Right
  PROVE  TypeOK
<1>1. /\ clients \subseteq Client /\ landed \subseteq Digest
      /\ announced \in [Job -> {<<>>, <<"ready">>, <<"failed">>}]
  BY DEF Right
<1>2. /\ Kept(Now, Around) /\ Now.cache = cache /\ Now.job = job /\ Now.reads = reads
      /\ Now.known = known /\ Now.waiting = waiting /\ Now.inProgress = inProgress
      /\ Now.asked = asked /\ Around.uploaded = uploaded
  BY NowIsKept
<1>3. /\ CacheTyped(cache) /\ Spare(cache) >= 0 /\ job \in [Job -> JobRecord]
      /\ reads \in [Digest -> ReadRecord] /\ known \in Seq(Digest) /\ waiting \in Seq(Digest)
      /\ inProgress \in Nat /\ asked \in [Client \X Digest -> Nat]
      /\ uploaded \in [Client \X Digest -> Nat] /\ inProgress <= MaxReads
  BY <1>2 DEF Kept, Typed, ReadersRight
<1>4. cache.bytes \in Nat
  <2> DEFINE s == SumOf(Stored(cache))
  <2>1. s \in Nat
    BY SumTyped
  <2>2. /\ cache.bytes \in Int /\ cache.lost \in Nat
        /\ (cache.bytes - cache.lost) - s >= 0
    BY <1>3 DEF CacheTyped, Spare
  <2> HIDE DEF s
  <2>3. QED
    BY <2>1, <2>2
<1>5. announced \in [Job -> Seq({"ready", "failed"})]
  <2>1. {<<>>, <<"ready">>, <<"failed">>} \subseteq Seq({"ready", "failed"})
    OBVIOUS
  <2>2. QED
    BY <1>1, <2>1
<1>6. inProgress \in 0 .. MaxReads
  BY <1>3, GathererAssumption
<1>7. QED
  BY <1>1, <1>3, <1>4, <1>5, <1>6 DEF TypeOK, CacheTyped, JobRecord, ReadRecord

\* TypeOK holds in every state.
THEOREM GathererTyped == Spec => []TypeOK
<1>1. Right /\ Came => TypeOK
  BY RightIsTyped
<1>2. QED
  BY <1>1, GathererIsRight, PTL

LEMMA RightIsAwaited ==
  ASSUME Right
  PROVE  WaitedFor
<1>1. \A j \in LiveIn(Now) : Owner(j) \in clients
  BY DEF Right
<1>2. /\ Kept(Now, Around) /\ Now.cache = cache /\ Now.job = job /\ Now.asked = asked
      /\ Around.uploaded = uploaded /\ Around.clients = clients /\ Around.started = started
      /\ Around.unlisted = {}
  BY NowIsKept
<1>3. /\ WaitsRight(Now, started, uploaded, clients, {}) /\ Typed(Now)
  BY <1>2 DEF Kept
<1>4. ASSUME NEW j \in Live, NEW d \in BeingAcquired(job[j])
      PROVE  /\ cache.entry[d].st = "getting"
             /\ Cardinality({i \in DOMAIN cache.entry[d].jobs : cache.entry[d].jobs[i] = j}) = 1
             /\ Owner(j) \in cache.entry[d].getters
             /\ asked[<<Owner(j), d>>] + uploaded[<<Owner(j), d>>] > 0
  <2> DEFINE e == cache.entry[d]
             I == {i \in DOMAIN e.jobs : e.jobs[i] = j}
  <2>1. j \in LiveIn(Now)
    BY <1>2, <1>4 DEF Live, LiveIn
  <2>2. Listed(e, j)
    BY <1>1, <1>2, <1>3, <1>4, <2>1 DEF WaitsRight
  <2>3. d \in Digest
    <3>1. job[j].being \in SUBSET (Digest \X BOOLEAN)
      BY <1>2, <1>3, <2>1, LiveJob
    <3>2. QED
      BY <3>1 DEF BeingAcquired
  <2>4. e.st = "getting"
    BY <2>2 DEF Listed
  <2>5. PICK i \in DOMAIN e.jobs : e.jobs[i] = j /\ \A k \in DOMAIN e.jobs : e.jobs[k] = j => k = i
    BY <2>2 DEF Listed
  <2>6. ListRight(Now, started, uploaded, clients, d)
    BY <1>2, <1>3, <2>3, <2>4 DEF WaitsRight
  <2>7. Owner(j) \in e.getters /\ asked[<<Owner(j), d>>] + uploaded[<<Owner(j), d>>] > 0
    BY <1>2, <2>5, <2>6 DEF ListRight
  <2>8. I = {i}
    BY <2>5
  <2> HIDE DEF I
  <2>9. Cardinality(I) = 1
    BY <2>8, FS_Singleton
  <2>10. QED
    BY <2>4, <2>7, <2>9 DEF I
<1>5. QED
  BY <1>4 DEF WaitedFor

\* Whoever comes, leaves, uploads or fails, every artifact that a job waits for
\* is on its way: it will be given to the job, once, and the job's own client
\* has still to upload it or to say that it has.
THEOREM WaitedForAlways == Spec => []WaitedFor
<1>1. Right /\ Came => WaitedFor
  BY RightIsAwaited
<1>2. QED
  BY <1>1, GathererIsRight, PTL

LEMMA RightReadsMatch ==
  ASSUME Right
  PROVE  ReadsMatch
<1> DEFINE A == {d \in Digest : reader[d] # NoReader}
<1>1. /\ Kept(Now, Around) /\ Now.job = job /\ Now.reads = reads /\ Now.waiting = waiting
      /\ Now.inProgress = inProgress /\ Now.reader = reader /\ WaitFull(Now)
  BY NowIsKept
<1>2. ReadsRight(Now) /\ ReadersRight(Now) /\ Typed(Now)
  BY <1>1 DEF Kept
<1>3. LiveIn(Now) = Live
  BY <1>1 DEF LiveIn, Live
<1>4. \A j \in Job, d \in Digest : (j \in Live /\ d \in job[j].reading)
                                     <=> (reads[d] # NoRead /\ j \in reads[d].jobs)
  BY <1>1, <1>2, <1>3 DEF ReadsRight
<1>5. ASSUME NEW d \in Digest, reads[d] # NoRead
      PROVE  reads[d].jobs = {j \in Live : d \in job[j].reading}
  <2>1. reads[d].jobs \in SUBSET Job
    <3>1. reads[d] \in ReadRecord
      BY <1>1, <1>2 DEF Typed
    <3>2. QED
      BY <1>5, <3>1 DEF ReadRecord
  <2>2. Live \subseteq Job
    BY DEF Live
  <2>3. QED
    BY <1>4, <1>5, <2>1, <2>2
<1>6. \A j \in Live, d \in Digest : d \in job[j].reading => reads[d] # NoRead
  BY <1>4 DEF Live
<1>7. /\ inProgress = Cardinality(A)
      /\ {d \in Digest : reads[d] # NoRead} = A \cup ToSet(waiting)
      /\ A \cap ToSet(waiting) = {}
  BY <1>1, <1>2 DEF ReadersRight, ReadersOf, InReads
<1>8. waiting # <<>> => inProgress = MaxReads
  BY <1>1 DEF WaitFull
<1>9. QED
  BY <1>5, <1>6, <1>7, <1>8, Zenon DEF ReadsMatch

\* Jobs and reads agree, the count of reads in progress is exact and within its
\* limit, and no read is forgotten in the queue, for any limit.
THEOREM ReadsAlwaysMatch == Spec => []ReadsMatch
<1>1. Right /\ Came => ReadsMatch
  BY RightReadsMatch
<1>2. QED
  BY <1>1, GathererIsRight, PTL

\* Nothing is left of a client that has gone: no job of it, and neither it nor a
\* job of it in what the cache is getting.
THEOREM GoneIsAlwaysForgotten == Spec => []GoneIsForgotten
<1>1. Right /\ Came => GoneIsForgotten
  BY RightForgets
<1>2. QED
  BY <1>1, GathererIsRight, PTL

LEMMA RightHolds ==
  ASSUME Right, ~Overlap
  PROVE  HeldStaysCached /\ NoPanic /\ CacheSound
<1>1. Kept(Now, Around) /\ Now.cache = cache /\ Now.job = job /\ Around.fetching = fetching
  BY NowIsKept
<1>2. CacheTyped(cache) /\ HeldRight(Now, fetching)
  BY <1>1 DEF Kept, Typed
<1>3. CacheGood(cache) /\ Spare(cache) = 0 /\ Covers(cache, ClaimsIn(Now, fetching))
  BY <1>1, <1>2 DEF HeldRight
<1>4. /\ IsInjective(cache.heap) /\ ~cache.panicked
      /\ ToSet(cache.heap) = {d \in Digest : cache.entry[d] = InHeap}
      /\ (cache.bytes > Target => cache.heap = <<>> \/ cache.stopped)
  BY <1>3 DEF CacheGood, CacheOk, HeapRight
<1>5. HeldStaysCached
  <2>1. ASSUME NEW d \in Digest
        PROVE  ClaimsIn(Now, fetching)[d] = Claims(d)
    <3> DEFINE D == {j \in Live : d \in job[j].acquired}
    <3>1. HeldBy(Now, d) = D
      BY <1>1 DEF HeldBy, LiveIn, Live
    <3>2. Claims(d) = Cardinality(D) + fetching[d]
      BY DEF Claims
    <3>3. ClaimsIn(Now, fetching)[d] = Cardinality(HeldBy(Now, d)) + fetching[d]
      BY DEF ClaimsIn
    <3> HIDE DEF D
    <3>4. QED
      BY <3>1, <3>2, <3>3
  <2>2. \A d \in Digest : Claims(d) > 0 =>
          cache.entry[d].st = "inUse" /\ cache.entry[d].refs >= Claims(d)
    BY <1>3, <2>1 DEF Covers
  <2>3. QED
    BY <2>2 DEF HeldStaysCached, Refs
<1>6. CacheSound
  <2>1. cache.bytes = cache.lost + SumOf(Stored(cache))
    <3> DEFINE s == SumOf(Stored(cache))
    <3>1. /\ s \in Nat /\ cache.bytes \in Int /\ cache.lost \in Nat
          /\ (cache.bytes - cache.lost) - s = 0
      BY <1>2, <1>3, SumTyped DEF CacheTyped, Spare
    <3> HIDE DEF s
    <3>2. cache.bytes = cache.lost + s
      BY <3>1
    <3>3. QED
      BY <3>2 DEF s
  <2>2. cache.bytes = cache.lost
          + FoldLeft(LAMBDA n, d : n + Size[d], 0, SetToSeq(Stored(cache)))
    <3>1. Stored(cache) \in SUBSET Digest
      BY DEF Stored
    <3>2. QED
      BY <2>1, <3>1, AddsUp, Zenon
  <2>3. \A i, k \in DOMAIN cache.heap : cache.heap[i] = cache.heap[k] => i = k
    BY <1>4 DEF IsInjective
  <2>4. QED
    BY <1>4, <2>2, <2>3, Zenon DEF CacheSound
<1>7. QED
  BY <1>4, <1>5, <1>6 DEF NoPanic

\* As long as no two uploads of an artifact are under way at a time, what a job
\* or a worker holds stays in the cache, with at least as many references.
THEOREM HeldIsNeverEvicted ==
  ASSUME ~Overlap
  PROVE  Spec => []HeldStaysCached
<1>1. Right /\ Came => HeldStaysCached
  BY RightHolds
<1>2. QED
  BY <1>1, GathererIsRight, PTL

\* Under the same condition none of the gatherer's and the cache's expects,
\* unwraps and asserts fails.
THEOREM GathererNeverPanics ==
  ASSUME ~Overlap
  PROVE  Spec => []NoPanic
<1>1. Right /\ Came => NoPanic
  BY RightHolds
<1>2. QED
  BY <1>1, GathererIsRight, PTL

\* Under the same condition the cache's accounts agree, whichever artifacts cannot
\* be removed and when: the heap is what has no reference, the bytes are those of
\* what is stored and of what could not be removed, and nothing without a reference
\* is kept beyond the target unless the last eviction failed.
THEOREM CacheStaysSound ==
  ASSUME ~Overlap
  PROVE  Spec => []CacheSound
<1>1. Right /\ Came => CacheSound
  BY RightHolds
<1>2. QED
  BY <1>1, GathererIsRight, PTL

LEMMA ReadyNeedsNothing ==
  ASSUME Right, NEW j \in Live, Apart(j), announced[j] = <<"ready">>
  PROVE  Needed(j) \subseteq job[j].acquired
<1> DEFINE r == job[j]
<1>1. /\ Kept(Now, Around) /\ Now.job = job /\ Around.announced = announced
      /\ Around.unread = {} /\ Around.unasked = {} /\ Around.clients = clients
      /\ Around.completed = completed
  BY NowIsKept
<1>2. /\ LayersRight(Now, {}, {}) /\ TellsRight(Now, announced, completed, clients)
  BY <1>1 DEF Kept
<1>3. j \in LiveIn(Now)
  BY <1>1 DEF Live, LiveIn
<1>4. HaveAll(r)
  BY <1>1, <1>2, <1>3 DEF TellsRight
<1>5. r.reading = {} /\ Has(r) = r.acquired
  BY <1>4 DEF HaveAll, Has, BeingAcquired
<1>6. \A l \in ToSet(Layers[j]) : l[1] \in r.acquired
  BY <1>1, <1>2, <1>3, <1>5 DEF LayersRight
<1>7. ASSUME NEW l \in ToSet(Layers[j]), l[2]
      PROVE  ToSet(Entries[l[1]]) \subseteq r.acquired
  <2>1. l[1] \in Manifests(j) /\ l[1] \in r.acquired
    BY <1>6, <1>7 DEF Manifests
  <2>2. Seen(Now, j, l[1]) \subseteq Has(r)
    BY <1>1, <1>2, <1>3, <2>1 DEF LayersRight
  <2>3. Seen(Now, j, l[1]) = ToSet(Entries[l[1]])
    BY <1>1, <1>5 DEF Seen
  <2>4. QED
    BY <1>5, <2>2, <2>3
<1>8. QED
  BY <1>6, <1>7 DEF Needed

\* A job that became ready has all its layers and all that their manifests
\* list, whoever read these and whenever the job joined, if the manifests of
\* each job are not files of it as well.
THEOREM ReadyJobsHaveEverything ==
  ASSUME \A j \in Job : Apart(j)
  PROVE  Spec => []ReadyHasEverything
<1>1. Right /\ Came => ReadyHasEverything
  BY ReadyNeedsNothing DEF ReadyHasEverything, Live
<1>2. QED
  BY <1>1, GathererIsRight, PTL

-----------------------------------------------------------------------------
(***************************************************************************)
(* The gatherer implements GathererContract.                               *)
(***************************************************************************)
\* A handler in state g tells the scheduler of no other jobs than R that they
\* are ready, and than F that they have failed.
TellsOnly(g, R, F) ==
  /\ "reads" \in DOMAIN g /\ "ready" \in DOMAIN g /\ "failed" \in DOMAIN g
  /\ g.reads \in [Digest -> ReadRecord] /\ g.ready \subseteq R /\ g.failed \subseteq F

TellsInv(r, n, h) == TellsOnly(h, r[1], r[2])
TakingsTell == INSTANCE FoldTheorems WITH Op <- EntryStep, Inv <- TellsInv
AcquiresTell == INSTANCE FoldTheorems WITH Op <- AcquireStep, Inv <- TellsInv
FailsTell == INSTANCE FoldTheorems WITH Op <- FailStep, Inv <- TellsInv
DropsTell == INSTANCE FoldTheorems WITH Op <- DropStep, Inv <- TellsInv
AdvancesTell == INSTANCE FoldTheorems WITH Op <- AdvanceStep, Inv <- TellsInv
SharesTell == INSTANCE FoldTheorems WITH Op <- ShareStep, Inv <- TellsInv

LEMMA AcquiringTells ==
  ASSUME NEW g, NEW j, NEW d, NEW m, NEW R, NEW F, TellsOnly(g, R, F)
  PROVE  TellsOnly(StartAcquiring(g, j, d, m), R, F)
<1> DEFINE got == GetArtifact(g.cache, d, j)
           h == [g EXCEPT !.cache = got.cache]
           a == [h EXCEPT !.job[j].acquired = @ \cup {d}]
           w == [h EXCEPT !.job[j].being = @ \cup {<<d, m>>}]
           v == [w EXCEPT !.asked[<<Owner(j), d>>] = @ + 1]
<1>1. StartAcquiring(g, j, d, m) \in {g, a, w, v}
  BY DEF StartAcquiring
<1>2. TellsOnly(h, R, F)
  BY DEF TellsOnly
<1> HIDE DEF h
<1>3. TellsOnly(a, R, F) /\ TellsOnly(w, R, F)
  BY <1>2 DEF TellsOnly
<1> HIDE DEF w, a
<1>4. TellsOnly(v, R, F)
  BY <1>3 DEF TellsOnly
<1>5. QED
  BY <1>1, <1>3, <1>4

LEMMA EntriesTell ==
  ASSUME NEW g, NEW j, NEW D \in SUBSET Digest, NEW R, NEW F, TellsOnly(g, R, F)
  PROVE  TellsOnly(AcquireEntries(g, j, D), R, F)
<1> DEFINE q == SetToSeq(D)
           r == <<R, F>>
<1>1. q \in Seq(D)
  BY GathererAssumption, FS_Subset, SetInOrder
<1>2. r[1] = R /\ r[2] = F
  OBVIOUS
<1> HIDE DEF q, r
<1>3. TellsInv(r, 0, g)
  BY <1>2 DEF TellsInv
<1>4. \A a : \A n \in 1 .. Len(q) :
        q[n] \in D /\ TellsInv(r, n - 1, a) => TellsInv(r, n, EntryStep(j, 0, a, q[n]))
  BY AcquiringTells DEF TellsInv, EntryStep
<1>5. TellsInv(r, Len(q), TakingsTell!Fold(j, 0, g, q))
  BY <1>1, <1>3, <1>4, LeastOf, TakingsTell!FoldKeeps
<1>6. AcquireEntries(g, j, D) = TakingsTell!Fold(j, 0, g, SetToSeq(D))
  BY DEF AcquireEntries, TakingsTell!Fold, EntryStep, FoldLeft, MapThenFoldSet, Max,
         TakingsTell!Greatest
<1>7. QED
  BY <1>2, <1>5, <1>6 DEF TellsInv, q

LEMMA ReaderTells ==
  ASSUME NEW g, NEW d, NEW R, NEW F, TellsOnly(g, R, F)
  PROVE  TellsOnly(StartReader(g, d), R, F) /\ TellsOnly(StartOrEnqueueRead(g, d), R, F)
BY DEF TellsOnly, StartReader, StartOrEnqueueRead, Panic

LEMMA ReadTells ==
  ASSUME NEW g, NEW j \in Job, NEW d \in Digest, NEW R, NEW F, TellsOnly(g, R, F)
  PROVE  TellsOnly(ReadManifest(g, j, d), R, F)
<1> DEFINE h == [g EXCEPT !.job[j].reading = @ \cup {d}]
           a == [g EXCEPT !.known = ToLast(@, d)]
           b == [h EXCEPT !.reads[d] = NewRead(j)]
           c == [h EXCEPT !.reads[d].jobs = @ \cup {j}]
<1>1. \/ ReadManifest(g, j, d) = AcquireEntries(a, j, ToSet(Entries[d]))
      \/ ReadManifest(g, j, d) = StartOrEnqueueRead(b, d)
      \/ /\ g.reads[d] # NoRead
         /\ ReadManifest(g, j, d) = AcquireEntries(c, j, g.reads[d].entries)
  BY Zenon DEF ReadManifest
<1>2. TellsOnly(a, R, F) /\ TellsOnly(h, R, F) /\ h.reads = g.reads
  BY DEF TellsOnly
<1>3. ToSet(Entries[d]) \in SUBSET Digest
  BY GathererAssumption, InSequence
<1> HIDE DEF a, h
<1>4. NewRead(j) \in ReadRecord
  BY DEF NewRead, ReadRecord
<1>5. TellsOnly(b, R, F)
  BY <1>2, <1>4 DEF TellsOnly
<1>6. ASSUME g.reads[d] # NoRead
      PROVE  TellsOnly(c, R, F) /\ g.reads[d].entries \in SUBSET Digest
  <2>1. g.reads[d] \in [st : {"read"}, jobs : SUBSET Job, entries : SUBSET Digest]
    BY <1>6 DEF TellsOnly, ReadRecord
  <2>2. [h.reads[d] EXCEPT !.jobs = @ \cup {j}] \in ReadRecord
    BY <1>2, <2>1 DEF ReadRecord
  <2>3. c = [h EXCEPT !.reads[d] = [h.reads[d] EXCEPT !.jobs = @ \cup {j}]]
    BY <1>2 DEF TellsOnly
  <2>4. QED
    BY <1>2, <2>1, <2>2, <2>3 DEF TellsOnly
<1> HIDE DEF b, c
<1>7. TellsOnly(AcquireEntries(a, j, ToSet(Entries[d])), R, F)
  BY <1>2, <1>3, EntriesTell
<1>8. TellsOnly(StartOrEnqueueRead(b, d), R, F)
  BY <1>5, ReaderTells
<1>9. g.reads[d] # NoRead => TellsOnly(AcquireEntries(c, j, g.reads[d].entries), R, F)
  BY <1>6, EntriesTell
<1>10. QED
  BY <1>1, <1>7, <1>8, <1>9

LEMMA LayerTells ==
  ASSUME NEW g, NEW j \in Job, NEW d \in Digest, NEW m, NEW R, NEW F, TellsOnly(g, R, F)
  PROVE  TellsOnly(Acquire(g, j, d, m), R, F)
BY AcquiringTells, ReadTells DEF Acquire

LEMMA DroppedTells ==
  ASSUME NEW g, NEW j, NEW ord, NEW R, NEW F, TellsOnly(g, R, F)
  PROVE  TellsOnly(DropJob(g, j, ord), R, F)
<1> DEFINE r == g.job[j]
           Left(d) == IF d \in r.reading
                      THEN [g.reads[d] EXCEPT !.jobs = @ \ {j}] ELSE g.reads[d]
           c == Release(g.cache, r.acquired, ord)
           l == [d \in Digest |-> Left(d)]
<1>1. DropJob(g, j, ord) = [g EXCEPT !.cache = c, !.reads = l, !.job[j] = NoJob]
  BY Zenon DEF DropJob
<1>2. ASSUME NEW d \in Digest PROVE Left(d) \in ReadRecord
  <2>1. g.reads[d] \in ReadRecord
    BY DEF TellsOnly
  <2>2. CASE g.reads[d] = NoRead
    <3>1. [g.reads[d] EXCEPT !.jobs = @ \ {j}] = NoRead
      BY <2>2 DEF NoRead
    <3>2. QED
      BY <2>1, <2>2, <3>1
  <2>3. CASE g.reads[d] # NoRead
    <3>1. g.reads[d] \in [st : {"read"}, jobs : SUBSET Job, entries : SUBSET Digest]
      BY <2>1, <2>3 DEF ReadRecord
    <3>2. [g.reads[d] EXCEPT !.jobs = @ \ {j}]
            \in [st : {"read"}, jobs : SUBSET Job, entries : SUBSET Digest]
      BY <3>1
    <3>3. QED
      BY <2>1, <3>2 DEF ReadRecord
  <2>4. QED
    BY <2>2, <2>3
<1>3. l \in [Digest -> ReadRecord]
  BY <1>2
<1> HIDE DEF c, l
<1>4. QED
  BY <1>1, <1>3 DEF TellsOnly

LEMMA LayersTell ==
  ASSUME NEW g, NEW j \in Job, NEW R, NEW F, TellsOnly(g, R, F)
  PROVE  TellsOnly(FoldLeft(LAMBDA h, l : Acquire(h, j, l[1], l[2]), g, Layers[j]), R, F)
<1> DEFINE q == Layers[j]
           r == <<R, F>>
           e == AcquiresTell!Fold(j, 0, g, q)
<1>1. q \in Seq(Digest \X BOOLEAN)
  BY GathererAssumption
<1>2. r[1] = R /\ r[2] = F
  OBVIOUS
<1>3. FoldLeft(LAMBDA h, l : Acquire(h, j, l[1], l[2]), g, Layers[j]) = e
  BY DEF AcquiresTell!Fold, AcquireStep, FoldLeft, MapThenFoldSet, Max,
         AcquiresTell!Greatest
<1> HIDE DEF q, r
<1>4. TellsInv(r, 0, g)
  BY <1>2 DEF TellsInv
<1>5. ASSUME NEW l \in Digest \X BOOLEAN PROVE l[1] \in Digest
  OBVIOUS
<1>6. \A a : \A n \in 1 .. Len(q) :
        q[n] \in Digest \X BOOLEAN /\ TellsInv(r, n - 1, a)
        => TellsInv(r, n, AcquireStep(j, 0, a, q[n]))
  BY <1>5, LayerTells DEF TellsInv, AcquireStep
<1>7. TellsInv(r, Len(q), e)
  BY <1>1, <1>4, <1>6, LeastOf, AcquiresTell!FoldKeeps
<1> HIDE DEF e
<1>8. QED
  BY <1>2, <1>3, <1>7, Zenon DEF TellsInv

LEMMA AdvanceTells ==
  ASSUME NEW h, NEW d \in Digest, NEW j \in Job, NEW R, NEW F, TellsOnly(h, R, F), j \in R
  PROVE  TellsOnly(AdvanceStep(d, 0, h, j), R, F)
<1> DEFINE b == CHOOSE x \in h.job[j].being : x[1] = d
           has == [h EXCEPT !.job[j].being = @ \ {b}, !.job[j].acquired = @ \cup {d}]
           next == IF b[2] THEN ReadManifest(has, j, d) ELSE has
           k == [next EXCEPT !.ready = @ \cup {j}]
<1>1. \/ AdvanceStep(d, 0, h, j) = h \/ AdvanceStep(d, 0, h, j) = Panic(h)
      \/ AdvanceStep(d, 0, h, j) = k \/ AdvanceStep(d, 0, h, j) = next
  BY Zenon DEF AdvanceStep
<1>2. TellsOnly(has, R, F)
  BY DEF TellsOnly
<1> HIDE DEF has
<1>3. TellsOnly(next, R, F)
  BY <1>2, ReadTells
<1> HIDE DEF next
<1>4. TellsOnly(k, R, F)
  BY <1>3 DEF TellsOnly
<1>5. TellsOnly(Panic(h), R, F)
  BY DEF TellsOnly, Panic
<1> HIDE DEF k
<1>6. QED
  BY <1>1, <1>3, <1>4, <1>5

LEMMA AllAdvancedTell ==
  ASSUME NEW g, NEW d \in Digest, NEW js \in Seq(Job), NEW R, NEW F, TellsOnly(g, R, F),
         ToSet(js) \subseteq R
  PROVE  TellsOnly(Advances!Fold(d, 0, g, js), R, F)
<1> DEFINE r == <<R, F>>
           e == AdvancesTell!Fold(d, 0, g, js)
           S == Job \cap R
<1>1. js \in Seq(S)
  <2>1. \A i \in 1 .. Len(js) : js[i] \in S
    BY InSequence
  <2>2. QED
    BY <2>1
<1>2. r[1] = R /\ r[2] = F
  OBVIOUS
<1>3. Advances!Fold(d, 0, g, js) = e
  BY Zenon DEF AdvancesTell!Fold, Advances!Fold,
               Advances!Greatest, AdvancesTell!Greatest
<1> HIDE DEF r
<1>4. TellsInv(r, 0, g)
  BY <1>2 DEF TellsInv
<1>5. \A a : \A n \in 1 .. Len(js) :
        js[n] \in S /\ TellsInv(r, n - 1, a) => TellsInv(r, n, AdvanceStep(d, 0, a, js[n]))
  BY <1>2, AdvanceTells DEF TellsInv
<1> HIDE DEF S
<1>6. TellsInv(r, Len(js), e)
  BY <1>1, <1>4, <1>5, LeastOf, AdvancesTell!FoldKeeps
<1> HIDE DEF e
<1>7. QED
  BY <1>2, <1>3, <1>6, Zenon DEF TellsInv

LEMMA FailedTell ==
  ASSUME NEW g, NEW js \in Seq(Job), NEW ord, NEW R, NEW F, TellsOnly(g, R, F),
         ToSet(js) \subseteq F
  PROVE  TellsOnly(FailJobs(g, js, ord), R, F)
<1> DEFINE r == <<R, F>>
           e == FailsTell!Fold(ord, 0, g, js)
<1>1. js \in Seq(F)
  <2>1. \A i \in 1 .. Len(js) : js[i] \in F
    BY InSequence
  <2>2. QED
    BY <2>1
<1>2. r[1] = R /\ r[2] = F
  OBVIOUS
<1>3. FailJobs(g, js, ord) = e
  BY DEF FailJobs, FailsTell!Fold, FailStep, FoldLeft, MapThenFoldSet, Max,
         FailsTell!Greatest
<1> HIDE DEF r
<1>4. TellsInv(r, 0, g)
  BY <1>2 DEF TellsInv
<1>5. ASSUME NEW a, NEW j \in F, TellsOnly(a, R, F)
      PROVE  TellsOnly(FailStep(ord, 0, a, j), R, F)
  <2> DEFINE b == DropJob(a, j, ord)
  <2>1. TellsOnly(b, R, F)
    BY <1>5, DroppedTells
  <2>2. FailStep(ord, 0, a, j) \in {a, [b EXCEPT !.failed = @ \cup {j}]}
    BY DEF FailStep
  <2> HIDE DEF b
  <2>3. TellsOnly([b EXCEPT !.failed = @ \cup {j}], R, F)
    BY <2>1, <1>5 DEF TellsOnly
  <2>4. QED
    BY <1>5, <2>2, <2>3
<1>6. \A a : \A n \in 1 .. Len(js) :
        js[n] \in F /\ TellsInv(r, n - 1, a) => TellsInv(r, n, FailStep(ord, 0, a, js[n]))
  BY <1>2, <1>5 DEF TellsInv
<1>7. TellsInv(r, Len(js), e)
  BY <1>1, <1>4, <1>6, LeastOf, FailsTell!FoldKeeps
<1> HIDE DEF e
<1>8. QED
  BY <1>2, <1>3, <1>7, Zenon DEF TellsInv

LEMMA AllDroppedTell ==
  ASSUME NEW g, NEW js \in Seq(Job), NEW ord, NEW R, NEW F, TellsOnly(g, R, F)
  PROVE  TellsOnly(DropsTell!Fold(ord, 0, g, js), R, F)
<1> DEFINE r == <<R, F>>
           e == DropsTell!Fold(ord, 0, g, js)
<1>1. r[1] = R /\ r[2] = F
  OBVIOUS
<1> HIDE DEF r
<1>3. TellsInv(r, 0, g)
  BY <1>1 DEF TellsInv
<1>4. \A a : \A n \in 1 .. Len(js) :
        js[n] \in Job /\ TellsInv(r, n - 1, a) => TellsInv(r, n, DropStep(ord, 0, a, js[n]))
  BY DroppedTells DEF TellsInv, DropStep
<1>5. TellsInv(r, Len(js), e)
  BY <1>3, <1>4, LeastOf, DropsTell!FoldKeeps
<1>6. QED
  BY <1>1, <1>5, Zenon DEF TellsInv

LEMMA AllSharedTell ==
  ASSUME NEW g, NEW e, NEW js \in Seq(Job), NEW R, NEW F, TellsOnly(g, R, F)
  PROVE  TellsOnly(SharesTell!Fold(e, 0, g, js), R, F)
<1> DEFINE r == <<R, F>>
           s == SharesTell!Fold(e, 0, g, js)
<1>1. r[1] = R /\ r[2] = F
  OBVIOUS
<1> HIDE DEF r
<1>3. TellsInv(r, 0, g)
  BY <1>1 DEF TellsInv
<1>4. \A a : \A n \in 1 .. Len(js) :
        js[n] \in Job /\ TellsInv(r, n - 1, a) => TellsInv(r, n, ShareStep(e, 0, a, js[n]))
  BY AcquiringTells DEF TellsInv, ShareStep
<1>5. TellsInv(r, Len(js), s)
  BY <1>3, <1>4, LeastOf, SharesTell!FoldKeeps
<1>6. QED
  BY <1>1, <1>5, Zenon DEF TellsInv

LEMMA NextReadTells ==
  ASSUME NEW g, NEW R, NEW F, TellsOnly(g, R, F)
  PROVE  TellsOnly(NextRead(g), R, F)
<1> DEFINE h == [g EXCEPT !.waiting = Tail(@)]
<1>1. TellsOnly(h, R, F)
  BY DEF TellsOnly
<1> HIDE DEF h
<1>2. TellsOnly(StartReader(h, Head(g.waiting)), R, F)
  BY <1>1, ReaderTells
<1>3. QED
  BY <1>2 DEF NextRead, h

LEMMA NowTells ==
  ASSUME Right
  PROVE  TellsOnly(Now, {}, {}) /\ DOMAIN Now = {"cache", "job", "reads", "known", "waiting",
           "inProgress", "asked", "reader", "ready", "failed"}
<1>1. Typed(Now) /\ Now.ready = {} /\ Now.failed = {} /\ Now.reads = reads
  BY NowIsKept
<1>2. DOMAIN Now = {"cache", "job", "reads", "known", "waiting", "inProgress", "asked",
                    "reader", "ready", "failed"}
  BY DEF Now
<1>3. QED
  BY <1>1, <1>2 DEF TellsOnly, Typed

LEMMA NothingIsMore ==
  ASSUME NEW g, NEW R, NEW F, TellsOnly(g, {}, {})
  PROVE  TellsOnly(g, R, F)
BY DEF TellsOnly

Announcements == {<<>>, <<"ready">>, <<"failed">>}

Kind == {"ready", "failed"}

LEMMA AreSequences ==
  ASSUME NEW a \in Announcements
  PROVE  a \in Seq(Kind) /\ Len(a) <= 1
<1>1. <<>> \in Seq(Kind) /\ Len(<<>>) <= 1
  OBVIOUS
<1>2. ASSUME NEW x \in Kind PROVE <<x>> \in Seq(Kind) /\ Len(<<x>>) <= 1
  OBVIOUS
<1>3. "ready" \in Kind /\ "failed" \in Kind
  BY DEF Kind
<1>4. a = <<>> \/ a = <<"ready">> \/ a = <<"failed">>
  BY DEF Announcements
<1>5. QED
  BY <1>1, <1>2, <1>3, <1>4, Zenon

LEMMA NothingMore ==
  ASSUME NEW a \in Seq(Kind), NEW x \in Kind
  PROVE  /\ a \o <<>> = a
         /\ (a \o <<x>>) \o <<>> = a \o <<x>>
<1>1. a \o <<x>> \in Seq(Kind)
  OBVIOUS
<1>2. \A s \in Seq(Kind) : s \o <<>> = s
  OBVIOUS
<1>3. QED
  BY <1>1, <1>2

LEMMA ToldOnce ==
  ASSUME NEW a \in Announcements, NEW x \in Kind, a \o <<x>> \in Announcements
  PROVE  a = <<>> /\ a \o <<x>> = <<x>>
<1>1. a \in Seq(Kind) /\ Len(a \o <<x>>) <= 1
  BY AreSequences, Zenon
<1>2. Len(a \o <<x>>) = Len(a) + 1
  BY <1>1
<1>3. Len(a) \in Nat
  BY <1>1
<1>4. Len(a) = 0
  BY <1>1, <1>2, <1>3
<1>5. a = <<>>
  BY <1>1, <1>4
<1>6. QED
  BY <1>5

\* The jobs that a handler finds ready, or has failed, were not announced
\* before; the scheduler is told nothing new of others.
Says(J, kind) ==
  /\ J \subseteq started'
  /\ \A j \in J : announced[j] = <<>> /\ announced'[j] = <<kind>>
  /\ \A j \in Job \ J : announced'[j] = announced[j]

LEMMA WhatIsTold ==
  ASSUME Right, Right', NEW g, Become(g), NEW R \in SUBSET Job, NEW F \in SUBSET Job,
         TellsOnly(g, R, F), R = {} \/ F = {}
  PROVE  Says(g.ready \cup g.failed, IF F = {} THEN "ready" ELSE "failed")
<1> DEFINE A(j) == announced[j] \o (IF j \in g.ready THEN <<"ready">> ELSE <<>>)
                                \o (IF j \in g.failed THEN <<"failed">> ELSE <<>>)
           kind == IF F = {} THEN "ready" ELSE "failed"
           J == g.ready \cup g.failed
<1>1. announced \in [Job -> Announcements]
  BY DEF Right, Announcements
<1>2. announced' \in [Job -> Announcements] /\ \A j \in Job : announced'[j] # <<>> => j \in started'
  BY DEF Right, Announcements
<1>3. announced' = [j \in Job |-> A(j)]
  BY Zenon DEF Become
<1>4. J \subseteq Job /\ (F = {} => g.failed = {}) /\ (F # {} => g.ready = {})
  BY DEF TellsOnly
<1>5. ASSUME NEW j \in J PROVE A(j) = announced[j] \o <<kind>>
  <2>1. announced[j] \in Seq(Kind) /\ "ready" \in Kind /\ "failed" \in Kind
    BY <1>1, <1>4, AreSequences DEF Kind
  <2>2. CASE F = {}
    <3>1. A(j) = (announced[j] \o <<"ready">>) \o <<>>
      BY <1>4, <1>5, <2>2
    <3>2. QED
      BY <2>1, <2>2, <3>1, NothingMore
  <2>3. CASE F # {}
    <3>1. A(j) = (announced[j] \o <<>>) \o <<"failed">>
      BY <1>4, <1>5, <2>3
    <3>2. QED
      BY <2>1, <2>3, <3>1, NothingMore
  <2>4. QED
    BY <2>2, <2>3
<1>6. ASSUME NEW j \in Job, j \notin J PROVE A(j) = announced[j]
  <2>1. announced[j] \in Seq(Kind) /\ "ready" \in Kind
    BY <1>1, AreSequences DEF Kind
  <2>2. A(j) = (announced[j] \o <<>>) \o <<>>
    BY <1>6
  <2>3. QED
    BY <2>1, <2>2, NothingMore
<1>7. kind \in Kind
  BY DEF Kind
<1> HIDE DEF A, kind, J
<1>8. ASSUME NEW j \in J
      PROVE  announced[j] = <<>> /\ announced'[j] = <<kind>> /\ j \in started'
  <2>1. announced'[j] = announced[j] \o <<kind>> /\ j \in Job
    BY <1>3, <1>4, <1>5
  <2>2. announced[j] = <<>> /\ announced'[j] = <<kind>>
    BY <1>1, <1>2, <1>7, <2>1, ToldOnce
  <2>3. announced'[j] # <<>>
    BY <1>7, <2>2, Told DEF Kind
  <2>4. QED
    BY <1>2, <2>1, <2>2, <2>3
<1>9. Says(J, kind)
  BY <1>3, <1>6, <1>8 DEF Says
<1>10. QED
  BY <1>9 DEF J, kind

LEMMA NothingIsTold ==
  ASSUME Right, Right', NEW g, Become(g), TellsOnly(g, {}, {})
  PROVE  announced' = announced
<1>1. Says(g.ready \cup g.failed, IF {} = {} THEN "ready" ELSE "failed")
  BY WhatIsTold
<1>2. g.ready \cup g.failed = {}
  BY DEF TellsOnly
<1>3. \A j \in Job : announced'[j] = announced[j]
  BY <1>1, <1>2 DEF Says
<1>4. announced \in [Job -> Announcements]
  BY DEF Right, Announcements
<1>5. announced' \in [Job -> Announcements]
  BY DEF Right, Announcements
<1>6. QED
  BY <1>3, <1>4, <1>5

-----------------------------------------------------------------------------
\* The steps of the contract, but for what must stay stored.
Moves ==
  \/ \E c \in Client : Contract!Connect(c) \/ Contract!Disconnect(c)
  \/ \E j \in Job : Contract!Start(j) \/ Contract!Complete(j)
  \/ \E kind \in {"ready", "failed"}, J \in SUBSET Job : Contract!Announce(kind, J)

LEMMA SaidNothing ==
  ASSUME announced' = announced, clients' = clients, started' = started, completed' = completed
  PROVE  Moves
<1>1. Contract!Announce("ready", {})
  BY DEF Contract!Announce
<1>2. {} \in SUBSET Job
  OBVIOUS
<1>3. QED
  BY <1>1, <1>2 DEF Moves

\* What the scheduler is told of is announced, if the clients are still there.
LEMMA SaidOf ==
  ASSUME Right, Right', NEW g, Become(g), NEW R \in SUBSET Job, NEW F \in SUBSET Job,
         TellsOnly(g, R, F), R = {} \/ F = {}, \A j \in R \cup F : Owner(j) \in clients,
         clients' = clients, started' = started, completed' = completed
  PROVE  Moves
<1> DEFINE J == g.ready \cup g.failed
           kind == IF F = {} THEN "ready" ELSE "failed"
<1>1. Says(J, kind)
  BY WhatIsTold
<1>2. J \subseteq R \cup F
  BY DEF TellsOnly
<1>3. kind \in {"ready", "failed"}
  OBVIOUS
<1> HIDE DEF J, kind
<1>4. J \in SUBSET Job /\ J \subseteq started \cap Job
  BY <1>1, <1>2 DEF Says
<1>5. \A j \in J : Said(announced[j]) = "none" /\ Getter[j] \in clients
  BY <1>1, <1>2 DEF Says, Said, Owner
<1>6. \A j \in J : Said(announced'[j]) = kind
  BY <1>1, <1>3, Told DEF Says, Said
<1>7. \A j \in Job \ J : announced'[j] = announced[j]
  BY <1>1 DEF Says
<1>8. Contract!Announce(kind, J)
  BY <1>4, <1>5, <1>6, <1>7 DEF Contract!Announce
<1>9. QED
  BY <1>3, <1>4, <1>8 DEF Moves

LEMMA ConnectMoves ==
  ASSUME NEW c \in Client, ClientConnected(c)
  PROVE  Moves
<1>1. /\ clients' = clients \cup {c} /\ started' \cap Job = started \cap Job
      /\ announced' = announced /\ completed' = completed
  BY GathererAssumption DEF ClientConnected
<1>2. Contract!Connect(c)
  BY <1>1 DEF Contract!Connect
<1>3. QED
  BY <1>2 DEF Moves

LEMMA DisconnectMoves ==
  ASSUME Right, Right', NEW c \in Client, NEW ord \in Orders, ClientDisconnected(c, ord)
  PROVE  Moves
<1> DEFINE mine == {j \in Job : Owner(j) = c /\ job[j] # NoJob}
           g == [Now EXCEPT !.cache = GetterDisconnected(@, c)]
<1>1. /\ clients' = clients \ {c} /\ started' = started /\ completed' = completed
  BY Zenon DEF ClientDisconnected
<1>2. PICK js \in SetToSeqs(mine) : Become(FoldLeft(LAMBDA h, j : DropJob(h, j, ord), g, js))
  BY Zenon DEF ClientDisconnected
<1> DEFINE h == FoldLeft(LAMBDA b, j : DropJob(b, j, ord), g, js)
<1>3. Become(h)
  BY <1>2, Zenon
<1> HIDE DEF h
<1>4. TellsOnly(g, {}, {})
  BY NowTells DEF TellsOnly
<1> HIDE DEF g
<1>5. js \in Seq(Job)
  <2>1. Kept(Now, Around) /\ Now.job = job
    BY NowIsKept
  <2>2. mine \subseteq LiveIn(Now) /\ mine \subseteq Job
    BY <2>1 DEF LiveIn
  <2>3. IsFiniteSet(mine)
    BY <2>1, <2>2, FS_Subset DEF Kept, LiveRight
  <2>4. js \in SetToSeqs(mine)
    OBVIOUS
  <2> HIDE DEF mine
  <2>5. js \in Seq(mine)
    BY <2>3, <2>4, AnyOrder
  <2>6. QED
    BY <2>2, <2>5
<1>6. TellsOnly(h, {}, {})
  <2>1. h = DropsTell!Fold(ord, 0, g, js)
    BY DEF h, DropsTell!Fold, DropStep, FoldLeft, MapThenFoldSet, Max, DropsTell!Greatest
  <2>2. QED
    BY <1>4, <1>5, <2>1, AllDroppedTell
<1>7. announced' = announced
  BY <1>3, <1>6, NothingIsTold
<1>8. Contract!Disconnect(c)
  BY <1>1, <1>7 DEF Contract!Disconnect
<1>9. QED
  BY <1>8 DEF Moves

LEMMA StartMoves ==
  ASSUME Right, Right', NEW j \in Job, StartJob(j)
  PROVE  Moves
<1> DEFINE new == [Now EXCEPT !.job[j] = NewJob]
           g == FoldLeft(LAMBDA h, l : Acquire(h, j, l[1], l[2]), new, Layers[j])
           R == IF HaveAll(g.job[j]) THEN {j} ELSE {}
           h == [g EXCEPT !.ready = R]
<1>1. /\ Owner(j) \in clients /\ MayCome(j) /\ started' = started \cup {j} /\ Become(h)
      /\ clients' = clients /\ completed' = completed
  BY Zenon DEF StartJob
<1>2. TellsOnly(new, {}, {})
  BY NowTells DEF TellsOnly
<1>3. TellsOnly(g, {}, {})
  BY <1>2, LayersTell, Zenon
<1> HIDE DEF g
<1>4. R \subseteq {j}
  OBVIOUS
<1> HIDE DEF R
<1>5. TellsOnly(h, {j}, {}) /\ h.ready \cup h.failed \subseteq {j}
  BY <1>3, <1>4 DEF TellsOnly
<1> HIDE DEF h
<1>6. Says(h.ready \cup h.failed, IF {} = {} THEN "ready" ELSE "failed")
  <2>1. {j} \in SUBSET Job /\ {} \in SUBSET Job
    OBVIOUS
  <2>2. QED
    BY <1>1, <1>5, <2>1, WhatIsTold
<1>7. j \notin started
  BY <1>1 DEF MayCome
<1>8. announced \in [Job -> Announcements] /\ announced' \in [Job -> Announcements]
  BY DEF Right, Announcements
<1>9. announced[j] = <<>> /\ Said(announced[j]) = "none"
  BY <1>7 DEF Right, Said
<1>10. announced' = announced \/ announced' = [announced EXCEPT ![j] = <<"ready">>]
  <2>1. CASE h.ready \cup h.failed = {}
    BY <1>6, <1>8, <2>1 DEF Says
  <2>2. CASE h.ready \cup h.failed = {j}
    <3>1. announced'[j] = <<"ready">> /\ \A k \in Job \ {j} : announced'[k] = announced[k]
      BY <1>6, <2>2 DEF Says
    <3>2. QED
      BY <1>8, <3>1
  <2>3. QED
    BY <1>5, <2>1, <2>2
<1> DEFINE said == [k \in Job |-> Said(announced[k])]
           then == [k \in Job |-> Said(announced'[k])]
<1>11. then = said \/ then = [said EXCEPT ![j] = "ready"]
  <2>1. Said(<<"ready">>) = "ready"
    BY Told DEF Said
  <2>2. CASE announced' = [announced EXCEPT ![j] = <<"ready">>]
    <3>1. \A k \in Job : announced'[k] = IF k = j THEN <<"ready">> ELSE announced[k]
      BY <1>8, <2>2
    <3>2. \A k \in Job : Said(announced'[k]) = IF k = j THEN "ready" ELSE Said(announced[k])
      BY <2>1, <3>1
    <3>3. QED
      BY <3>2
  <2>3. QED
    BY <1>10, <2>2
<1>12. Contract!Start(j)
  BY <1>1, <1>7, <1>11 DEF Contract!Start, Owner
<1>13. QED
  BY <1>12 DEF Moves

LEMMA TransferMoves ==
  ASSUME Right, Right', NEW c \in Client, NEW d \in Digest, NEW fsOk \in BOOLEAN,
         NEW ord \in Orders, ArtifactTransferred(c, d, fsOk, ord)
  PROVE  Moves
<1> DEFINE got == IF d \in landed THEN GotArtifactSuccess(cache, d, fsOk)
                  ELSE GotArtifactFailure(cache, d)
           g == [Now EXCEPT !.cache = got.cache]
           js == got.jobs
           J == ToSet(js)
<1>1. TransferEnds(c, d, got, ord)
  BY AdvanceFold
<1>2. js \in {<<>>, cache.entry[d].jobs} /\ (cache.entry[d].st # "getting" => js = <<>>)
  BY Zenon DEF GotArtifactSuccess, GotArtifactFailure
<1>3. TellsOnly(g, {}, {})
  BY NowTells DEF TellsOnly
<1> HIDE DEF got
<1>4. /\ got.ok => Become(Advances!Fold(d, 0, g, js))
      /\ ~got.ok => Become(FailJobs(g, js, ord))
      /\ clients' = clients /\ started' = started /\ completed' = completed
  BY <1>1, Zenon DEF TransferEnds
<1>5. js \in Seq(Job) /\ \A i \in DOMAIN js : Owner(js[i]) \in clients
  <2>2. <<>> \in Seq(Job) /\ \A i \in DOMAIN <<>> : Owner(<<>>[i]) \in clients
    OBVIOUS
  <2>1. CASE cache.entry[d].st = "getting"
    <3>1. cache.entry[d] \in Entry
      BY NowIsKept DEF Kept, Typed, CacheTyped
    <3>2. cache.entry[d].jobs \in Seq(Job)
      BY <2>1, <3>1, FormsOfEntry
    <3>3. \A i \in DOMAIN cache.entry[d].jobs : Owner(cache.entry[d].jobs[i]) \in clients
      BY <2>1, RightForgets DEF GoneIsForgotten
    <3>4. js = <<>> \/ js = cache.entry[d].jobs
      BY <1>2, Zenon
    <3>5. QED
      BY <2>2, <3>2, <3>3, <3>4, Zenon
  <2>3. CASE cache.entry[d].st # "getting"
    BY <1>2, <2>2, <2>3, Zenon
  <2>4. QED
    BY <2>1, <2>3
<1> HIDE DEF g, js
<1>6. J \in SUBSET Job /\ \A j \in J : Owner(j) \in clients
  BY <1>5, InSequence DEF ToSet
<1>7. CASE got.ok
  <2> DEFINE h == Advances!Fold(d, 0, g, js)
  <2>1. TellsOnly(h, J, {})
    BY <1>3, <1>5, NothingIsMore, AllAdvancedTell
  <2>2. Become(h)
    BY <1>4, <1>7
  <2> HIDE DEF h, J
  <2>3. QED
    BY <1>4, <1>6, <2>1, <2>2, SaidOf
<1>8. CASE ~got.ok
  <2> DEFINE h == FailJobs(g, js, ord)
  <2>1. TellsOnly(h, {}, J)
    BY <1>3, <1>5, NothingIsMore, FailedTell
  <2>2. Become(h)
    BY <1>4, <1>8
  <2> HIDE DEF h, J
  <2>3. QED
    BY <1>4, <1>6, <2>1, <2>2, SaidOf
<1>9. QED
  BY <1>7, <1>8

LEMMA EntryMoves ==
  ASSUME Right, Right', NEW d \in Digest, ManifestEntry(d)
  PROVE  Moves
<1> DEFINE n == reader[d].next
           e == Entries[d][n]
           J == reads[d].jobs
           js == SetToSeq(J)
           s == [Now EXCEPT !.reader[d].next = @ + 1, !.reads[d].entries = @ \cup {e}]
           h == FoldLeft(LAMBDA g, j : StartAcquiring(g, j, e, FALSE), s, js)
<1>1. /\ reader[d].st = "open" /\ n <= Len(Entries[d])
      /\ Become(IF e \in reads[d].entries THEN s ELSE h)
      /\ clients' = clients /\ started' = started /\ completed' = completed
  <2>1. reader[d].st # "none"
    BY DEF ManifestEntry
  <2>2. reads[d] # NoRead /\ \A j \in reads[d].jobs : HasJob(j)
    BY <2>1, ReadJobs
  <2>3. QED
    BY <2>2, Zenon DEF ManifestEntry
<1>2. h = SharesTell!Fold(e, 0, s, js)
  BY DEF SharesTell!Fold, ShareStep, FoldLeft, MapThenFoldSet, Max, SharesTell!Greatest
<1> HIDE DEF h
<1>3. /\ Kept(Now, Around) /\ Typed(Now) /\ Now.reads = reads /\ Now.reader = reader
  BY NowIsKept
<1>4. /\ ReadersRight(Now) /\ ReadsRight(Now) /\ LiveRight(Now, Around.started)
      /\ reads \in [Digest -> ReadRecord]
  BY <1>3 DEF Kept, Typed
<1>5. /\ reads[d] # NoRead /\ J \in SUBSET Job /\ reads[d].entries \in SUBSET Digest
      /\ n \in Nat \ {0}
  BY <1>1, <1>3, <1>4, ReaderReads
<1>6. IsFiniteSet(J)
  BY <1>3, <1>4, <1>5, ReadersFinite
<1>7. js \in Seq(Job)
  <2>1. js \in Seq(J)
    BY <1>6, SetInOrder
  <2>2. QED
    BY <1>5, <2>1
<1>8. e \in Digest
  BY <1>1, <1>5, EntriesListed
<1>9. /\ DOMAIN s = DOMAIN Now /\ s.ready = Now.ready /\ s.failed = Now.failed
      /\ s.reads = [reads EXCEPT ![d].entries = @ \cup {e}]
  BY <1>3 DEF Now
<1> HIDE DEF s, n, js, J
<1>10. s.reads \in [Digest -> ReadRecord]
  <2>1. reads[d] \in [st : {"read"}, jobs : SUBSET Job, entries : SUBSET Digest]
    BY <1>4, <1>5 DEF ReadRecord
  <2>2. [reads[d] EXCEPT !.entries = @ \cup {e}] \in ReadRecord
    BY <1>8, <2>1 DEF ReadRecord
  <2>3. QED
    BY <1>4, <1>9, <2>2
<1> HIDE DEF e
<1>11. TellsOnly(s, {}, {})
  BY <1>9, <1>10, NowTells DEF TellsOnly
<1>12. TellsOnly(h, {}, {})
  BY <1>2, <1>7, <1>11, AllSharedTell
<1> DEFINE g == IF e \in reads[d].entries THEN s ELSE h
<1>13. TellsOnly(g, {}, {}) /\ Become(g)
  BY <1>1, <1>11, <1>12
<1> HIDE DEF g
<1>14. QED
  BY <1>1, <1>13, NothingIsTold, SaidNothing

LEMMA FinishedMoves ==
  ASSUME Right, Right', NEW d \in Digest, NEW ok \in BOOLEAN, NEW ord \in Orders,
         FinishedReadingManifest(d, ok, ord)
  PROVE  Moves
<1> DEFINE J == reads[d].jobs
           g == [Now EXCEPT !.reads[d] = NoRead, !.inProgress = @ - 1,
                            !.reader[d] = NoReader,
                            !.job = [j \in Job |->
                               IF j \in reads[d].jobs
                               THEN [job[j] EXCEPT !.reading = @ \ {d}] ELSE job[j]]]
           R == {j \in reads[d].jobs : HaveAll(g.job[j])}
           a == [g EXCEPT !.ready = R, !.known = Learn(@, d)]
<1>1. /\ \/ reader[d].st = "failed" /\ ~ok
         \/ reader[d].st = "open" /\ (ok => reader[d].next > Len(Entries[d]))
      /\ ok => Become(NextRead(a))
      /\ ~ok => \E js \in SetToSeqs(J) : Become(NextRead(FailJobs(g, js, ord)))
      /\ clients' = clients /\ started' = started /\ completed' = completed
  <2>1. reader[d].st # "none"
    BY DEF FinishedReadingManifest
  <2>2. ReadInOrder(d, ok)
    BY <2>1, ReadJobs
  <2>3. QED
    BY <2>2, Zenon DEF FinishedReadingManifest
<1>2. \A k \in LiveIn(Now) : Owner(k) \in clients
  BY DEF Right
<1>3. /\ Kept(Now, Around) /\ Typed(Now) /\ Now.reads = reads /\ Now.reader = reader
  BY NowIsKept
<1>4. /\ ReadersRight(Now) /\ ReadsRight(Now) /\ LiveRight(Now, Around.started)
      /\ reads \in [Digest -> ReadRecord]
  BY <1>3 DEF Kept, Typed
<1>5. reader[d].st # "none"
  <2>1. reader[d].st = "failed" \/ reader[d].st = "open"
    BY <1>1, Zenon
  <2>2. QED
    BY <2>1
<1>6. reads[d] # NoRead /\ J \in SUBSET Job
  BY <1>3, <1>4, <1>5, ReaderReads
<1>7. IsFiniteSet(J) /\ \A j \in J : Owner(j) \in clients
  BY <1>2, <1>3, <1>4, <1>6, ReadersFinite
<1>8. /\ DOMAIN g = DOMAIN Now /\ g.ready = Now.ready /\ g.failed = Now.failed
      /\ g.reads = [reads EXCEPT ![d] = NoRead]
  BY <1>3 DEF Now
<1>9. R \subseteq J
  OBVIOUS
<1> HIDE DEF g, R, J
<1>10. TellsOnly(g, {}, {})
  <2>1. g.reads \in [Digest -> ReadRecord]
    BY <1>4, <1>8 DEF ReadRecord
  <2>2. QED
    BY <1>8, <2>1, NowTells DEF TellsOnly
<1>11. CASE ok
  <2>1. TellsOnly(a, J, {})
    BY <1>9, <1>10 DEF TellsOnly
  <2> HIDE DEF a
  <2> DEFINE h == NextRead(a)
  <2>2. TellsOnly(h, J, {}) /\ Become(h)
    BY <1>1, <1>11, <2>1, NextReadTells
  <2> HIDE DEF h
  <2>3. QED
    BY <1>1, <1>6, <1>7, <2>2, SaidOf
<1>12. CASE ~ok
  <2>1. PICK js \in SetToSeqs(J) : Become(NextRead(FailJobs(g, js, ord)))
    BY <1>1, <1>12
  <2>2. js \in Seq(J) /\ ToSet(js) = J
    BY <1>7, AnyOrder
  <2>3. js \in Seq(Job)
    BY <1>6, <2>2
  <2> DEFINE b == FailJobs(g, js, ord)
             h == NextRead(b)
  <2>4. TellsOnly(b, {}, J)
    BY <1>10, <2>2, <2>3, NothingIsMore, FailedTell
  <2> HIDE DEF b
  <2>5. TellsOnly(h, {}, J) /\ Become(h)
    BY <2>1, <2>4, NextReadTells DEF b
  <2> HIDE DEF h
  <2>6. QED
    BY <1>1, <1>6, <1>7, <2>5, SaidOf
<1>13. QED
  BY <1>11, <1>12

LEMMA CompletedMoves ==
  ASSUME Right, Right', NEW j \in Job, NEW ord \in Orders, JobCompleted(j, ord)
  PROVE  Moves
<1> DEFINE g == DropJob(Now, j, ord)
           h == IF job[j] = NoJob \/ ~HaveAll(job[j]) THEN Panic(Now) ELSE g
<1>1. /\ announced[j] # <<>> /\ announced[j][1] = "ready"
      /\ Owner(j) \in clients /\ j \notin completed
      /\ completed' = completed \cup {j} /\ clients' = clients /\ started' = started
      /\ Become(h)
  BY Zenon DEF JobCompleted
<1>2. TellsOnly(g, {}, {})
  BY NowTells, DroppedTells
<1> HIDE DEF g
<1>3. TellsOnly(Panic(Now), {}, {})
  BY NowTells DEF TellsOnly, Panic
<1>4. TellsOnly(h, {}, {})
  BY <1>2, <1>3
<1> HIDE DEF h
<1>5. announced' = announced
  BY <1>1, <1>4, NothingIsTold
<1>6. announced[j] = <<"ready">> /\ j \in started
  <2>1. announced[j] \in Announcements /\ j \in started
    BY <1>1 DEF Right, Announcements
  <2>2. <<"failed">>[1] = "failed"
    OBVIOUS
  <2>3. QED
    BY <1>1, <2>1, <2>2 DEF Announcements
<1>7. j \in Contract!Promised
  BY <1>1, <1>6, Told DEF Contract!Promised, Said, Owner
<1>8. Contract!Complete(j)
  BY <1>1, <1>5, <1>7 DEF Contract!Complete
<1>9. QED
  BY <1>8 DEF Moves

LEMMA OthersMove ==
  ASSUME NEW c, NEW d \in Digest,
         \/ GotArtifact(c, d) \/ ReaderOpens(d) \/ GetArtifactForWorker(d)
         \/ DecrementRefcount(d) \/ FetchAborted(d)
  PROVE  Moves
<1>1. announced' = announced /\ clients' = clients /\ started' = started /\ completed' = completed
  <2>1. CASE GotArtifact(c, d)
    BY <2>1, Zenon DEF GotArtifact
  <2>2. CASE ReaderOpens(d)
    BY <2>2, Zenon DEF ReaderOpens, gathererVars
  <2>3. CASE GetArtifactForWorker(d)
    BY <2>3, Zenon DEF GetArtifactForWorker
  <2>4. CASE DecrementRefcount(d)
    BY <2>4 DEF DecrementRefcount
  <2>5. CASE FetchAborted(d)
    BY <2>5 DEF FetchAborted, gathererVars
  <2>6. QED
    BY <2>1, <2>2, <2>3, <2>4, <2>5
<1>2. QED
  BY <1>1, SaidNothing

LEMMA NextMoves ==
  ASSUME Right, Right', BrokerNext
  PROVE  Moves
<1>1. CASE \E c \in Client : ClientConnected(c)
  BY <1>1, ConnectMoves
<1>2. CASE \E c \in Client, ord \in Orders : ClientDisconnected(c, ord)
  BY <1>2, DisconnectMoves
<1>3. CASE \E j \in Job : StartJob(j)
  BY <1>3, StartMoves
<1>4. CASE \E c \in Client, d \in Digest : GotArtifact(c, d)
  BY <1>4, OthersMove
<1>5. CASE \E c \in Client, d \in Digest, fsOk \in BOOLEAN, ord \in Orders :
             ArtifactTransferred(c, d, fsOk, ord)
  BY <1>5, TransferMoves
<1>6. CASE \E d \in Digest : ReaderOpens(d) \/ ManifestEntry(d)
  BY <1>6, OthersMove, EntryMoves
<1>7. CASE \E d \in Digest, ok \in BOOLEAN, ord \in Orders : FinishedReadingManifest(d, ok, ord)
  BY <1>7, FinishedMoves
<1>8. CASE \E j \in Job, ord \in Orders : JobCompleted(j, ord)
  BY <1>8, CompletedMoves
<1>9. CASE \E d \in Digest : GetArtifactForWorker(d) \/ DecrementRefcount(d) \/ FetchAborted(d)
  BY <1>9, OthersMove
<1>10. QED
  BY <1>1, <1>2, <1>3, <1>4, <1>5, <1>6, <1>7, <1>8, <1>9, Zenon DEF BrokerNext

\* What a job was promised is stored.
PromisesKept == \A j \in Contract!Promised : Needed(j) \subseteq Stored(cache)

LEMMA RightKeepsPromises ==
  ASSUME Right, ~Overlap, \A j \in Job : Apart(j)
  PROVE  PromisesKept
<1>1. SUFFICES ASSUME NEW j \in Contract!Promised, NEW d \in Needed(j)
               PROVE  d \in Stored(cache)
  BY DEF PromisesKept
<1>2. j \in Job /\ j \notin completed /\ Said(announced[j]) = "ready" /\ Owner(j) \in clients
  BY DEF Contract!Promised, Owner
<1>3. announced[j] = <<"ready">>
  <2>1. announced[j] \in Announcements
    BY <1>2 DEF Right, Announcements
  <2>2. QED
    BY <1>2, <2>1, Told DEF Said, Announcements
<1>4. /\ Kept(Now, Around) /\ Typed(Now) /\ Now.job = job /\ Now.cache = cache
      /\ Around.announced = announced /\ Around.completed = completed
      /\ Around.clients = clients /\ Around.fetching = fetching
  BY NowIsKept
<1>5. /\ TellsRight(Now, announced, completed, clients)
      /\ HeldRight(Now, fetching) /\ IsFiniteSet(LiveIn(Now)) /\ fetching \in [Digest -> Nat]
  BY <1>4 DEF Kept, LiveRight
<1>6. j \in LiveIn(Now)
  BY <1>2, <1>3, <1>5 DEF TellsRight
<1>7. d \in job[j].acquired
  <2>1. j \in Live
    BY <1>4, <1>6 DEF LiveIn, Live
  <2>2. QED
    BY <1>2, <1>3, <2>1, ReadyNeedsNothing
<1>8. d \in Digest
  <2>1. Now.job[j].acquired \in SUBSET Digest
    BY <1>4, <1>6, LiveJob
  <2>2. QED
    BY <1>4, <1>7, <2>1
<1> DEFINE H == HeldBy(Now, d)
<1>9. j \in H /\ H \subseteq LiveIn(Now)
  BY <1>4, <1>6, <1>7 DEF HeldBy
<1>10. ClaimsIn(Now, fetching)[d] = Cardinality(H) + fetching[d] /\ fetching[d] \in Nat
  BY <1>5, <1>8 DEF ClaimsIn
<1> HIDE DEF H
<1>11. Cardinality(H) \in Nat /\ Cardinality(H) # 0
  <2>1. IsFiniteSet(H)
    BY <1>5, <1>9, FS_Subset
  <2>2. QED
    BY <1>9, <2>1, FS_CardinalityType, FS_EmptySet
<1>12. ClaimsIn(Now, fetching)[d] > 0
  BY <1>10, <1>11
<1>13. cache.entry[d].st = "inUse"
  BY <1>4, <1>5, <1>8, <1>12 DEF HeldRight, Covers
<1>14. QED
  BY <1>8, <1>13 DEF Stored

\* As long as no two uploads of an artifact are under way at a time, and the
\* manifests of each job are not files of it as well, the gatherer implements
\* its contract: it announces a job once, neither before it has everything nor
\* after its client has gone, and what the job needs stays stored until the
\* job is completed, over all evictions.
THEOREM GathererServes ==
  ASSUME ~Overlap, \A j \in Job : Apart(j)
  PROVE  Spec => KeepsContract
<1>1. Init => Contract!Init
  BY Told DEF Init, Contract!Init, EmptyCache, Absent, Stored, Said
<1>2. Right /\ Right' /\ PromisesKept' /\ [Next]_vars => [Contract!Next]_(Contract!vars)
  <2>1. SUFFICES ASSUME Right, Right', PromisesKept', [BrokerNext]_brokerVars
                 PROVE  [Contract!Next]_(Contract!vars)
    BY BrokerSteps
  <2>2. CASE BrokerNext
    <3>1. Moves
      BY <2>1, <2>2, NextMoves
    <3>2. Contract!Keep
      BY <2>1 DEF PromisesKept, Contract!Keep, Contract!Promised
    <3>3. QED
      BY <3>1, <3>2, Zenon DEF Moves, Contract!Next
  <2>3. CASE UNCHANGED brokerVars
    BY <2>3 DEF brokerVars, gathererVars, envVars, Contract!vars
  <2>4. QED
    BY <2>1, <2>2, <2>3
<1>3. Right => PromisesKept
  BY RightKeepsPromises
<1>4. QED
  BY <1>1, <1>2, <1>3, GathererIsRight, PTL DEF Spec, KeepsContract, Contract!Spec
=============================================================================
