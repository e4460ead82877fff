---------------------------- MODULE ClientProofs -----------------------------
(***************************************************************************)
(* Proofs about the client process (Client), for any jobs, specs, layers,  *)
(* images, files and failures.                                             *)
(***************************************************************************)
EXTENDS Client, FiniteSetTheorems, SequenceTheorems, WellFoundedInduction, TLAPS

-----------------------------------------------------------------------------
\* What FoldTheorems needs of the naturals: a set of them has a least element.
LEMMA LeastOf ==
  \A D \in SUBSET Nat : D # {} => \E m \in D : \A k \in D : ~(k < m)
<1> SUFFICES ASSUME NEW D \in SUBSET Nat, D # {}
             PROVE  \E m \in D : \A k \in D : ~(k < m)
  OBVIOUS
<1>1. PICK m \in D : \A k \in D : ~(<<k, m>> \in OpToRel(<, Nat))
  <2>1. IsWellFoundedOn(OpToRel(<, Nat), Nat)
    BY NatLessThanWellFounded
  <2>2. QED
    BY <2>1, WFMin
<1>2. ASSUME NEW k \in D, k < m PROVE FALSE
  <2>1. <<k, m>> \in OpToRel(<, Nat)
    BY <1>2 DEF OpToRel
  <2>2. QED
    BY <1>1, <2>1
<1>3. QED
  BY <1>2

-----------------------------------------------------------------------------
\* Collapsed specs.

SpecFields == {"err", "val", "image", "imageVal"}

\* What is used of an image is not set, and the image is one there is.
ImageRight(spec) ==
  spec.image # None => /\ spec.image.name \in Image /\ spec.image.use \subseteq ImageUse
                       /\ MayIntegrate(spec) /\ spec.imageVal["layers"] = <<>>

SpecRight(spec) ==
  /\ DOMAIN spec = SpecFields
  /\ spec.val["layers"] \in Seq(Layer) /\ spec.imageVal["layers"] \in Seq(Layer)
  /\ ImageRight(spec)

Parents ==
  {NoParent} \cup [kind : {"container"}, name : Name, use : SUBSET ContainerUse]
  \cup [kind : {"image"}, name : Image, use : SUBSET ContainerUse]

Containers == [Name -> Container \cup {None}]

\* What the loop over the ancestors knows.
TurnRight(s) ==
  /\ DOMAIN s = {"next", "val", "mask", "ancestors", "image", "err"}
  /\ s.next \in Parents
  /\ s.val["layers"] \in Seq(Layer)
  /\ s.mask \subseteq ContainerUse
  /\ \A u \in s.mask : u \in ListUse \/ s.val[u] = None
  /\ s.image # None =>
       /\ s.image.name \in Image /\ s.image.use \subseteq ImageUse
       /\ \A u \in s.image.use : u \in ListUse \/ s.val[u] = None
  /\ s.image # None => s.next = NoParent

TurnStep(p, o, a, x) == Turn(a, p)
TurnIs(r, n, a) == TurnRight(a)
Turning == INSTANCE FoldTheorems WITH Op <- TurnStep, Inv <- TurnIs

LEMMA ParentForms ==
  ASSUME NEW x \in Parents
  PROVE  /\ x.kind \in {"none", "container", "image"}
         /\ x.kind = "container" => x.name \in Name /\ x.use \subseteq ContainerUse
         /\ x.kind = "image" => x.name \in Image /\ x.use \subseteq ContainerUse
         /\ x = NoParent => x.kind = "none"
BY DEF Parents, NoParent

LEMMA ContainerIsRight ==
  ASSUME NEW c \in Container \cup {SpecOf[j] : j \in Job}
  PROVE  c.val["layers"] \in Seq(Layer) /\ c.parent \in Parents
BY SpecsAssumption DEF Parents

\* Every turn of the loop.
LEMMA TurnKeeps ==
  ASSUME NEW containers0 \in Containers, NEW s, TurnRight(s)
  PROVE  TurnRight(Turn(s, containers0))
<1>1. "layers" \in ListUse /\ "layers" \in ContainerUse /\ NoParent \in Parents
  BY SpecsAssumption DEF ContainerUse, Parents
<1>2. CASE s.next.kind = "none"
  BY <1>2 DEF Turn
<1>3. CASE s.next.kind = "image"
  <2> DEFINE use == s.next.use \cap s.mask \cap ImageUse
             im == IF use = {} THEN None ELSE [name |-> s.next.name, use |-> use]
             t == [s EXCEPT !.next = NoParent, !.image = im]
  <2>1. s.next.name \in Image
    BY <1>3, ParentForms DEF TurnRight
  <2>2. Turn(s, containers0) = t
    BY <1>3 DEF Turn, AtImage
  <2>3. /\ DOMAIN t = {"next", "val", "mask", "ancestors", "image", "err"}
        /\ t.next = NoParent /\ t.image = im /\ t.val = s.val /\ t.mask = s.mask
    BY DEF TurnRight
  <2>4. im # None => im.name \in Image /\ im.use \subseteq ImageUse /\ im.use \subseteq s.mask
    BY <2>1
  <2> HIDE DEF im, t
  <2>5. QED
    BY <1>1, <2>2, <2>3, <2>4 DEF TurnRight
<1>4. CASE s.next.kind = "container"
  <2> DEFINE mask == s.mask \cap s.next.use
             name == s.next.name
             c == containers0[name]
             val == Inherited(s.val, mask, c)
             t1 == [s EXCEPT !.next = NoParent]
             t2 == [s EXCEPT !.next = NoParent, !.err = TRUE]
             t3 == [s EXCEPT !.next = c.parent, !.val = val, !.mask = Open(mask, val),
                             !.ancestors = @ \cup {name}]
  <2>1. name \in Name /\ c \in Container \cup {None}
    BY <1>4, ParentForms DEF TurnRight, Containers
  <2>2. s.image = None
    BY <1>4, ParentForms DEF TurnRight, NoParent
  <2>3. Turn(s, containers0) = IF mask = {} THEN t1
                               ELSE IF c = None \/ name \in s.ancestors THEN t2 ELSE t3
    BY <1>4 DEF Turn, AtContainer
  <2>4. TurnRight(t1)
    BY <1>1 DEF TurnRight
  <2>5. TurnRight(t2)
    BY <1>1 DEF TurnRight
  <2>6. ASSUME c # None
        PROVE  TurnRight(t3)
    <3>1. c.val["layers"] \in Seq(Layer) /\ c.parent \in Parents
      BY <2>1, <2>6, ContainerIsRight
    <3>2. val["layers"] \in Seq(Layer)
      <4>1. val["layers"] = IF "layers" \notin mask THEN s.val["layers"]
                            ELSE c.val["layers"] \o s.val["layers"]
        BY <1>1 DEF Inherited
      <4> HIDE DEF c, val, mask
      <4>2. s.val["layers"] \in Seq(Layer)
        BY DEF TurnRight
      <4>3. c.val["layers"] \o s.val["layers"] \in Seq(Layer)
        BY <3>1, <4>2, ConcatProperties
      <4>4. QED
        BY <4>1, <4>2, <4>3
    <3>3. Open(mask, val) \subseteq ContainerUse /\ \A u \in Open(mask, val) : u \in ListUse \/ val[u] = None
      BY DEF Open, TurnRight
    <3>4. /\ DOMAIN t3 = {"next", "val", "mask", "ancestors", "image", "err"}
          /\ t3.next = c.parent /\ t3.val = val /\ t3.mask = Open(mask, val) /\ t3.image = s.image
      BY DEF TurnRight
    <3> HIDE DEF t3, val, mask, c
    <3>5. QED
      BY <2>2, <3>1, <3>2, <3>3, <3>4 DEF TurnRight
  <2> HIDE DEF t1, t2, t3
  <2>7. QED
    BY <2>3, <2>4, <2>5, <2>6
<1>5. QED
  BY <1>2, <1>3, <1>4, ParentForms DEF TurnRight

Turned(containers0, base, q) == FoldLeft(LAMBDA s, n : Turn(s, containers0), base, q)

LEMMA TurnFold ==
  ASSUME NEW containers0, NEW base, NEW q
  PROVE  Turned(containers0, base, q) = Turning!Fold(containers0, 0, base, q)
<1>1. Turning!Fold(containers0, 0, base, q) = FoldLeft(LAMBDA s, n : Turn(s, containers0), base, q)
  BY DEF Turning!Fold, TurnStep, FoldLeft, MapThenFoldSet, Max,
         Turning!Greatest
<1>2. QED
  BY <1>1, Zenon DEF Turned

LEMMA CollapseIsRight ==
  ASSUME NEW c \in Container \cup {SpecOf[j] : j \in Job}, NEW containers0 \in Containers
  PROVE  LET spec == Collapse(c, containers0) IN
         SpecRight(spec) /\ spec.imageVal["layers"] = <<>>
<1> DEFINE turns == [n \in 1 .. Cardinality(Name) + 2 |-> n]
           base == Beginning(c)
           end == Turned(containers0, base, turns)
           empty == [u \in ImageUse |-> IF u \in ListUse THEN <<>> ELSE None]
           spec == Collapse(c, containers0)
<1>1. c.val["layers"] \in Seq(Layer) /\ c.parent \in Parents
  BY ContainerIsRight
<1>2. TurnRight(base)
  BY <1>1 DEF Beginning, TurnRight, Open
<1>3. TurnRight(end)
  <2>1. turns \in Seq(Nat)
    <3>1. Cardinality(Name) + 2 \in Nat
      BY UseAssumption, FS_CardinalityType
    <3>2. QED
      BY <3>1
  <2>2. end = Turning!Fold(containers0, 0, base, turns)
    BY TurnFold
  <2> HIDE DEF base, turns, end
  <2>3. TurnIs(0, 0, base)
    BY <1>2 DEF TurnIs
  <2>4. \A a : \A n \in 1 .. Len(turns) :
          turns[n] \in Nat /\ TurnIs(0, n - 1, a) => TurnIs(0, n, TurnStep(containers0, 0, a, turns[n]))
    BY TurnKeeps DEF TurnIs, TurnStep
  <2>5. TurnIs(0, Len(turns), Turning!Fold(containers0, 0, base, turns))
    BY <2>1, <2>3, <2>4, LeastOf, Turning!FoldKeeps
  <2>6. QED
    BY <2>2, <2>5 DEF TurnIs
<1>4. /\ DOMAIN spec = SpecFields /\ spec.val = end.val /\ spec.image = end.image
      /\ spec.imageVal = empty
  <2>1. spec = [err |-> end.err, val |-> end.val, image |-> end.image, imageVal |-> empty]
    BY Zenon DEF Collapse, Turned
  <2> HIDE DEF end, spec
  <2>2. QED
    BY <2>1 DEF SpecFields
<1>5. "layers" \in ListUse /\ "layers" \in ImageUse /\ empty["layers"] = <<>>
  BY SpecsAssumption
<1>7. SpecRight(spec) /\ spec.imageVal["layers"] = <<>>
  <2> HIDE DEF spec, end
  <2>1. QED
    BY <1>3, <1>4, <1>5 DEF SpecRight, TurnRight, ImageRight, MayIntegrate
<1>8. QED
  BY <1>7

\* An image that is there is integrated, or found not to be valid.
LEMMA IntegratedIsRight ==
  ASSUME NEW spec, SpecRight(spec), NEW i \in Image
  PROVE  LET t == IntegrateImage(spec, Contents[i]) IN
         t # None => /\ SpecRight(t) /\ t.image = None
                     /\ t.val["layers"] = spec.val["layers"]
<1> DEFINE use == spec.image.use
           imageVal == [u \in ImageUse |-> IF u \in use /\ u \in ListUse
                                            THEN Contents[i].val[u] ELSE spec.imageVal[u]]
           val == [u \in ContainerUse |-> IF u \in use /\ u \in SingleUse
                                           THEN Contents[i].val[u] ELSE spec.val[u]]
           t == [spec EXCEPT !.image = None, !.imageVal = imageVal, !.val = val]
<1>1. IntegrateImage(spec, Contents[i]) \in {None, t}
  BY DEF IntegrateImage
<1>2. /\ "layers" \in ListUse /\ "layers" \in ImageUse /\ "layers" \in ContainerUse
      /\ "layers" \notin SingleUse /\ Contents[i].val["layers"] \in Seq(Layer)
  BY SpecsAssumption, UseAssumption DEF ContainerUse
<1>3. val["layers"] = spec.val["layers"] /\ imageVal["layers"] \in Seq(Layer)
  BY <1>2 DEF SpecRight
<1>4. DOMAIN t = SpecFields /\ t.image = None /\ t.imageVal = imageVal /\ t.val = val
  BY DEF SpecRight, SpecFields
<1> HIDE DEF t, val, imageVal
<1>5. SpecRight(t)
  BY <1>3, <1>4 DEF SpecRight, ImageRight
<1>6. QED
  BY <1>1, <1>3, <1>4, <1>5

-----------------------------------------------------------------------------
\* The accounts of the builds.

PrepFields == {"layers", "jobs", "pending", "waiting", "building", "failed", "panic"}

Waiter == BOOLEAN \X Job \X (Nat \ {0})

LayerEntries ==
  {Unknown, Err} \cup [st : {"got"}, val : Digest]
  \cup [st : {"getting"}, wait : {W \in SUBSET Waiter : IsFiniteSet(W)}]

Builds == [Layer -> [step : Nat, digest : Digest \cup {None}]]

PrepTyped(p) ==
  /\ DOMAIN p = PrepFields
  /\ p.layers \in [Layer -> LayerEntries]
  /\ DOMAIN p.jobs = Job /\ p.jobs = [k \in Job |-> p.jobs[k]]
  /\ p.building \in Builds
  /\ p.pending \in Nat /\ p.waiting \in Seq(Layer)
  /\ p.panic = FALSE

RunningIn(p) == {l \in Layer : p.building[l].step > 0}

Accounts(p) ==
  /\ IsFiniteSet(RunningIn(p))
  /\ p.pending = Cardinality(RunningIn(p)) /\ p.pending <= MaxPendingLayerBuilds
  /\ p.waiting # <<>> => p.pending = MaxPendingLayerBuilds
  /\ {l \in Layer : p.layers[l].st = "getting"} = RunningIn(p) \cup ToSet(p.waiting)
  /\ IsInjective(p.waiting) /\ ToSet(p.waiting) \cap RunningIn(p) = {}

LEMMA EntryForms ==
  ASSUME NEW e \in LayerEntries
  PROVE  /\ e.st \in {"none", "err", "got", "getting"}
         /\ e.st = "none" => e = Unknown
         /\ e.st = "err" => e = Err
         /\ e.st = "got" => e.val \in Digest /\ e = Got(e.val)
         /\ e.st = "getting" => e.wait \in SUBSET Waiter /\ IsFiniteSet(e.wait) /\ e = Getting(e.wait)
BY DEF LayerEntries, Unknown, Err, Got, Getting

LEMMA FormsOfEntry ==
  /\ Unknown \in LayerEntries /\ Unknown.st = "none"
  /\ Err \in LayerEntries /\ Err.st = "err"
  /\ \A d \in Digest : Got(d) \in LayerEntries /\ Got(d).st = "got" /\ Got(d).val = d
  /\ \A W \in SUBSET Waiter : IsFiniteSet(W) =>
       Getting(W) \in LayerEntries /\ Getting(W).st = "getting" /\ Getting(W).wait = W
BY DEF LayerEntries, Unknown, Err, Got, Getting

\* Sequences in which nothing comes twice.
LEMMA InSequence ==
  ASSUME NEW S, NEW q \in Seq(S)
  PROVE  /\ \A y : y \in ToSet(q) <=> \E i \in 1 .. Len(q) : q[i] = y
         /\ ToSet(q) \subseteq S
BY DEF ToSet

LEMMA AppendedOnce ==
  ASSUME NEW S, NEW q \in Seq(S), IsInjective(q), NEW x \in S, x \notin ToSet(q)
  PROVE  /\ Append(q, x) \in Seq(S) /\ IsInjective(Append(q, x))
         /\ ToSet(Append(q, x)) = ToSet(q) \cup {x}
<1> DEFINE p == Append(q, x)
<1>1. /\ p \in Seq(S) /\ Len(p) = Len(q) + 1 /\ p[Len(q) + 1] = x
      /\ \A a \in 1 .. Len(q) : p[a] = q[a]
  OBVIOUS
<1> HIDE DEF p
<1>2. DOMAIN p = 1 .. Len(q) + 1 /\ DOMAIN q = 1 .. Len(q) /\ Len(q) \in Nat
  BY <1>1
<1>3. \A a \in DOMAIN p : a \in 1 .. Len(q) \/ a = Len(q) + 1
  BY <1>2
<1>4. \A a \in 1 .. Len(q) : q[a] # x
  BY InSequence
<1>5. IsInjective(p)
  BY <1>1, <1>2, <1>3, <1>4 DEF IsInjective
<1>6. ToSet(p) = ToSet(q) \cup {x}
  <2>1. \A y : y \in ToSet(p) <=> y \in ToSet(q) \/ y = x
    <3>1. \A y : y \in ToSet(p) <=> \E a \in 1 .. Len(p) : p[a] = y
      BY <1>1, InSequence
    <3>2. \A y : y \in ToSet(q) <=> \E a \in 1 .. Len(q) : q[a] = y
      BY InSequence
    <3>3. QED
      BY <1>1, <1>2, <1>3, <3>1, <3>2
  <2>2. QED
    BY <2>1
<1>7. QED
  BY <1>1, <1>5, <1>6 DEF p

LEMMA TailOnce ==
  ASSUME NEW S, NEW q \in Seq(S), IsInjective(q), q # <<>>
  PROVE  /\ Tail(q) \in Seq(S) /\ IsInjective(Tail(q)) /\ Head(q) \in S
         /\ Head(q) \notin ToSet(Tail(q)) /\ ToSet(q) = ToSet(Tail(q)) \cup {Head(q)}
<1> DEFINE p == Tail(q)
           h == Head(q)
<1>1. /\ p \in Seq(S) /\ Len(p) = Len(q) - 1 /\ h = q[1] /\ h \in S
      /\ \A a \in 1 .. Len(p) : p[a] = q[a + 1]
  OBVIOUS
<1> HIDE DEF p, h
<1>2. /\ DOMAIN p = 1 .. Len(p) /\ DOMAIN q = 1 .. Len(q) /\ Len(q) \in Nat
      /\ \A a \in DOMAIN p : a + 1 \in DOMAIN q
      /\ \A a \in DOMAIN q : a = 1 \/ a - 1 \in DOMAIN p
      /\ 1 \in DOMAIN q
  BY <1>1
<1>3. IsInjective(p)
  <2>1. ASSUME NEW a \in DOMAIN p, NEW b \in DOMAIN p, p[a] = p[b]
        PROVE  a = b
    <3>1. a \in Nat /\ b \in Nat /\ q[a + 1] = q[b + 1]
      BY <1>1, <1>2, <2>1
    <3>2. a + 1 = b + 1
      BY <1>2, <3>1 DEF IsInjective
    <3>3. QED
      BY <3>1, <3>2
  <2>2. QED
    BY <2>1 DEF IsInjective
<1>4. \A y : y \in ToSet(p) <=> \E a \in 1 .. Len(p) : p[a] = y
  BY <1>1, InSequence
<1>5. \A y : y \in ToSet(q) <=> \E a \in 1 .. Len(q) : q[a] = y
  BY InSequence
<1>6. h \notin ToSet(p)
  <2>1. ASSUME NEW a \in 1 .. Len(p), p[a] = h
        PROVE  FALSE
    <3>1. q[a + 1] = q[1] /\ a + 1 \in DOMAIN q /\ a + 1 # 1
      BY <1>1, <1>2, <2>1
    <3>2. QED
      BY <1>2, <3>1 DEF IsInjective
  <2>2. QED
    BY <1>4, <2>1
<1>7. ToSet(q) = ToSet(p) \cup {h}
  <2>1. \A y : y \in ToSet(q) => y \in ToSet(p) \/ y = h
    <3>1. ASSUME NEW a \in 1 .. Len(q), a # 1
          PROVE  q[a] \in ToSet(p)
      <4>1. a - 1 \in 1 .. Len(p) /\ p[a - 1] = q[a]
        BY <1>1, <3>1
      <4>2. QED
        BY <1>4, <4>1
    <3>2. QED
      BY <1>1, <1>5, <3>1
  <2>2. \A y : y \in ToSet(p) \/ y = h => y \in ToSet(q)
    <3>1. \A a \in 1 .. Len(p) : a + 1 \in 1 .. Len(q) /\ p[a] = q[a + 1]
      BY <1>1
    <3>2. 1 \in 1 .. Len(q) /\ h = q[1]
      BY <1>1, <1>2
    <3>3. QED
      BY <1>4, <1>5, <3>1, <3>2
  <2>3. QED
    BY <2>1, <2>2
<1>8. QED
  BY <1>1, <1>3, <1>6, <1>7 DEF p, h

LEMMA CountOnce ==
  ASSUME NEW S, NEW q \in Seq(S), IsInjective(q)
  PROVE  Cardinality(ToSet(q)) = Len(q)
<1>1. q \in Bijection(1 .. Len(q), ToSet(q))
  <2>1. \A y : y \in ToSet(q) <=> \E a \in 1 .. Len(q) : q[a] = y
    BY InSequence
  <2>2. q \in [1 .. Len(q) -> ToSet(q)]
    BY <2>1
  <2>3. DOMAIN q = 1 .. Len(q)
    OBVIOUS
  <2>4. QED
    BY <2>1, <2>2, <2>3 DEF Bijection, Injection, Surjection, IsInjective
<1>2. ExistsBijection(1 .. Len(q), ToSet(q)) /\ Len(q) \in Nat
  BY <1>1 DEF ExistsBijection
<1>3. QED
  BY <1>2, FS_CountingElements

\* From b to c builds may have begun.
Begins(b, c) ==
  \A m \in Layer : c[m] = b[m] \/ (c[m].step = 1 /\ c[m].digest = b[m].digest)

LEMMA BuildBegins ==
  ASSUME NEW b \in Builds, NEW l \in Layer
  PROVE  LET c == [b EXCEPT ![l].step = 1] IN
         c \in Builds /\ Begins(b, c) /\ c[l].step = 1 /\ \A m \in Layer \ {l} : c[m] = b[m]
BY DEF Builds, Begins

\* A layer that nobody had asked for is to be built.
PushedFor(p, l, e) == [Push(p, l) EXCEPT !.layers[l] = e]

LEMMA PushIsRight ==
  ASSUME NEW p, PrepTyped(p), Accounts(p), NEW l \in Layer, p.layers[l].st = "none",
         NEW e \in LayerEntries, e.st = "getting"
  PROVE  LET t == PushedFor(p, l, e) IN
         /\ PrepTyped(t) /\ Accounts(t) /\ Begins(p.building, t.building)
         /\ t.jobs = p.jobs /\ t.failed = p.failed
         /\ t.layers = [p.layers EXCEPT ![l] = e]
<1> DEFINE t == PushedFor(p, l, e)
           ls == [p.layers EXCEPT ![l] = e]
           full == p.pending < MaxPendingLayerBuilds
           b == [p.building EXCEPT ![l].step = 1]
           R == RunningIn(p)
<1>1. /\ DOMAIN t = PrepFields /\ t.layers = ls /\ t.jobs = p.jobs /\ t.failed = p.failed
      /\ t.panic = p.panic
      /\ full => t.building = b /\ t.waiting = p.waiting /\ t.pending = p.pending + 1
      /\ ~full => /\ t.building = p.building /\ t.waiting = Append(p.waiting, l)
                  /\ t.pending = p.pending
  BY DEF PushedFor, Push, Build, PrepTyped, PrepFields
<1>2. ls \in [Layer -> LayerEntries] /\ {m \in Layer : ls[m].st = "getting"}
        = {m \in Layer : p.layers[m].st = "getting"} \cup {l}
  BY DEF PrepTyped
<1>3. b \in Builds /\ Begins(p.building, b) /\ b[l].step = 1
      /\ \A m \in Layer \ {l} : b[m] = p.building[m]
  BY BuildBegins DEF PrepTyped
<1>4. Begins(p.building, p.building)
  BY DEF Begins
<1>5. l \notin R /\ l \notin ToSet(p.waiting)
  BY DEF Accounts
<1>6. R \subseteq Layer /\ IsFiniteSet(R) /\ Cardinality(R) \in Nat /\ p.pending = Cardinality(R)
  BY FS_CardinalityType DEF Accounts, RunningIn
<1>7. MaxPendingLayerBuilds \in Nat
  BY BuildsAssumption
<1> DEFINE Goal == /\ PrepTyped(t) /\ Accounts(t) /\ Begins(p.building, t.building)
                   /\ t.jobs = p.jobs /\ t.failed = p.failed /\ t.layers = ls
<1> HIDE DEF t, ls, b
<1>8. ASSUME full PROVE Goal
  <2>1. t.building = b /\ t.waiting = p.waiting /\ t.pending = p.pending + 1
    BY <1>1, <1>8
  <2>2. RunningIn(t) = R \cup {l}
    BY <1>3, <2>1 DEF RunningIn
  <2>3. IsFiniteSet(R \cup {l}) /\ Cardinality(R \cup {l}) = Cardinality(R) + 1
    BY <1>5, <1>6, FS_AddElement
  <2>4. PrepTyped(t)
    BY <1>1, <1>2, <1>3, <2>1 DEF PrepTyped
  <2>5. p.waiting = <<>>
    BY <1>6, <1>7, <1>8 DEF Accounts
  <2>6. t.pending <= MaxPendingLayerBuilds
    BY <1>6, <1>7, <1>8, <2>1
  <2> HIDE DEF R
  <2>7. Accounts(t)
    <3>1. {m \in Layer : t.layers[m].st = "getting"} = RunningIn(t) \cup ToSet(t.waiting)
      BY <1>1, <1>2, <2>1, <2>2 DEF Accounts, R
    <3>2. ToSet(t.waiting) \cap RunningIn(t) = {}
      BY <1>5, <2>1, <2>2 DEF Accounts, R
    <3>3. t.pending = Cardinality(RunningIn(t))
      BY <1>6, <2>1, <2>2, <2>3
    <3>4. IsInjective(t.waiting)
      BY <2>1 DEF Accounts
    <3>5. QED
      BY <2>1, <2>2, <2>3, <2>5, <2>6, <3>1, <3>2, <3>3, <3>4 DEF Accounts
  <2>8. QED
    BY <1>1, <1>3, <2>1, <2>4, <2>7
<1>9. ASSUME ~full PROVE Goal
  <2>1. t.building = p.building /\ t.waiting = Append(p.waiting, l) /\ t.pending = p.pending
    BY <1>1, <1>9
  <2>2. p.waiting \in Seq(Layer) /\ IsInjective(p.waiting)
    BY DEF PrepTyped, Accounts
  <2>3. /\ t.waiting \in Seq(Layer) /\ IsInjective(t.waiting)
        /\ ToSet(t.waiting) = ToSet(p.waiting) \cup {l}
    BY <1>5, <2>1, <2>2, AppendedOnce
  <2>4. PrepTyped(t)
    BY <1>1, <1>2, <2>1, <2>3 DEF PrepTyped
  <2>5. RunningIn(t) = R
    BY <2>1 DEF RunningIn
  <2>6. t.pending = MaxPendingLayerBuilds
    BY <1>6, <1>7, <1>9, <2>1 DEF Accounts
  <2> HIDE DEF R
  <2>7. Accounts(t)
    <3>1. {m \in Layer : t.layers[m].st = "getting"} = RunningIn(t) \cup ToSet(t.waiting)
      BY <1>1, <1>2, <2>3, <2>5 DEF Accounts, R
    <3>2. ToSet(t.waiting) \cap RunningIn(t) = {}
      BY <1>5, <2>3, <2>5 DEF Accounts, R
    <3>3. QED
      BY <1>6, <1>7, <2>1, <2>3, <2>5, <2>6, <3>1, <3>2 DEF Accounts
  <2>8. QED
    BY <1>1, <1>4, <2>1, <2>4, <2>7
<1>10. QED
  BY <1>8, <1>9 DEF t, ls

\* The build of l has ended with e, and the next may begin.
Popped(p, l, e) ==
  Pop([p EXCEPT !.layers[l] = e, !.building[l] = NotBuilding,
                !.panic = p.layers[l].st # "getting"])

LEMMA PopIsRight ==
  ASSUME NEW p, PrepTyped(p), Accounts(p), NEW l \in RunningIn(p),
         NEW e \in LayerEntries, e.st # "getting"
  PROVE  LET t == Popped(p, l, e) IN
         /\ PrepTyped(t) /\ Accounts(t)
         /\ Begins([p.building EXCEPT ![l] = NotBuilding], t.building)
         /\ t.jobs = p.jobs /\ t.failed = p.failed
         /\ t.layers = [p.layers EXCEPT ![l] = e]
<1> DEFINE s == [p EXCEPT !.layers[l] = e, !.building[l] = NotBuilding,
                          !.panic = p.layers[l].st # "getting"]
           t == Popped(p, l, e)
           ls == [p.layers EXCEPT ![l] = e]
           b == [p.building EXCEPT ![l] = NotBuilding]
           R == RunningIn(p)
           h == Head(p.waiting)
           c == [b EXCEPT ![h].step = 1]
           Goal == /\ PrepTyped(t) /\ Accounts(t) /\ Begins(b, t.building)
                   /\ t.jobs = p.jobs /\ t.failed = p.failed /\ t.layers = ls
<1>1. l \in Layer /\ p.layers[l].st = "getting" /\ l \notin ToSet(p.waiting)
  BY DEF Accounts, RunningIn
<1>2. /\ DOMAIN s = PrepFields /\ s.layers = ls /\ s.jobs = p.jobs /\ s.failed = p.failed
      /\ s.pending = p.pending /\ s.waiting = p.waiting /\ s.building = b
      /\ s.panic = FALSE
  BY <1>1 DEF PrepTyped, PrepFields
<1>3. /\ ls \in [Layer -> LayerEntries]
      /\ {m \in Layer : ls[m].st = "getting"}
           = {m \in Layer : p.layers[m].st = "getting"} \ {l}
  BY <1>1 DEF PrepTyped
<1>4. b \in Builds /\ b[l].step = 0 /\ \A m \in Layer \ {l} : b[m] = p.building[m]
  BY <1>1 DEF PrepTyped, Builds, NotBuilding
<1>5. /\ R \subseteq Layer /\ IsFiniteSet(R) /\ Cardinality(R) \in Nat \ {0}
      /\ p.pending = Cardinality(R) /\ p.pending <= MaxPendingLayerBuilds
      /\ MaxPendingLayerBuilds \in Nat
  <2>1. IsFiniteSet(R) /\ p.pending = Cardinality(R) /\ R # {}
    BY DEF Accounts
  <2>2. QED
    BY <2>1, FS_CardinalityType, FS_EmptySet, BuildsAssumption DEF Accounts, RunningIn
<1>6. IsFiniteSet(R \ {l}) /\ Cardinality(R \ {l}) = Cardinality(R) - 1
  BY <1>5, FS_RemoveElement
<1>7. ASSUME p.waiting # <<>>
      PROVE  Goal
  <2>1. /\ Tail(p.waiting) \in Seq(Layer) /\ IsInjective(Tail(p.waiting)) /\ h \in Layer
        /\ h \notin ToSet(Tail(p.waiting)) /\ ToSet(p.waiting) = ToSet(Tail(p.waiting)) \cup {h}
    BY <1>7, TailOnce DEF PrepTyped, Accounts
  <2>2. h \notin R /\ h # l
    BY <1>1, <2>1 DEF Accounts
  <2>3. /\ DOMAIN t = PrepFields /\ t.layers = ls /\ t.jobs = p.jobs /\ t.failed = p.failed
        /\ t.pending = p.pending /\ t.waiting = Tail(p.waiting) /\ t.building = c
        /\ t.panic = FALSE
    <3> HIDE DEF s, ls, b
    <3>1. t = [s EXCEPT !.waiting = Tail(p.waiting), !.building[h].step = 1]
      BY <1>2, <1>7 DEF Popped, Pop, Build, PrepFields, s
    <3> HIDE DEF t
    <3>2. QED
      BY <1>2, <3>1 DEF PrepFields
  <2>4. /\ c \in Builds /\ Begins(b, c) /\ c[h].step = 1
        /\ \A m \in Layer \ {h} : c[m] = b[m]
    BY <1>4, <2>1, BuildBegins
  <2> HIDE DEF t, ls, b, c, h
  <2>5. RunningIn(t) = (R \ {l}) \cup {h}
    BY <1>1, <1>4, <2>1, <2>2, <2>3, <2>4 DEF RunningIn
  <2>6. /\ IsFiniteSet((R \ {l}) \cup {h})
        /\ Cardinality((R \ {l}) \cup {h}) = Cardinality(R)
    <3> DEFINE Q == R \ {l}
    <3>1. IsFiniteSet(Q) /\ h \notin Q /\ Cardinality(Q) = Cardinality(R) - 1
      BY <1>6, <2>2
    <3> HIDE DEF Q
    <3>2. Cardinality(Q \cup {h}) = Cardinality(Q) + 1 /\ IsFiniteSet(Q \cup {h})
      BY <3>1, FS_AddElement
    <3> HIDE DEF R
    <3>3. QED
      BY <1>5, <3>1, <3>2 DEF Q
  <2>7. PrepTyped(t)
    BY <1>3, <2>1, <2>3, <2>4 DEF PrepTyped
  <2> HIDE DEF R
  <2>8. Accounts(t)
    <3>1. {m \in Layer : t.layers[m].st = "getting"} = RunningIn(t) \cup ToSet(t.waiting)
      BY <1>1, <1>3, <2>1, <2>2, <2>3, <2>5 DEF Accounts, R
    <3>2. ToSet(t.waiting) \cap RunningIn(t) = {}
      BY <2>1, <2>3, <2>5 DEF Accounts, R
    <3>3. QED
      BY <1>5, <1>7, <2>1, <2>3, <2>5, <2>6, <3>1, <3>2 DEF Accounts
  <2>9. QED
    BY <2>3, <2>4, <2>7, <2>8
<1>8. ASSUME p.waiting = <<>>
      PROVE  Goal
  <2>1. /\ DOMAIN t = PrepFields /\ t.layers = ls /\ t.jobs = p.jobs /\ t.failed = p.failed
        /\ t.pending = p.pending - 1 /\ t.waiting = <<>> /\ t.building = b
        /\ t.panic = FALSE
    <3> HIDE DEF s, ls, b
    <3>1. t = [s EXCEPT !.pending = p.pending - 1,
                        !.panic = p.pending \notin 1 .. MaxPendingLayerBuilds]
      BY <1>2, <1>8 DEF Popped, Pop, PrepFields, s
    <3>2. p.pending \in 1 .. MaxPendingLayerBuilds
      BY <1>5
    <3> HIDE DEF t
    <3>3. QED
      BY <1>2, <1>8, <3>1, <3>2 DEF PrepFields
  <2> HIDE DEF t, ls, b
  <2>2. RunningIn(t) = R \ {l}
    BY <1>1, <1>4, <2>1 DEF RunningIn
  <2>3. PrepTyped(t)
    BY <1>3, <1>4, <1>5, <2>1 DEF PrepTyped
  <2>4. ToSet(p.waiting) = {} /\ ToSet(t.waiting) = {} /\ IsInjective(t.waiting)
    BY <1>8, <2>1 DEF ToSet, IsInjective
  <2>5. Begins(b, b)
    BY DEF Begins
  <2> HIDE DEF R
  <2>6. Accounts(t)
    <3>1. {m \in Layer : t.layers[m].st = "getting"} = RunningIn(t) \cup ToSet(t.waiting)
      BY <1>3, <2>1, <2>2, <2>4 DEF Accounts, R
    <3>2. QED
      BY <1>5, <1>6, <2>1, <2>2, <2>4, <3>1 DEF Accounts
  <2>7. QED
    BY <2>1, <2>3, <2>5, <2>6
<1>9. QED
  BY <1>7, <1>8

-----------------------------------------------------------------------------
\* Layers that a job asks for.

LEMMA BeginsTrans ==
  ASSUME NEW b, NEW c, NEW d, Begins(b, c), Begins(c, d)
  PROVE  Begins(b, d)
BY DEF Begins

\* What the layer m has for a place that x was found for, or that waits by w.
FoundRight(ly, x, m, w) ==
  IF x = None THEN ly[m].st = "getting" /\ w \in ly[m].wait ELSE ly[m] = Got(x)

\* From f to g some of the layers ls were asked for, for the job j or its image.
LayersAsked(f, g, j, image, ls) ==
  \A m \in Layer :
    /\ f[m].st \in {"got", "err"} \/ g[m].st \in {"got", "err"} => g[m] = f[m]
    /\ f[m].st = "getting" => g[m].st = "getting" /\ f[m].wait \subseteq g[m].wait
    /\ g[m].st = "getting" =>
         \A w \in g[m].wait : \/ f[m].st = "getting" /\ w \in f[m].wait
                              \/ \E i \in 1 .. Len(ls) : w = <<image, j, i>> /\ ls[i] = m

Asks(p, t, j, image, ls) ==
  /\ PrepTyped(t) /\ Accounts(t) /\ Begins(p.building, t.building)
  /\ t.jobs = p.jobs /\ t.failed = p.failed
  /\ LayersAsked(p.layers, t.layers, j, image, ls)

LEMMA AskedTrans ==
  ASSUME NEW f, NEW g, NEW h, NEW j, NEW image, NEW ls,
         LayersAsked(f, g, j, image, ls), LayersAsked(g, h, j, image, ls)
  PROVE  LayersAsked(f, h, j, image, ls)
<1>1. ASSUME NEW m \in Layer
      PROVE  /\ f[m].st \in {"got", "err"} \/ h[m].st \in {"got", "err"} => h[m] = f[m]
             /\ f[m].st = "getting" => h[m].st = "getting" /\ f[m].wait \subseteq h[m].wait
  BY DEF LayersAsked
<1>2. ASSUME NEW m \in Layer, h[m].st = "getting", NEW w \in h[m].wait
      PROVE  \/ f[m].st = "getting" /\ w \in f[m].wait
             \/ \E i \in 1 .. Len(ls) : w = <<image, j, i>> /\ ls[i] = m
  BY <1>2 DEF LayersAsked
<1>3. QED
  BY <1>1, <1>2 DEF LayersAsked

LEMMA AskedRefl ==
  ASSUME NEW f, NEW j, NEW image, NEW ls
  PROVE  LayersAsked(f, f, j, image, ls)
BY DEF LayersAsked

LEMMA FoundStays ==
  ASSUME NEW f, NEW g, NEW j, NEW image, NEW ls, LayersAsked(f, g, j, image, ls),
         NEW x, NEW m \in Layer, NEW w, FoundRight(f, x, m, w)
  PROVE  FoundRight(g, x, m, w)
BY DEF LayersAsked, FoundRight, Got

\* One more waits for the layer l.
LEMMA OneIsAsked ==
  ASSUME NEW f \in [Layer -> LayerEntries], NEW l \in Layer, f[l].st \in {"none", "getting"},
         NEW j \in Job, NEW image \in BOOLEAN, NEW ls \in Seq(Layer),
         NEW i \in 1 .. Len(ls), ls[i] = l
  PROVE  LET e == Joined(f[l], <<image, j, i>>)
             g == [f EXCEPT ![l] = e]
         IN
         /\ e \in LayerEntries /\ e.st = "getting"
         /\ LayersAsked(f, g, j, image, ls)
         /\ FoundRight(g, None, l, <<image, j, i>>)
<1> DEFINE w == <<image, j, i>>
           W == IF f[l].st = "none" THEN {} ELSE f[l].wait
           e == Joined(f[l], w)
           g == [f EXCEPT ![l] = e]
<1>1. w \in Waiter
  BY DEF Waiter
<1>2. W \in SUBSET Waiter /\ IsFiniteSet(W)
  BY EntryForms, FS_EmptySet
<1>3. W \cup {w} \in SUBSET Waiter /\ IsFiniteSet(W \cup {w})
  BY <1>1, <1>2, FS_AddElement
<1>4. e = Getting(W \cup {w})
  BY DEF Joined
<1>5. e \in LayerEntries /\ e.st = "getting" /\ e.wait = W \cup {w}
  BY <1>3, <1>4, FormsOfEntry
<1>6. g[l] = e /\ \A m \in Layer \ {l} : g[m] = f[m]
  OBVIOUS
<1> HIDE DEF e, g
<1>7. LayersAsked(f, g, j, image, ls)
  <2>1. ASSUME NEW m \in Layer, m # l
        PROVE  g[m] = f[m]
    BY <1>6, <2>1
  <2>2. /\ f[l].st = "getting" => f[l].wait \subseteq e.wait
        /\ \A v \in e.wait : v = w \/ (f[l].st = "getting" /\ v \in f[l].wait)
    BY <1>5
  <2> HIDE DEF W
  <2>3. QED
    BY <1>5, <1>6, <2>1, <2>2 DEF LayersAsked, w
<1>8. FoundRight(g, None, l, w)
  BY <1>5, <1>6 DEF FoundRight
<1>9. QED
  BY <1>5, <1>7, <1>8 DEF e, g

EvalFields == {"p", "found", "err"}

\* The result of evaluate_layers, after n of the layers.
Evaluates(p, j, image, ls, n, r) ==
  /\ DOMAIN r = EvalFields
  /\ Asks(p, r.p, j, image, ls)
  /\ r.err \in BOOLEAN
  /\ ~r.err => /\ r.found \in Seq(Digest \cup {None}) /\ Len(r.found) = n
               /\ \A i \in 1 .. n : FoundRight(r.p.layers, r.found[i], ls[i], <<image, j, i>>)

LEMMA MoreFound ==
  ASSUME NEW p, NEW t, NEW j, NEW image, NEW ls \in Seq(Layer), NEW n \in 1 .. Len(ls), NEW r,
         Evaluates(p, j, image, ls, n - 1, r), ~r.err, NEW x \in Digest \cup {None},
         Asks(p, t, j, image, ls), LayersAsked(r.p.layers, t.layers, j, image, ls),
         FoundRight(t.layers, x, ls[n], <<image, j, n>>), NEW s,
         DOMAIN s = EvalFields, s.p = t, s.found = Append(r.found, x), s.err = FALSE
  PROVE  Evaluates(p, j, image, ls, n, s)
<1>1. /\ r.found \in Seq(Digest \cup {None}) /\ Len(r.found) = n - 1
      /\ \A i \in 1 .. n - 1 : FoundRight(r.p.layers, r.found[i], ls[i], <<image, j, i>>)
  BY DEF Evaluates
<1>2. /\ s.found \in Seq(Digest \cup {None}) /\ Len(s.found) = n
      /\ s.found[n] = x /\ \A i \in 1 .. n - 1 : s.found[i] = r.found[i]
  BY <1>1
<1>3. \A i \in 1 .. n - 1 : FoundRight(t.layers, s.found[i], ls[i], <<image, j, i>>)
  <2>1. ASSUME NEW i \in 1 .. n - 1
        PROVE  FoundRight(t.layers, s.found[i], ls[i], <<image, j, i>>)
    <3>1. i \in 1 .. Len(ls) /\ ls[i] \in Layer
      OBVIOUS
    <3>2. FoundRight(r.p.layers, s.found[i], ls[i], <<image, j, i>>)
      BY <1>1, <1>2
    <3> DEFINE m == ls[i]
               w == <<image, j, i>>
    <3> HIDE DEF m, w
    <3>3. QED
      BY <3>1, <3>2, FoundStays DEF m, w
  <2>2. QED
    BY <2>1
<1>4. \A i \in 1 .. n : i = n \/ i \in 1 .. n - 1
  OBVIOUS
<1>5. QED
  BY <1>2, <1>3, <1>4 DEF Evaluates

LEMMA LayerIsEvaluated ==
  ASSUME NEW p, NEW j \in Job, NEW image \in BOOLEAN, NEW ls \in Seq(Layer),
         NEW n \in 1 .. Len(ls), NEW r, Evaluates(p, j, image, ls, n - 1, r)
  PROVE  Evaluates(p, j, image, ls, n, EvaluateLayer(r, ls[n], <<image, j, n>>))
<1> DEFINE l == ls[n]
           f == r.p.layers
           w == <<image, j, n>>
           e == f[l]
           s == EvaluateLayer(r, l, w)
<1>1. /\ l \in Layer /\ f \in [Layer -> LayerEntries] /\ e \in LayerEntries
      /\ PrepTyped(r.p) /\ Accounts(r.p) /\ DOMAIN r = EvalFields
      /\ Asks(p, r.p, j, image, ls)
  BY DEF Evaluates, Asks, PrepTyped
<1>2. CASE r.err
  <2>1. s = r
    <3>1. r.err = TRUE
      BY <1>2, Zenon DEF Evaluates
    <3>2. QED
      BY <3>1 DEF EvaluateLayer
  <2>2. QED
    BY <1>2, <2>1 DEF Evaluates
<1>3. CASE ~r.err /\ e.st = "err"
  <2>1. s = [r EXCEPT !.err = TRUE]
    BY <1>3 DEF EvaluateLayer
  <2>2. DOMAIN s = EvalFields /\ s.p = r.p /\ s.err = TRUE
    BY <1>1, <2>1 DEF EvalFields
  <2>3. QED
    BY <1>1, <2>2 DEF Evaluates
<1>4. CASE ~r.err /\ e.st = "got"
  <2>1. s = [r EXCEPT !.found = Append(r.found, e.val)]
    BY <1>4 DEF EvaluateLayer
  <2>2. /\ DOMAIN s = EvalFields /\ s.p = r.p /\ s.err = FALSE
        /\ s.found = Append(r.found, e.val)
    BY <1>1, <1>4, <2>1 DEF EvalFields, Evaluates
  <2>3. e.val \in Digest /\ e = Got(e.val) /\ e.val # None
    BY <1>1, <1>4, EntryForms, FilesAssumption
  <2>4. FoundRight(f, e.val, l, w) /\ LayersAsked(f, f, j, image, ls)
    BY <2>3, AskedRefl DEF FoundRight
  <2> HIDE DEF s, e
  <2>5. QED
    BY <1>1, <1>4, <2>2, <2>3, <2>4, MoreFound DEF s, e
<1>5. CASE ~r.err /\ e.st \in {"none", "getting"}
  <2> DEFINE g == [f EXCEPT ![l] = Joined(e, w)]
             pushed == IF e.st = "none" THEN Push(r.p, l) ELSE r.p
             t == [pushed EXCEPT !.layers[l] = Joined(e, w)]
  <2>1. /\ Joined(e, w) \in LayerEntries /\ Joined(e, w).st = "getting"
        /\ LayersAsked(f, g, j, image, ls) /\ FoundRight(g, None, l, w)
    BY <1>1, <1>5, OneIsAsked
  <2>2. s = [r EXCEPT !.p = t, !.found = Append(r.found, None)]
    BY <1>5 DEF EvaluateLayer
  <2>3. /\ PrepTyped(t) /\ Accounts(t) /\ Begins(r.p.building, t.building)
        /\ t.jobs = r.p.jobs /\ t.failed = r.p.failed /\ t.layers = g
    <3>1. CASE e.st = "none"
      <4>1. pushed = Push(r.p, l)
        BY <3>1
      <4> DEFINE J == Joined(e, w)
                 q == r.p
      <4>2. /\ PrepTyped(q) /\ Accounts(q) /\ q.layers[l].st = "none"
            /\ J \in LayerEntries /\ J.st = "getting" /\ l \in Layer
            /\ t = PushedFor(q, l, J) /\ g = [q.layers EXCEPT ![l] = J]
        BY <1>1, <2>1, <3>1, <4>1 DEF PushedFor
      <4> HIDE DEF J, q, g, t, l
      <4>3. QED
        BY <4>2, PushIsRight DEF q
    <3>2. CASE e.st = "getting"
      <4>1. t = [r.p EXCEPT !.layers[l] = Joined(e, w)]
        BY <3>2
      <4>2. /\ DOMAIN t = PrepFields /\ t.layers = g /\ t.jobs = r.p.jobs
            /\ t.pending = r.p.pending /\ t.waiting = r.p.waiting
            /\ t.building = r.p.building /\ t.failed = r.p.failed /\ t.panic = r.p.panic
        BY <1>1, <4>1 DEF PrepTyped, PrepFields
      <4>3. g \in [Layer -> LayerEntries]
        BY <1>1, <2>1
      <4>4. \A m \in Layer : g[m].st = "getting" <=> f[m].st = "getting"
        BY <1>1, <2>1, <3>2
      <4> HIDE DEF t, g, f
      <4>5. PrepTyped(t)
        BY <1>1, <4>2, <4>3 DEF PrepTyped
      <4>6. RunningIn(t) = RunningIn(r.p)
        BY <4>2 DEF RunningIn
      <4>7. {m \in Layer : t.layers[m].st = "getting"} = {m \in Layer : r.p.layers[m].st = "getting"}
        BY <4>2, <4>4 DEF f
      <4>8. Accounts(t)
        BY <1>1, <4>2, <4>6, <4>7 DEF Accounts
      <4>9. QED
        BY <4>2, <4>5, <4>8 DEF Begins
    <3>3. QED
      BY <1>5, <3>1, <3>2
  <2> HIDE DEF t, pushed
  <2>4. DOMAIN s = EvalFields /\ s.p = t /\ s.err = FALSE /\ s.found = Append(r.found, None)
    BY <1>1, <1>5, <2>2 DEF EvalFields, Evaluates
  <2>5. Asks(p, t, j, image, ls)
    <3>1. LayersAsked(p.layers, t.layers, j, image, ls)
      BY <1>1, <2>1, <2>3, AskedTrans DEF Asks
    <3>2. Begins(p.building, t.building)
      BY <1>1, <2>3, BeginsTrans DEF Asks
    <3>3. QED
      BY <1>1, <2>3, <3>1, <3>2 DEF Asks
  <2> HIDE DEF s, g, e
  <2>6. QED
    BY <1>1, <1>5, <2>1, <2>3, <2>4, <2>5, MoreFound DEF s
<1>6. QED
  BY <1>1, <1>2, <1>3, <1>4, <1>5, EntryForms DEF Evaluates

\* evaluate_layers is a fold over the positions of the layers.
LayersEvaluated(base, ls, j, image) ==
  FoldLeft(LAMBDA r, i : EvaluateLayer(r, ls[i], <<image, j, i>>), base, [i \in DOMAIN ls |-> i])

EvaluateStep(p, o, a, x) == EvaluateLayer(a, o.ls[x], <<o.image, o.j, x>>)
EvaluatedIs(r, n, a) == Evaluates(r.p, r.j, r.image, r.ls, n, a)
Evaluating == INSTANCE FoldTheorems WITH Op <- EvaluateStep, Inv <- EvaluatedIs

LEMMA EvaluatedFold ==
  ASSUME NEW base, NEW ls, NEW j, NEW image
  PROVE  LayersEvaluated(base, ls, j, image)
           = Evaluating!Fold(0, [ls |-> ls, j |-> j, image |-> image], base, [i \in DOMAIN ls |-> i])
<1> DEFINE q == [i \in DOMAIN ls |-> i]
<1>1. Evaluating!Fold(0, [ls |-> ls, j |-> j, image |-> image], base, q)
        = FoldLeft(LAMBDA r, i : EvaluateLayer(r, ls[i], <<image, j, i>>), base, q)
  BY DEF Evaluating!Fold, EvaluateStep, FoldLeft, MapThenFoldSet, Max,
         Evaluating!Greatest
<1>2. QED
  BY <1>1, Zenon DEF LayersEvaluated

LEMMA LayersAreEvaluated ==
  ASSUME NEW p, PrepTyped(p), Accounts(p), NEW j \in Job, NEW image \in BOOLEAN,
         NEW ls \in Seq(Layer)
  PROVE  Evaluates(p, j, image, ls, Len(ls), EvaluateLayers(p, ls, j, image))
<1> DEFINE base == [p |-> p, found |-> <<>>, err |-> FALSE]
           q == [i \in DOMAIN ls |-> i]
           r == [p |-> p, j |-> j, image |-> image, ls |-> ls]
           o == [ls |-> ls, j |-> j, image |-> image]
<1>1. q \in Seq(1 .. Len(ls)) /\ Len(q) = Len(ls) /\ \A n \in 1 .. Len(ls) : q[n] = n
  OBVIOUS
<1>2. EvaluatedIs(r, 0, base)
  <2>1. Asks(p, p, j, image, ls)
    BY AskedRefl DEF Asks, Begins
  <2>2. DOMAIN base = EvalFields /\ base.p = p /\ base.found = <<>> /\ base.err = FALSE
    BY DEF EvalFields
  <2>3. base.found \in Seq(Digest \cup {None}) /\ Len(base.found) = 0
    BY <2>2
  <2> HIDE DEF base
  <2>4. Evaluates(p, j, image, ls, 0, base)
    <3>1. \A i \in 1 .. 0 : FALSE
      OBVIOUS
    <3>2. QED
      BY <2>1, <2>2, <2>3, <3>1, Zenon DEF Evaluates
  <2>5. QED
    BY <2>4 DEF EvaluatedIs
<1>3. /\ r.p = p /\ r.j = j /\ r.image = image /\ r.ls = ls
      /\ o.j = j /\ o.image = image /\ o.ls = ls
  OBVIOUS
<1>4. EvaluateLayers(p, ls, j, image) = Evaluating!Fold(0, o, base, q)
  <2>1. EvaluateLayers(p, ls, j, image) = LayersEvaluated(base, ls, j, image)
    BY Zenon DEF EvaluateLayers, LayersEvaluated
  <2>2. QED
    BY <2>1, EvaluatedFold
<1> HIDE DEF base, q, r, o
<1>5. \A a : \A n \in 1 .. Len(q) :
        q[n] \in 1 .. Len(ls) /\ EvaluatedIs(r, n - 1, a) => EvaluatedIs(r, n, EvaluateStep(0, o, a, q[n]))
  <2>1. ASSUME NEW a, NEW n \in 1 .. Len(q), EvaluatedIs(r, n - 1, a)
        PROVE  EvaluatedIs(r, n, EvaluateStep(0, o, a, q[n]))
    <3>1. Evaluates(p, j, image, ls, n - 1, a) /\ n \in 1 .. Len(ls) /\ q[n] = n
      BY <1>1, <1>3, <2>1 DEF EvaluatedIs
    <3>2. Evaluates(p, j, image, ls, n, EvaluateLayer(a, ls[n], <<image, j, n>>))
      BY <3>1, LayerIsEvaluated
    <3>3. QED
      BY <1>3, <3>1, <3>2 DEF EvaluatedIs, EvaluateStep
  <2>2. QED
    BY <2>1
<1>6. EvaluatedIs(r, Len(q), Evaluating!Fold(0, o, base, q))
  BY <1>1, <1>2, <1>5, LeastOf, Evaluating!FoldKeeps
<1>7. QED
  BY <1>1, <1>3, <1>4, <1>6 DEF EvaluatedIs

-----------------------------------------------------------------------------
\* The jobs that the preparer has.

JobFields == {"spec", "imageLayers", "layers"}

\* The waiter w of the layer m has been told nothing: it is on the layer's list,
\* or among those that are left while the layer's list is gone through.
WaitsIn(ly, Left, m, w) ==
  (ly[m].st = "getting" /\ w \in ly[m].wait) \/ <<m, w>> \in Left

PlaceRight(ly, Left, x, m, w) ==
  IF x = None THEN WaitsIn(ly, Left, m, w) ELSE ly[m] = Got(x)

\* What was found for the layers ls, of j's image or its own.
PlacesRight(ly, Left, j, image, ls, found) ==
  /\ found \in Seq(Digest \cup {None}) /\ Len(found) = Len(ls)
  /\ \A i \in 1 .. Len(ls) : PlaceRight(ly, Left, found[i], ls[i], <<image, j, i>>)

JobRight(ly, Left, j, job) ==
  /\ DOMAIN job = JobFields /\ SpecRight(job.spec)
  /\ PlacesRight(ly, Left, j, TRUE, job.spec.imageVal["layers"], job.imageLayers)
  /\ PlacesRight(ly, Left, j, FALSE, job.spec.val["layers"], job.layers)

IsPlace(ls, m, i) == i \in 1 .. Len(ls) /\ ls[i] = m

\* The waiter w of the layer m has the place that it says in the job.
HasPlace(job, m, w) ==
  IF w[1] THEN IsPlace(job.spec.imageVal["layers"], m, w[3])
          ELSE IsPlace(job.spec.val["layers"], m, w[3])

WaiterRight(p, S, m, w) ==
  /\ w \in Waiter /\ w[2] \in S
  /\ p.jobs[w[2]] # NoJob => HasPlace(p.jobs[w[2]], m, w)

\* The preparer has jobs of K, and jobs of S wait for layers, some of which are
\* left to be told.
KeptRight(p, K, S, Left) ==
  /\ PrepTyped(p) /\ Accounts(p) /\ p.failed \subseteq K \cap Job
  /\ \A j \in p.failed : p.jobs[j] = NoJob
  /\ \A j \in Job : p.jobs[j] # NoJob => j \in K /\ JobRight(p.layers, Left, j, p.jobs[j])
  /\ \A m \in Layer : \A w : WaitsIn(p.layers, Left, m, w) => WaiterRight(p, S, m, w)

\* The state u is t with the job j set.
SetTo(t, u, j, job) ==
  /\ DOMAIN u = PrepFields /\ u.layers = t.layers /\ u.pending = t.pending
  /\ u.waiting = t.waiting /\ u.building = t.building /\ u.panic = t.panic
  /\ u.jobs = [t.jobs EXCEPT ![j] = job]

LEMMA AccountsSet ==
  ASSUME NEW t, PrepTyped(t), Accounts(t), NEW u, NEW j, NEW job, SetTo(t, u, j, job)
  PROVE  PrepTyped(u) /\ Accounts(u)
<1>1. PrepTyped(u)
  BY DEF PrepTyped, SetTo
<1>2. RunningIn(u) = RunningIn(t)
  BY DEF RunningIn, SetTo
<1>3. Accounts(u)
  BY <1>2 DEF Accounts, SetTo
<1>4. QED
  BY <1>1, <1>3

\* A place is right still after more was asked for.
LEMMA PlacesStay ==
  ASSUME NEW f, NEW g, NEW j, NEW image, NEW ls, LayersAsked(f, g, j, image, ls),
         NEW Left, NEW k, NEW im, NEW ms \in Seq(Layer), NEW found,
         PlacesRight(f, Left, k, im, ms, found)
  PROVE  PlacesRight(g, Left, k, im, ms, found)
<1>1. ASSUME NEW i \in 1 .. Len(ms)
      PROVE  PlaceRight(g, Left, found[i], ms[i], <<im, k, i>>)
  <2>1. ms[i] \in Layer
    OBVIOUS
  <2>2. PlaceRight(f, Left, found[i], ms[i], <<im, k, i>>)
    BY DEF PlacesRight
  <2> DEFINE m == ms[i]
             w == <<im, k, i>>
             x == found[i]
  <2> HIDE DEF m, w, x
  <2>3. f[m] = Got(x) => g[m] = Got(x)
    BY <2>1 DEF LayersAsked, Got, m
  <2>4. WaitsIn(f, Left, m, w) => WaitsIn(g, Left, m, w)
    BY <2>1 DEF LayersAsked, WaitsIn, m
  <2>5. QED
    BY <2>2, <2>3, <2>4 DEF PlaceRight, m, w, x
<1>2. QED
  BY <1>1 DEF PlacesRight

LEMMA JobStays ==
  ASSUME NEW f, NEW g, NEW j, NEW image, NEW ls, LayersAsked(f, g, j, image, ls),
         NEW Left, NEW k, NEW job, JobRight(f, Left, k, job)
  PROVE  JobRight(g, Left, k, job)
<1> DEFINE ms == job.spec.imageVal["layers"]
           ns == job.spec.val["layers"]
           x == job.imageLayers
           y == job.layers
<1>1. /\ ms \in Seq(Layer) /\ ns \in Seq(Layer)
      /\ PlacesRight(f, Left, k, TRUE, ms, x) /\ PlacesRight(f, Left, k, FALSE, ns, y)
  BY DEF JobRight, SpecRight
<1> HIDE DEF ms, ns, x, y
<1>2. PlacesRight(g, Left, k, TRUE, ms, x) /\ PlacesRight(g, Left, k, FALSE, ns, y)
  BY <1>1, PlacesStay
<1>3. QED
  BY <1>2 DEF JobRight, ms, ns, x, y

LEMMA JobIsSet ==
  ASSUME NEW K, NEW S, NEW Left, NEW p, KeptRight(p, K, S, Left),
         NEW j \in Job, j \in K, NEW image, NEW ls \in Seq(Layer),
         NEW t, Asks(p, t, j, image, ls), NEW u, NEW job, SetTo(t, u, j, job),
         u.failed \in {t.failed, t.failed \cup {j}},
         job # NoJob => /\ j \notin u.failed /\ JobRight(t.layers, Left, j, job)
                        /\ \A m \in Layer : \A w :
                             WaitsIn(t.layers, Left, m, w) /\ w[2] = j => HasPlace(job, m, w),
         \A i \in 1 .. Len(ls) : <<image, j, i>> \in Waiter /\ j \in S
  PROVE  KeptRight(u, K, S, Left)
<1>1. PrepTyped(u) /\ Accounts(u)
  BY AccountsSet DEF Asks
<1>2. /\ u.jobs[j] = job /\ \A k \in Job \ {j} : u.jobs[k] = p.jobs[k]
      /\ u.layers = t.layers /\ t.failed = p.failed
  BY DEF SetTo, Asks, PrepTyped, KeptRight
<1>3. u.failed \subseteq K \cap Job
  BY <1>2 DEF KeptRight
<1>4. \A k \in u.failed : u.jobs[k] = NoJob
  <2>1. p.failed \subseteq Job
    BY DEF KeptRight
  <2>2. QED
    BY <1>2, <2>1 DEF KeptRight
<1>5. ASSUME NEW k \in Job, u.jobs[k] # NoJob
      PROVE  k \in K /\ JobRight(u.layers, Left, k, u.jobs[k])
  <2>1. CASE k = j
    BY <1>2, <1>5, <2>1
  <2>2. CASE k # j
    <3>1. k \in K /\ JobRight(p.layers, Left, k, p.jobs[k]) /\ u.jobs[k] = p.jobs[k]
      BY <1>2, <1>5, <2>2 DEF KeptRight
    <3>2. QED
      BY <1>2, <3>1, JobStays DEF Asks
  <2>3. QED
    BY <2>1, <2>2
<1>6. ASSUME NEW m \in Layer, NEW w, WaitsIn(u.layers, Left, m, w)
      PROVE  WaiterRight(u, S, m, w)
  <2>1. CASE WaitsIn(p.layers, Left, m, w)
    <3>1. WaiterRight(p, S, m, w)
      BY <2>1 DEF KeptRight
    <3>2. w[2] \in Job
      BY <3>1 DEF WaiterRight, Waiter
    <3>3. QED
      BY <1>2, <1>6, <3>1, <3>2 DEF WaiterRight
  <2>2. CASE ~WaitsIn(p.layers, Left, m, w)
    <3>1. PICK i \in 1 .. Len(ls) : w = <<image, j, i>> /\ ls[i] = m
      BY <1>2, <1>6, <2>2 DEF WaitsIn, Asks, LayersAsked
    <3>2. w[2] = j /\ w \in Waiter /\ j \in S
      BY <3>1
    <3>3. QED
      BY <1>2, <1>6, <3>2 DEF WaiterRight
  <2>3. QED
    BY <2>1, <2>2
<1>7. QED
  BY <1>1, <1>3, <1>4, <1>5, <1>6 DEF KeptRight

\* What a handler does to layers and builds: those that are there stay, and
\* more builds may begin.
Progress(p, t) ==
  /\ Begins(p.building, t.building)
  /\ \A m \in Layer : p.layers[m].st \in {"got", "err"} \/ t.layers[m].st \in {"got", "err"}
                        => t.layers[m] = p.layers[m]

\* No job but j is touched, and j is not lost.
Touches(p, t, j) ==
  /\ \A k \in Job \ {j} : t.jobs[k] = p.jobs[k]
  /\ p.failed \subseteq t.failed
  /\ p.jobs[j] # NoJob => t.jobs[j] # NoJob \/ j \in t.failed

LEMMA JobErrorIsRight ==
  ASSUME NEW K, NEW S, NEW Left, NEW p, KeptRight(p, K, S, Left), NEW j \in Job
  PROVE  LET t == JobError(p, j) IN
         /\ KeptRight(t, K, S, Left) /\ Progress(p, t) /\ Touches(p, t, j)
         /\ t.jobs[j] = NoJob /\ t.layers = p.layers
<1> DEFINE t == JobError(p, j)
           u == [p EXCEPT !.jobs[j] = NoJob, !.failed = @ \cup {j}]
<1>1. Progress(p, p) /\ Touches(p, p, j)
  BY DEF Progress, Touches, Begins
<1>2. CASE p.jobs[j] = NoJob
  BY <1>1, <1>2 DEF JobError
<1>3. CASE p.jobs[j] # NoJob
  <2>1. t = u
    BY <1>3 DEF JobError
  <2>2. SetTo(p, u, j, NoJob) /\ u.failed = p.failed \cup {j}
    BY DEF KeptRight, PrepTyped, PrepFields, SetTo
  <2>3. Asks(p, p, j, TRUE, <<>>)
    BY AskedRefl DEF Asks, Begins, KeptRight
  <2>4. j \in K
    BY <1>3 DEF KeptRight
  <2> HIDE DEF u
  <2>5. KeptRight(u, K, S, Left)
    <3>1. <<>> \in Seq(Layer) /\ \A i \in 1 .. Len(<<>>) : <<TRUE, j, i>> \in Waiter /\ j \in S
      OBVIOUS
    <3> DEFINE ls == <<>>
               job == NoJob
    <3>2. ls \in Seq(Layer) /\ \A i \in 1 .. Len(ls) : <<TRUE, j, i>> \in Waiter /\ j \in S
      BY <3>1
    <3>3. Asks(p, p, j, TRUE, ls) /\ SetTo(p, u, j, job) /\ job = NoJob
      BY <2>2, <2>3
    <3> HIDE DEF ls, job
    <3>4. QED
      BY <2>2, <2>4, <3>2, <3>3, JobIsSet
  <2>6. u.layers = p.layers /\ u.building = p.building /\ u.jobs = [p.jobs EXCEPT ![j] = NoJob]
    BY <2>2 DEF SetTo
  <2>7. Progress(p, u) /\ Touches(p, u, j) /\ u.jobs[j] = NoJob
    BY <2>2, <2>6 DEF Progress, Touches, Begins, KeptRight, PrepTyped
  <2>8. QED
    BY <2>1, <2>5, <2>6, <2>7
<1>4. QED
  BY <1>2, <1>3

\* Two states of the preparer that are the same, field by field.
Same(p, q) ==
  /\ DOMAIN q = PrepFields /\ q.layers = p.layers /\ q.jobs = p.jobs /\ q.pending = p.pending
  /\ q.waiting = p.waiting /\ q.building = p.building /\ q.failed = p.failed /\ q.panic = FALSE

LEMMA SameIsRight ==
  ASSUME NEW K, NEW S, NEW Left, NEW p, KeptRight(p, K, S, Left), NEW q, Same(p, q)
  PROVE  KeptRight(q, K, S, Left)
<1>1. PrepTyped(q) /\ RunningIn(q) = RunningIn(p)
  BY DEF KeptRight, PrepTyped, Same, RunningIn
<1>2. Accounts(q)
  BY <1>1 DEF KeptRight, Accounts, Same
<1>3. QED
  BY <1>1, <1>2 DEF KeptRight, Same, WaiterRight

\* The layers of the image are found, or the job waits for them too.
LEMMA ImageIsRight ==
  ASSUME NEW K, NEW S, NEW p, KeptRight(p, K, S, {}), NEW j \in Job, j \in S, NEW i \in Image,
         p.jobs[j] # NoJob => p.jobs[j].spec.image # None
  PROVE  LET t == GotImageSuccess(p, j, Contents[i]) IN
         /\ KeptRight(t, K, S, {}) /\ Progress(p, t) /\ Touches(p, t, j)
         /\ t.jobs[j] # NoJob => t.jobs[j].spec.image = None
<1> DEFINE job == p.jobs[j]
           spec == IntegrateImage(job.spec, Contents[i])
           a == [p EXCEPT !.panic = @ \/ ~MayIntegrate(job.spec)]
           ls == spec.imageVal["layers"]
           r == EvaluateLayers(a, ls, j, TRUE)
           t == GotImageSuccess(p, j, Contents[i])
           Goal == /\ KeptRight(t, K, S, {}) /\ Progress(p, t) /\ Touches(p, t, j)
                   /\ t.jobs[j] # NoJob => t.jobs[j].spec.image = None
<1>1. ASSUME job = NoJob PROVE Goal
  <2>1. t = p
    BY <1>1 DEF GotImageSuccess
  <2>2. Progress(p, p) /\ Touches(p, p, j)
    BY DEF Progress, Touches, Begins
  <2>3. QED
    BY <1>1, <2>1, <2>2
<1>2. ASSUME job # NoJob PROVE Goal
  <2>1. /\ j \in K /\ JobRight(p.layers, {}, j, job) /\ SpecRight(job.spec)
        /\ MayIntegrate(job.spec) /\ job.spec.imageVal["layers"] = <<>>
    BY <1>2 DEF KeptRight, JobRight, SpecRight, ImageRight
  <2>2. Same(p, a)
    BY <2>1 DEF Same, KeptRight, PrepTyped, PrepFields
  <2>3. KeptRight(a, K, S, {}) /\ a.jobs = p.jobs /\ a.layers = p.layers
        /\ a.building = p.building /\ a.failed = p.failed
    BY <2>2, SameIsRight DEF Same
  <2>4. t = IF spec = None THEN JobError(a, j)
            ELSE IF r.err THEN JobError(r.p, j)
            ELSE [r.p EXCEPT !.jobs[j].spec = spec, !.jobs[j].imageLayers = r.found]
    BY <1>2 DEF GotImageSuccess
  <2>5. spec # None => SpecRight(spec) /\ spec.image = None
                       /\ spec.val["layers"] = job.spec.val["layers"]
    BY <2>1, IntegratedIsRight
  <2> HIDE DEF a, spec, t, job
  <2>6. CASE spec = None
    <3>1. t = JobError(a, j)
      BY <2>4, <2>6
    <3>2. KeptRight(t, K, S, {}) /\ Progress(a, t) /\ Touches(a, t, j) /\ t.jobs[j] = NoJob
      BY <2>3, <3>1, JobErrorIsRight
    <3>3. QED
      BY <2>3, <3>2 DEF Progress, Touches
  <2>7. CASE spec # None
    <3>1. ls \in Seq(Layer) /\ SpecRight(spec) /\ spec.image = None
          /\ spec.val["layers"] = job.spec.val["layers"]
      BY <2>5, <2>7 DEF SpecRight
    <3>2. Evaluates(a, j, TRUE, ls, Len(ls), r)
      BY <2>3, <3>1, LayersAreEvaluated DEF KeptRight
    <3>3. /\ Asks(a, r.p, j, TRUE, ls) /\ r.err \in BOOLEAN
          /\ ~r.err => /\ r.found \in Seq(Digest \cup {None}) /\ Len(r.found) = Len(ls)
                       /\ \A n \in 1 .. Len(ls) :
                            FoundRight(r.p.layers, r.found[n], ls[n], <<TRUE, j, n>>)
      BY <3>2, Zenon DEF Evaluates
    <3> DEFINE q == r.p
    <3>5. /\ r.p = q /\ DOMAIN q = PrepFields /\ q.jobs = a.jobs /\ q.failed = a.failed
          /\ q.jobs[j] = job /\ Asks(a, q, j, TRUE, ls)
      BY <2>3, <3>3 DEF Asks, PrepTyped, job
    <3> HIDE DEF ls, r, q
    <3>4. \A n \in 1 .. Len(ls) : <<TRUE, j, n>> \in Waiter /\ j \in S
      <4>1. \A n \in 1 .. Len(ls) : n \in Nat \ {0}
        BY <3>1
      <4>2. QED
        BY <4>1 DEF Waiter
    <3>6. Progress(a, q)
      BY <3>5 DEF Asks, LayersAsked, Progress
    <3>7. CASE r.err
      <4> DEFINE u == [q EXCEPT !.jobs[j] = NoJob, !.failed = @ \cup {j}]
                 none == NoJob
      <4>1. t = u
        BY <1>2, <2>4, <2>7, <3>5, <3>7 DEF JobError
      <4>2. SetTo(q, u, j, none) /\ u.failed = q.failed \cup {j} /\ none = NoJob
        BY <3>5 DEF SetTo, PrepFields
      <4> HIDE DEF u, none
      <4>3. KeptRight(u, K, S, {})
        BY <2>1, <2>3, <3>1, <3>3, <3>4, <3>5, <4>2, JobIsSet
      <4>4. /\ u.layers = q.layers /\ u.building = q.building
            /\ u.jobs = [a.jobs EXCEPT ![j] = NoJob] /\ DOMAIN a.jobs = Job
        BY <2>3, <3>5, <4>2 DEF SetTo, KeptRight, PrepTyped
      <4>5. Progress(p, u)
        BY <2>3, <3>6, <4>4 DEF Progress
      <4>6. Touches(p, u, j) /\ u.jobs[j] = NoJob
        BY <2>3, <3>5, <4>2, <4>4 DEF Touches
      <4>7. QED
        BY <4>1, <4>3, <4>5, <4>6
    <3>8. CASE ~r.err
      <4> DEFINE new == [job EXCEPT !.spec = spec, !.imageLayers = r.found]
                 u == [q EXCEPT !.jobs[j].spec = spec, !.jobs[j].imageLayers = r.found]
      <4>1. t = u
        BY <2>4, <2>7, <3>5, <3>8
      <4>2. /\ DOMAIN new = JobFields /\ new.spec = spec /\ new.imageLayers = r.found
            /\ new.layers = job.layers /\ new # NoJob
        BY <2>1, <2>7 DEF JobRight, JobFields, NoJob
      <4>3. SetTo(q, u, j, new) /\ u.failed = q.failed
        BY <3>5 DEF SetTo, PrepFields
      <4> HIDE DEF u, new
      <4>4. JobRight(q.layers, {}, j, new)
        <5>1. PlacesRight(q.layers, {}, j, TRUE, ls, r.found)
          BY <3>3, <3>5, <3>8 DEF PlacesRight, PlaceRight, FoundRight, WaitsIn
        <5>2. JobRight(q.layers, {}, j, job)
          <6>1. JobRight(a.layers, {}, j, job) /\ LayersAsked(a.layers, q.layers, j, TRUE, ls)
            BY <2>1, <2>3, <3>5 DEF Asks
          <6>2. QED
            BY <6>1, JobStays
        <5>3. QED
          BY <3>1, <4>2, <5>1, <5>2 DEF JobRight, ls
      <4>5. \A m \in Layer : \A w : WaitsIn(q.layers, {}, m, w) /\ w[2] = j => HasPlace(new, m, w)
        <5>1. ASSUME NEW m \in Layer, NEW w, WaitsIn(q.layers, {}, m, w), w[2] = j
              PROVE  HasPlace(new, m, w)
          <6>1. CASE WaitsIn(a.layers, {}, m, w)
            <7>1. WaiterRight(a, S, m, w)
              BY <2>3, <6>1 DEF KeptRight
            <7>2. HasPlace(job, m, w)
              BY <1>2, <2>3, <5>1, <7>1 DEF WaiterRight, job
            <7>3. ~w[1] /\ IsPlace(job.spec.val["layers"], m, w[3])
              BY <2>1, <7>2 DEF HasPlace, IsPlace
            <7>4. QED
              BY <3>1, <4>2, <7>3 DEF HasPlace
          <6>2. CASE ~WaitsIn(a.layers, {}, m, w)
            <7>1. /\ q.layers[m].st = "getting" /\ w \in q.layers[m].wait
                  /\ ~(a.layers[m].st = "getting" /\ w \in a.layers[m].wait)
              BY <5>1, <6>2 DEF WaitsIn
            <7>2. LayersAsked(a.layers, q.layers, j, TRUE, ls)
              BY <3>5 DEF Asks
            <7>3. PICK n \in 1 .. Len(ls) : w = <<TRUE, j, n>> /\ ls[n] = m
              BY <7>1, <7>2 DEF LayersAsked
            <7>4. IsPlace(ls, m, n)
              BY <7>3 DEF IsPlace
            <7>5. QED
              BY <4>2, <7>3, <7>4 DEF HasPlace, ls
          <6>3. QED
            BY <6>1, <6>2
        <5>2. QED
          BY <5>1
      <4>6. j \notin u.failed
        BY <1>2, <2>3, <3>5, <4>3 DEF KeptRight, job
      <4>7. KeptRight(u, K, S, {})
        BY <2>1, <2>3, <3>1, <3>3, <3>4, <3>5, <4>3, <4>4, <4>5, <4>6, JobIsSet
      <4>8. /\ u.layers = q.layers /\ u.building = q.building
            /\ u.jobs = [a.jobs EXCEPT ![j] = new] /\ DOMAIN a.jobs = Job
        BY <2>3, <3>5, <4>3 DEF SetTo, KeptRight, PrepTyped
      <4>9. Progress(p, u)
        BY <2>3, <3>6, <4>8 DEF Progress
      <4>10. Touches(p, u, j) /\ u.jobs[j] = new /\ new.spec.image = None
        BY <2>3, <3>1, <3>5, <4>2, <4>3, <4>8 DEF Touches
      <4>11. QED
        BY <4>1, <4>7, <4>9, <4>10
    <3>9. QED
      BY <3>7, <3>8
  <2>8. QED
    BY <2>6, <2>7
<1>3. QED
  BY <1>1, <1>2

LEMMA ProgressTrans ==
  ASSUME NEW p, NEW q, NEW t, Progress(p, q), Progress(q, t)
  PROVE  Progress(p, t)
<1>1. Begins(p.building, t.building)
  BY BeginsTrans DEF Progress
<1>2. QED
  BY <1>1 DEF Progress

LEMMA ProgressRefl ==
  ASSUME NEW p
  PROVE  Progress(p, p)
BY DEF Progress, Begins

\* Of the jobs in the list q, the first n have been told of their image: they
\* are gone, or lack the image no more.
ImageTold(p, K, S, q, n, a) ==
  /\ KeptRight(a, K, S, {}) /\ Progress(p, a)
  /\ \A k \in Job : (\A m \in 1 .. n : q[m] # k) => a.jobs[k] = p.jobs[k]
  /\ \A k \in Job : p.jobs[k] = NoJob => a.jobs[k] = NoJob
  /\ \A m \in 1 .. n : a.jobs[q[m]] # NoJob => a.jobs[q[m]].spec.image = None

ImagesTold(base, q, i) == FoldLeft(LAMBDA p, j : GotImageSuccess(p, j, Contents[i]), base, q)

TellStep(p, o, a, x) == GotImageSuccess(a, x, Contents[o])
ToldIs(r, n, a) == ImageTold(r.p, r.K, r.S, r.q, n, a)
Telling == INSTANCE FoldTheorems WITH Op <- TellStep, Inv <- ToldIs

LEMMA ToldFold ==
  ASSUME NEW base, NEW q, NEW i
  PROVE  ImagesTold(base, q, i) = Telling!Fold(0, i, base, q)
<1>1. Telling!Fold(0, i, base, q) = FoldLeft(LAMBDA p, j : GotImageSuccess(p, j, Contents[i]), base, q)
  BY DEF Telling!Fold, TellStep, FoldLeft, MapThenFoldSet, Max,
         Telling!Greatest
<1>2. QED
  BY <1>1, Zenon DEF ImagesTold

LEMMA OneIsTold ==
  ASSUME NEW K, NEW S, NEW p, NEW q \in Seq(Job), IsInjective(q), NEW i \in Image,
         \A m \in 1 .. Len(q) : q[m] \in S /\ (p.jobs[q[m]] # NoJob => p.jobs[q[m]].spec.image # None),
         NEW n \in 1 .. Len(q), NEW a, ImageTold(p, K, S, q, n - 1, a)
  PROVE  ImageTold(p, K, S, q, n, GotImageSuccess(a, q[n], Contents[i]))
<1> DEFINE j == q[n]
           t == GotImageSuccess(a, j, Contents[i])
<1>1. j \in Job /\ j \in S /\ \A m \in 1 .. n - 1 : q[m] # j /\ q[m] \in Job
  <2>1. \A m \in 1 .. n - 1 : m \in DOMAIN q /\ n \in DOMAIN q /\ m # n
    OBVIOUS
  <2>2. QED
    BY <2>1 DEF IsInjective
<1>2. a.jobs[j] = p.jobs[j]
  BY <1>1 DEF ImageTold
<1>3. a.jobs[j] # NoJob => a.jobs[j].spec.image # None
  BY <1>2
<1> HIDE DEF j
<1>4. /\ KeptRight(t, K, S, {}) /\ Progress(a, t) /\ Touches(a, t, j)
      /\ t.jobs[j] # NoJob => t.jobs[j].spec.image = None
  BY <1>1, <1>3, ImageIsRight DEF ImageTold
<1>9. a.jobs[j] = NoJob => t = a
  BY DEF GotImageSuccess
<1> HIDE DEF t
<1>5. Progress(p, t)
  BY <1>4, ProgressTrans DEF ImageTold
<1>6. ASSUME NEW k \in Job, \A m \in 1 .. n : q[m] # k
      PROVE  t.jobs[k] = p.jobs[k]
  <2>1. k # j /\ \A m \in 1 .. n - 1 : q[m] # k
    <3>1. n \in 1 .. n /\ \A m \in 1 .. n - 1 : m \in 1 .. n
      OBVIOUS
    <3>2. QED
      BY <1>6, <3>1 DEF j
  <2>2. QED
    BY <1>4, <2>1 DEF ImageTold, Touches
<1>7. ASSUME NEW m \in 1 .. n, t.jobs[q[m]] # NoJob
      PROVE  t.jobs[q[m]].spec.image = None
  <2>1. CASE m = n
    BY <1>4, <1>7, <2>1 DEF j
  <2>2. CASE m # n
    <3>1. m \in 1 .. n - 1
      BY <2>2
    <3>2. t.jobs[q[m]] = a.jobs[q[m]]
      BY <1>1, <1>4, <3>1 DEF Touches
    <3>3. QED
      BY <1>7, <3>1, <3>2 DEF ImageTold
  <2>3. QED
    BY <2>1, <2>2
<1>8. \A k \in Job : p.jobs[k] = NoJob => t.jobs[k] = NoJob
  BY <1>2, <1>4, <1>9 DEF ImageTold, Touches
<1>10. QED
  BY <1>4, <1>5, <1>6, <1>7, <1>8 DEF ImageTold, j, t

LEMMA AllAreTold ==
  ASSUME NEW K, NEW S, NEW p, KeptRight(p, K, S, {}), NEW q \in Seq(Job), IsInjective(q),
         NEW i \in Image,
         \A m \in 1 .. Len(q) : q[m] \in S /\ (p.jobs[q[m]] # NoJob => p.jobs[q[m]].spec.image # None)
  PROVE  ImageTold(p, K, S, q, Len(q), ImagesTold(p, q, i))
<1> DEFINE r == [p |-> p, K |-> K, S |-> S, q |-> q]
<1>1. r.p = p /\ r.K = K /\ r.S = S /\ r.q = q
  OBVIOUS
<1> HIDE DEF r
<1>2. ToldIs(r, 0, p)
  <2>1. Progress(p, p)
    BY ProgressRefl
  <2>2. \A m \in 1 .. 0 : FALSE
    OBVIOUS
  <2>3. ImageTold(p, K, S, q, 0, p)
    BY <2>1, <2>2, Zenon DEF ImageTold
  <2>4. QED
    BY <1>1, <2>3 DEF ToldIs
<1>3. \A a : \A n \in 1 .. Len(q) :
        q[n] \in Job /\ ToldIs(r, n - 1, a) => ToldIs(r, n, TellStep(0, i, a, q[n]))
  <2>1. ASSUME NEW a, NEW n \in 1 .. Len(q), ToldIs(r, n - 1, a)
        PROVE  ToldIs(r, n, TellStep(0, i, a, q[n]))
    <3>1. ImageTold(p, K, S, q, n - 1, a)
      BY <1>1, <2>1 DEF ToldIs
    <3>2. ImageTold(p, K, S, q, n, GotImageSuccess(a, q[n], Contents[i]))
      BY <3>1, OneIsTold
    <3>3. QED
      BY <1>1, <3>2 DEF ToldIs, TellStep
  <2>2. QED
    BY <2>1
<1>4. ToldIs(r, Len(q), Telling!Fold(0, i, p, q))
  BY <1>2, <1>3, LeastOf, Telling!FoldKeeps
<1>5. QED
  BY <1>1, <1>4, ToldFold DEF ToldIs

\* The first n of the jobs in the list q have failed for want of their image.
JobsFailed(p, K, S, q, n, a) ==
  /\ KeptRight(a, K, S, {}) /\ Progress(p, a) /\ a.layers = p.layers
  /\ \A k \in Job : (\A m \in 1 .. n : q[m] # k) => a.jobs[k] = p.jobs[k]
  /\ \A m \in 1 .. n : a.jobs[q[m]] = NoJob

AllFailed(base, q) == FoldLeft(JobError, base, q)

FailStep(p, o, a, x) == JobError(a, x)
FailedIs(r, n, a) == JobsFailed(r.p, r.K, r.S, r.q, n, a)
Failing == INSTANCE FoldTheorems WITH Op <- FailStep, Inv <- FailedIs

LEMMA FailedFold ==
  ASSUME NEW base, NEW q
  PROVE  AllFailed(base, q) = Failing!Fold(0, 0, base, q)
<1>1. Failing!Fold(0, 0, base, q) = FoldLeft(JobError, base, q)
  BY DEF Failing!Fold, FailStep, FoldLeft, MapThenFoldSet, Max,
         Failing!Greatest
<1>2. QED
  BY <1>1, Zenon DEF AllFailed

LEMMA OneHasFailed ==
  ASSUME NEW K, NEW S, NEW p, NEW q \in Seq(Job),
         NEW n \in 1 .. Len(q), NEW a, JobsFailed(p, K, S, q, n - 1, a)
  PROVE  JobsFailed(p, K, S, q, n, JobError(a, q[n]))
<1> DEFINE j == q[n]
           t == JobError(a, j)
<1>1. j \in Job /\ \A m \in 1 .. n : q[m] \in Job
  OBVIOUS
<1> HIDE DEF j
<1>2. /\ KeptRight(t, K, S, {}) /\ Progress(a, t) /\ Touches(a, t, j)
      /\ t.jobs[j] = NoJob /\ t.layers = a.layers
  BY <1>1, JobErrorIsRight DEF JobsFailed
<1> HIDE DEF t
<1>3. Progress(p, t) /\ t.layers = p.layers
  BY <1>2, ProgressTrans DEF JobsFailed
<1>4. ASSUME NEW k \in Job, \A m \in 1 .. n : q[m] # k
      PROVE  t.jobs[k] = p.jobs[k]
  <2>1. k # j /\ \A m \in 1 .. n - 1 : q[m] # k
    <3>1. n \in 1 .. n /\ \A m \in 1 .. n - 1 : m \in 1 .. n
      OBVIOUS
    <3>2. QED
      BY <1>4, <3>1 DEF j
  <2>2. QED
    BY <1>2, <2>1 DEF JobsFailed, Touches
<1>5. ASSUME NEW m \in 1 .. n
      PROVE  t.jobs[q[m]] = NoJob
  <2>1. CASE q[m] = j
    BY <1>2, <2>1
  <2>2. CASE q[m] # j
    <3>1. m \in 1 .. n - 1
      BY <2>2 DEF j
    <3>2. t.jobs[q[m]] = a.jobs[q[m]]
      BY <1>1, <1>2, <2>2 DEF Touches
    <3>3. QED
      BY <3>1, <3>2 DEF JobsFailed
  <2>3. QED
    BY <2>1, <2>2
<1>6. QED
  BY <1>2, <1>3, <1>4, <1>5 DEF JobsFailed, j, t

LEMMA AllHaveFailed ==
  ASSUME NEW K, NEW S, NEW p, KeptRight(p, K, S, {}), NEW q \in Seq(Job)
  PROVE  JobsFailed(p, K, S, q, Len(q), AllFailed(p, q))
<1> DEFINE r == [p |-> p, K |-> K, S |-> S, q |-> q]
<1>1. r.p = p /\ r.K = K /\ r.S = S /\ r.q = q
  OBVIOUS
<1> HIDE DEF r
<1>2. FailedIs(r, 0, p)
  <2>1. Progress(p, p)
    BY ProgressRefl
  <2>2. \A m \in 1 .. 0 : FALSE
    OBVIOUS
  <2>3. JobsFailed(p, K, S, q, 0, p)
    BY <2>1, <2>2, Zenon DEF JobsFailed
  <2>4. QED
    BY <1>1, <2>3 DEF FailedIs
<1>3. \A a : \A n \in 1 .. Len(q) :
        q[n] \in Job /\ FailedIs(r, n - 1, a) => FailedIs(r, n, FailStep(0, 0, a, q[n]))
  <2>1. ASSUME NEW a, NEW n \in 1 .. Len(q), FailedIs(r, n - 1, a)
        PROVE  FailedIs(r, n, FailStep(0, 0, a, q[n]))
    <3>1. JobsFailed(p, K, S, q, n - 1, a)
      BY <1>1, <2>1 DEF FailedIs
    <3>2. JobsFailed(p, K, S, q, n, JobError(a, q[n]))
      BY <3>1, OneHasFailed
    <3>3. QED
      BY <1>1, <3>2 DEF FailedIs, FailStep
  <2>2. QED
    BY <2>1
<1>4. FailedIs(r, Len(q), Failing!Fold(0, 0, p, q))
  BY <1>2, <1>3, LeastOf, Failing!FoldKeeps
<1>5. QED
  BY <1>1, <1>4, FailedFold DEF FailedIs

\* One that waits for the layer l is told.
LEMMA OtherPlaces ==
  ASSUME NEW ly, NEW Left, NEW l, NEW w, NEW k, NEW im, NEW ls, NEW found,
         PlacesRight(ly, Left \cup {<<l, w>>}, k, im, ls, found), k # w[2] \/ im # w[1]
  PROVE  PlacesRight(ly, Left, k, im, ls, found)
<1>1. ASSUME NEW i \in 1 .. Len(ls)
      PROVE  PlaceRight(ly, Left, found[i], ls[i], <<im, k, i>>)
  <2> DEFINE v == <<im, k, i>>
  <2>1. v # w
    OBVIOUS
  <2>2. PlaceRight(ly, Left \cup {<<l, w>>}, found[i], ls[i], v)
    BY DEF PlacesRight
  <2> HIDE DEF v
  <2>3. <<ls[i], v>> # <<l, w>>
    BY <2>1
  <2>4. QED
    BY <2>2, <2>3 DEF PlaceRight, WaitsIn, v
<1>2. QED
  BY <1>1 DEF PlacesRight

LEMMA FilledPlaces ==
  ASSUME NEW ly, NEW Left, NEW l, NEW d \in Digest, ly[l] = Got(d), NEW k, NEW im,
         NEW ls, NEW found, NEW n \in 1 .. Len(ls), ls[n] = l,
         PlacesRight(ly, Left \cup {<<l, <<im, k, n>> >>}, k, im, ls, found)
  PROVE  n \in DOMAIN found /\ PlacesRight(ly, Left, k, im, ls, [found EXCEPT ![n] = d])
<1> DEFINE f == [found EXCEPT ![n] = d]
<1>1. found \in Seq(Digest \cup {None}) /\ Len(found) = Len(ls)
  BY DEF PlacesRight
<1>2. f \in Seq(Digest \cup {None}) /\ Len(f) = Len(ls) /\ f[n] = d /\ n \in DOMAIN found
      /\ \A i \in 1 .. Len(ls) : i # n => f[i] = found[i]
  BY <1>1
<1> HIDE DEF f
<1>3. ASSUME NEW i \in 1 .. Len(ls)
      PROVE  PlaceRight(ly, Left, f[i], ls[i], <<im, k, i>>)
  <2>1. CASE i = n
    BY <1>2, <2>1, FilesAssumption DEF PlaceRight
  <2>2. CASE i # n
    <3> DEFINE v == <<im, k, i>>
               w == <<im, k, n>>
    <3>1. v # w
      BY <2>2
    <3>2. PlaceRight(ly, Left \cup {<<l, w>>}, found[i], ls[i], v)
      BY DEF PlacesRight
    <3> HIDE DEF v, w
    <3>3. <<ls[i], v>> # <<l, w>>
      BY <3>1
    <3>4. QED
      BY <1>2, <2>2, <3>2, <3>3 DEF PlaceRight, WaitsIn, v
  <2>3. QED
    BY <2>1, <2>2
<1>4. QED
  BY <1>2, <1>3 DEF PlacesRight, f

LEMMA OtherJobs ==
  ASSUME NEW ly, NEW Left, NEW l, NEW w, NEW k, NEW job,
         JobRight(ly, Left \cup {<<l, w>>}, k, job), k # w[2]
  PROVE  JobRight(ly, Left, k, job)
<1> DEFINE ls == job.spec.imageVal["layers"]
           ms == job.spec.val["layers"]
           x == job.imageLayers
           y == job.layers
<1>1. /\ PlacesRight(ly, Left \cup {<<l, w>>}, k, TRUE, ls, x)
      /\ PlacesRight(ly, Left \cup {<<l, w>>}, k, FALSE, ms, y)
  BY DEF JobRight
<1> HIDE DEF ls, ms, x, y
<1>2. PlacesRight(ly, Left, k, TRUE, ls, x) /\ PlacesRight(ly, Left, k, FALSE, ms, y)
  BY <1>1, OtherPlaces
<1>3. QED
  BY <1>2 DEF JobRight, ls, ms, x, y

LEMMA GoneIsTold ==
  ASSUME NEW K, NEW S, NEW Left, NEW l, NEW w, NEW p,
         KeptRight(p, K, S, Left \cup {<<l, w>>}), p.jobs[w[2]] = NoJob
  PROVE  KeptRight(p, K, S, Left)
<1>1. ASSUME NEW k \in Job, p.jobs[k] # NoJob
      PROVE  k \in K /\ JobRight(p.layers, Left, k, p.jobs[k])
  <2>1. k # w[2] /\ k \in K /\ JobRight(p.layers, Left \cup {<<l, w>>}, k, p.jobs[k])
    BY <1>1 DEF KeptRight
  <2>2. QED
    BY <2>1, OtherJobs
<1>2. \A m \in Layer : \A v : WaitsIn(p.layers, Left, m, v) => WaiterRight(p, S, m, v)
  BY DEF KeptRight, WaitsIn
<1>3. QED
  BY <1>1, <1>2 DEF KeptRight

\* No job is new, and those that stay have their spec.
Narrows(p, t) ==
  \A k \in Job : t.jobs[k] = NoJob \/ (p.jobs[k] # NoJob /\ t.jobs[k].spec = p.jobs[k].spec)

\* In t, the waiter w is told, and nobody else.
TellsOne(p, t, K, S, Left, w) ==
  /\ KeptRight(t, K, S, Left) /\ t.layers = p.layers /\ t.building = p.building
  /\ Narrows(p, t) /\ \A k \in Job \ {w[2]} : t.jobs[k] = p.jobs[k]

LEMMA FilledIsRight ==
  ASSUME NEW K, NEW S, NEW Left, NEW l \in Layer, NEW w, NEW p,
         KeptRight(p, K, S, Left \cup {<<l, w>>}), NEW d \in Digest, p.layers[l] = Got(d)
  PROVE  TellsOne(p, Filled(p, w, d), K, S, Left, w)
<1> DEFINE j == w[2]
           job == p.jobs[j]
           ls == job.spec.imageVal["layers"]
           ms == job.spec.val["layers"]
           x == job.imageLayers
           y == job.layers
           t == Filled(p, w, d)
           Goal == /\ KeptRight(t, K, S, Left) /\ t.layers = p.layers /\ t.building = p.building
                   /\ Narrows(p, t) /\ \A k \in Job \ {w[2]} : t.jobs[k] = p.jobs[k]
<1>1. w \in Waiter /\ j \in Job /\ (job # NoJob => HasPlace(job, l, w))
  <2>1. WaitsIn(p.layers, Left \cup {<<l, w>>}, l, w)
    BY DEF WaitsIn
  <2>2. WaiterRight(p, S, l, w)
    BY <2>1 DEF KeptRight
  <2>3. QED
    BY <2>2 DEF WaiterRight, Waiter
<1>2. ASSUME job = NoJob PROVE Goal
  <2>1. t = p
    BY <1>2 DEF Filled
  <2>2. KeptRight(p, K, S, Left)
    BY <1>2, GoneIsTold
  <2>3. QED
    BY <2>1, <2>2 DEF Narrows
<1>3. ASSUME job # NoJob PROVE Goal
  <2> DEFINE n == w[3]
             slots == IF w[1] THEN x ELSE y
             x2 == IF w[1] THEN [x EXCEPT ![n] = d] ELSE x
             y2 == IF w[1] THEN y ELSE [y EXCEPT ![n] = d]
             new == IF w[1] THEN [job EXCEPT !.imageLayers = [x EXCEPT ![n] = d]]
                            ELSE [job EXCEPT !.layers = [y EXCEPT ![n] = d]]
             u == IF w[1] THEN [p EXCEPT !.jobs[j].imageLayers = [x EXCEPT ![n] = d]]
                          ELSE [p EXCEPT !.jobs[j].layers = [y EXCEPT ![n] = d]]
  <2>1. /\ j \in K /\ JobRight(p.layers, Left \cup {<<l, w>>}, j, job)
        /\ DOMAIN job = JobFields /\ SpecRight(job.spec)
        /\ PlacesRight(p.layers, Left \cup {<<l, w>>}, j, TRUE, ls, x)
        /\ PlacesRight(p.layers, Left \cup {<<l, w>>}, j, FALSE, ms, y)
    BY <1>1, <1>3 DEF KeptRight, JobRight
  <2>2. /\ w[1] \in BOOLEAN /\ w = <<w[1], j, n>>
        /\ w[1] => n \in 1 .. Len(ls) /\ ls[n] = l
        /\ ~w[1] => n \in 1 .. Len(ms) /\ ms[n] = l
    BY <1>1, <1>3 DEF HasPlace, IsPlace, Waiter
  <2>3. /\ n \in DOMAIN slots
        /\ PlacesRight(p.layers, Left, j, TRUE, ls, x2)
        /\ PlacesRight(p.layers, Left, j, FALSE, ms, y2)
    <3> HIDE DEF ls, ms, x, y, j, n
    <3>1. CASE w[1]
      <4>1. w[1] = TRUE /\ w = <<TRUE, j, n>>
        BY <2>2, <3>1
      <4>2. PlacesRight(p.layers, Left \cup {<<l, <<TRUE, j, n>> >>}, j, TRUE, ls, x)
        BY <2>1, <4>1
      <4>3. n \in DOMAIN x /\ PlacesRight(p.layers, Left, j, TRUE, ls, [x EXCEPT ![n] = d])
        BY <2>2, <3>1, <4>2, FilledPlaces
      <4>4. PlacesRight(p.layers, Left, j, FALSE, ms, y)
        BY <2>1, <4>1, OtherPlaces
      <4>5. slots = x /\ x2 = [x EXCEPT ![n] = d] /\ y2 = y
        BY <3>1
      <4>6. QED
        BY <4>3, <4>4, <4>5
    <3>2. CASE ~w[1]
      <4>1. w[1] = FALSE /\ w = <<FALSE, j, n>>
        BY <2>2, <3>2
      <4>2. PlacesRight(p.layers, Left \cup {<<l, <<FALSE, j, n>> >>}, j, FALSE, ms, y)
        BY <2>1, <4>1
      <4>3. n \in DOMAIN y /\ PlacesRight(p.layers, Left, j, FALSE, ms, [y EXCEPT ![n] = d])
        BY <2>2, <3>2, <4>2, FilledPlaces
      <4>4. PlacesRight(p.layers, Left, j, TRUE, ls, x)
        BY <2>1, <4>1, OtherPlaces
      <4>5. slots = y /\ x2 = x /\ y2 = [y EXCEPT ![n] = d]
        BY <3>2
      <4>6. QED
        BY <4>3, <4>4, <4>5
    <3>3. QED
      BY <3>1, <3>2
  <2>4. t = u
    <3>1. CASE w[1]
      <4>1. slots = x /\ u = [p EXCEPT !.jobs[j].imageLayers = [x EXCEPT ![n] = d]]
        BY <3>1
      <4>2. t = IF n \notin DOMAIN slots THEN [p EXCEPT !.panic = TRUE]
                ELSE [p EXCEPT !.jobs[j].imageLayers = [slots EXCEPT ![n] = d]]
        BY <1>3, <3>1, Zenon DEF Filled
      <4> HIDE DEF u, t, slots, x, y, n, j
      <4>3. QED
        BY <2>3, <4>1, <4>2
    <3>2. CASE ~w[1]
      <4>1. slots = y /\ u = [p EXCEPT !.jobs[j].layers = [y EXCEPT ![n] = d]]
        BY <3>2
      <4>2. t = IF n \notin DOMAIN slots THEN [p EXCEPT !.panic = TRUE]
                ELSE [p EXCEPT !.jobs[j].layers = [slots EXCEPT ![n] = d]]
        BY <1>3, <3>2, Zenon DEF Filled
      <4> HIDE DEF u, t, slots, x, y, n, j
      <4>3. QED
        BY <2>3, <4>1, <4>2
    <3>3. QED
      BY <3>1, <3>2
  <2>5. /\ DOMAIN new = JobFields /\ new.spec = job.spec /\ new # NoJob
        /\ new.imageLayers = x2 /\ new.layers = y2
    <3> HIDE DEF job
    <3>1. CASE w[1]
      <4>1. new = [job EXCEPT !.imageLayers = x2] /\ y2 = y
        BY <3>1
      <4> HIDE DEF new, x2, y2
      <4>2. QED
        BY <2>1, <4>1 DEF JobFields, NoJob
    <3>2. CASE ~w[1]
      <4>1. new = [job EXCEPT !.layers = y2] /\ x2 = x
        BY <3>2
      <4> HIDE DEF new, x2, y2
      <4>2. QED
        BY <2>1, <4>1 DEF JobFields, NoJob
    <3>3. QED
      BY <3>1, <3>2
  <2>6. SetTo(p, u, j, new) /\ u.failed = p.failed
    <3>1. DOMAIN p = PrepFields /\ DOMAIN p.jobs = Job
      BY DEF KeptRight, PrepTyped
    <3>2. u = [p EXCEPT !.jobs = [p.jobs EXCEPT ![j] = new]]
      <4>1. CASE w[1]
        BY <4>1
      <4>2. CASE ~w[1]
        BY <4>2
      <4>3. QED
        BY <4>1, <4>2
    <3> DEFINE set == [p.jobs EXCEPT ![j] = new]
    <3> HIDE DEF u, set, new, j
    <3>3. u = [p EXCEPT !.jobs = set]
      BY <3>2 DEF set
    <3>4. /\ DOMAIN u = PrepFields /\ u.jobs = set /\ u.layers = p.layers
          /\ u.pending = p.pending /\ u.waiting = p.waiting /\ u.building = p.building
          /\ u.panic = p.panic /\ u.failed = p.failed
      BY <3>1, <3>3 DEF PrepFields
    <3>5. QED
      BY <3>4 DEF SetTo, set
  <2> HIDE DEF u, new, t, x2, y2
  <2>7. /\ u.jobs[j] = new /\ \A k \in Job \ {j} : u.jobs[k] = p.jobs[k]
        /\ u.layers = p.layers /\ u.building = p.building
    BY <1>1, <2>6 DEF SetTo, KeptRight, PrepTyped
  <2>8. PrepTyped(u) /\ Accounts(u)
    BY <2>6, AccountsSet DEF KeptRight
  <2>9. JobRight(p.layers, Left, j, new)
    <3>1. ls = new.spec.imageVal["layers"] /\ ms = new.spec.val["layers"] /\ SpecRight(new.spec)
      BY <2>1, <2>5
    <3> HIDE DEF ls, ms, job, j
    <3>2. QED
      BY <2>3, <2>5, <3>1 DEF JobRight
  <2> HIDE DEF j, job, ls, ms, x, y
  <2>10. ASSUME NEW k \in Job, u.jobs[k] # NoJob
         PROVE  k \in K /\ JobRight(u.layers, Left, k, u.jobs[k])
    <3>1. CASE k = j
      BY <2>1, <2>7, <2>9, <3>1
    <3>2. CASE k # j
      <4>1. k \in K /\ JobRight(p.layers, Left \cup {<<l, w>>}, k, p.jobs[k]) /\ k # w[2]
        BY <2>7, <2>10, <3>2 DEF KeptRight, j
      <4>2. JobRight(p.layers, Left, k, p.jobs[k])
        BY <4>1, OtherJobs
      <4>3. QED
        BY <2>7, <3>2, <4>1, <4>2
    <3>3. QED
      BY <3>1, <3>2
  <2>11. ASSUME NEW m \in Layer, NEW v, WaitsIn(u.layers, Left, m, v)
         PROVE  WaiterRight(u, S, m, v)
    <3>1. WaiterRight(p, S, m, v) /\ v[2] \in Job
      BY <2>7, <2>11 DEF KeptRight, WaitsIn, WaiterRight, Waiter
    <3>2. CASE v[2] = j
      <4>1. HasPlace(job, m, v)
        BY <1>3, <3>1, <3>2 DEF WaiterRight, job, j
      <4>2. QED
        BY <2>5, <2>7, <3>1, <3>2, <4>1 DEF WaiterRight, HasPlace
    <3>3. CASE v[2] # j
      BY <2>7, <3>1, <3>3 DEF WaiterRight
    <3>4. QED
      BY <3>2, <3>3
  <2>12. \A k \in u.failed : u.jobs[k] = NoJob
    BY <1>3, <2>6, <2>7 DEF KeptRight, job, j
  <2>13. KeptRight(u, K, S, Left)
    BY <2>6, <2>8, <2>10, <2>11, <2>12 DEF KeptRight
  <2>14. Narrows(p, u)
    BY <1>3, <2>5, <2>7 DEF Narrows, job, j
  <2>15. QED
    BY <2>4, <2>7, <2>13, <2>14 DEF j
<1>4. QED
  BY <1>2, <1>3 DEF TellsOne

\* The build of l has ended with e: all that wait for it are left to be told.
Ends(p, t, K, S, l, e) ==
  /\ p.layers[l].st = "getting" /\ p.layers[l].wait \in SUBSET Waiter
  /\ IsFiniteSet(p.layers[l].wait)
  /\ KeptRight(t, K, S, {l} \X p.layers[l].wait) /\ t.jobs = p.jobs /\ t.failed = p.failed
  /\ Begins([p.building EXCEPT ![l] = NotBuilding], t.building)
  /\ t.layers = [p.layers EXCEPT ![l] = e]

LEMMA LayerEnds ==
  ASSUME NEW K, NEW S, NEW p, KeptRight(p, K, S, {}), NEW l \in RunningIn(p),
         NEW e \in LayerEntries, e.st # "getting"
  PROVE  Ends(p, Popped(p, l, e), K, S, l, e)
<1> DEFINE t == Popped(p, l, e)
           wait == p.layers[l].wait
           Left == {l} \X wait
<1>1. /\ PrepTyped(t) /\ Accounts(t) /\ t.jobs = p.jobs /\ t.failed = p.failed
      /\ Begins([p.building EXCEPT ![l] = NotBuilding], t.building)
      /\ t.layers = [p.layers EXCEPT ![l] = e]
  BY PopIsRight DEF KeptRight
<1>2. l \in Layer /\ p.layers[l].st = "getting" /\ p.layers[l] \in LayerEntries
  BY DEF KeptRight, PrepTyped, Accounts, RunningIn
<1>3. wait \in SUBSET Waiter /\ IsFiniteSet(wait)
  BY <1>2, EntryForms
<1> HIDE DEF t, wait
<1>4. t.layers[l] = e /\ \A m \in Layer \ {l} : t.layers[m] = p.layers[m]
  BY <1>1, <1>2 DEF KeptRight, PrepTyped
<1>5. \A w : <<l, w>> \in Left <=> w \in wait
  OBVIOUS
<1>6. \A m, w : <<m, w>> \in Left => m = l
  OBVIOUS
<1> HIDE DEF Left
<1>7. ASSUME NEW m \in Layer, NEW w
      PROVE  WaitsIn(t.layers, Left, m, w) <=> WaitsIn(p.layers, {}, m, w)
  <2>1. CASE m = l
    BY <1>2, <1>4, <1>5, <2>1 DEF WaitsIn, wait
  <2>2. CASE m # l
    BY <1>4, <1>6, <2>2 DEF WaitsIn
  <2>3. QED
    BY <2>1, <2>2
<1>8. ASSUME NEW k, NEW im, NEW ls \in Seq(Layer), NEW found, PlacesRight(p.layers, {}, k, im, ls, found)
      PROVE  PlacesRight(t.layers, Left, k, im, ls, found)
  <2>1. ASSUME NEW i \in 1 .. Len(ls)
        PROVE  PlaceRight(t.layers, Left, found[i], ls[i], <<im, k, i>>)
    <3> DEFINE m == ls[i]
               w == <<im, k, i>>
               x == found[i]
    <3>1. m \in Layer /\ PlaceRight(p.layers, {}, x, m, w)
      BY <1>8 DEF PlacesRight
    <3> HIDE DEF m, w, x
    <3>2. p.layers[m] = Got(x) => m # l
      BY <1>2 DEF Got
    <3>3. PlaceRight(t.layers, Left, x, m, w)
      BY <1>4, <1>7, <3>1, <3>2 DEF PlaceRight
    <3>4. QED
      BY <3>3 DEF m, w, x
  <2>2. QED
    BY <1>8, <2>1 DEF PlacesRight
<1>9. ASSUME NEW k, NEW job, JobRight(p.layers, {}, k, job)
      PROVE  JobRight(t.layers, Left, k, job)
  <2> DEFINE ls == job.spec.imageVal["layers"]
             ms == job.spec.val["layers"]
             x == job.imageLayers
             y == job.layers
  <2>1. /\ ls \in Seq(Layer) /\ ms \in Seq(Layer) /\ PlacesRight(p.layers, {}, k, TRUE, ls, x)
        /\ PlacesRight(p.layers, {}, k, FALSE, ms, y)
    BY <1>9 DEF JobRight, SpecRight
  <2> HIDE DEF ls, ms, x, y
  <2>2. PlacesRight(t.layers, Left, k, TRUE, ls, x) /\ PlacesRight(t.layers, Left, k, FALSE, ms, y)
    BY <1>8, <2>1
  <2>3. QED
    BY <1>9, <2>2 DEF JobRight, ls, ms, x, y
<1>10. KeptRight(t, K, S, Left)
  BY <1>1, <1>7, <1>9 DEF KeptRight, WaiterRight
<1>11. QED
  BY <1>1, <1>2, <1>3, <1>10 DEF Ends, t, wait, Left

\* The first n of those that wait for the layer l have been told.
LayerTold(p, K, S, l, q, n, a) ==
  /\ KeptRight(a, K, S, {<<l, q[m]>> : m \in n + 1 .. Len(q)})
  /\ a.layers = p.layers /\ a.building = p.building /\ Narrows(p, a)
  /\ \A k \in Job : (\A m \in 1 .. Len(q) : q[m][2] # k) => a.jobs[k] = p.jobs[k]

TellOf(a, w, d) == IF d = None THEN JobError(a, w[2]) ELSE Filled(a, w, d)

LayersTold(base, q, d) ==
  FoldLeft(LAMBDA a, w : IF d = None THEN JobError(a, w[2]) ELSE Filled(a, w, d), base, q)

LayerStep(p, o, a, x) == TellOf(a, x, o)
LayerIs(r, n, a) == LayerTold(r.p, r.K, r.S, r.l, r.q, n, a)
Filling == INSTANCE FoldTheorems WITH Op <- LayerStep, Inv <- LayerIs

LEMMA FilledFold ==
  ASSUME NEW base, NEW q, NEW d
  PROVE  LayersTold(base, q, d) = Filling!Fold(0, d, base, q)
<1>1. Filling!Fold(0, d, base, q)
        = FoldLeft(LAMBDA a, w : IF d = None THEN JobError(a, w[2]) ELSE Filled(a, w, d), base, q)
  BY DEF Filling!Fold, LayerStep, TellOf, FoldLeft, MapThenFoldSet, Max,
         Filling!Greatest
<1>2. QED
  BY <1>1, Zenon DEF LayersTold

LEMMA NarrowsTrans ==
  ASSUME NEW p, NEW q, NEW t, Narrows(p, q), Narrows(q, t)
  PROVE  Narrows(p, t)
BY DEF Narrows

LEMMA OneIsFilled ==
  ASSUME NEW K, NEW S, NEW p, NEW l \in Layer, NEW q \in Seq(Waiter),
         NEW d \in Digest \cup {None}, d # None => p.layers[l] = Got(d),
         NEW n \in 1 .. Len(q), NEW a, LayerTold(p, K, S, l, q, n - 1, a)
  PROVE  LayerTold(p, K, S, l, q, n, TellOf(a, q[n], d))
<1> DEFINE w == q[n]
           Left == {<<l, q[m]>> : m \in n + 1 .. Len(q)}
           t == TellOf(a, w, d)
           j == w[2]
<1>1. w \in Waiter /\ j \in Job
  BY DEF Waiter
<1>2. {<<l, q[m]>> : m \in (n - 1) + 1 .. Len(q)} = Left \cup {<<l, w>>}
  <2>1. \A m : m \in (n - 1) + 1 .. Len(q) <=> m = n \/ m \in n + 1 .. Len(q)
    OBVIOUS
  <2>2. QED
    BY <2>1
<1> HIDE DEF w, Left
<1>3. KeptRight(a, K, S, Left \cup {<<l, w>>})
  BY <1>2 DEF LayerTold
<1>4. /\ KeptRight(t, K, S, Left) /\ t.layers = a.layers /\ t.building = a.building
      /\ Narrows(a, t) /\ \A k \in Job \ {j} : t.jobs[k] = a.jobs[k]
  <2>1. CASE d = None
    <3>1. t = JobError(a, j)
      BY <2>1 DEF TellOf
    <3> HIDE DEF t, j
    <3>2. /\ KeptRight(t, K, S, Left \cup {<<l, w>>}) /\ Progress(a, t) /\ Touches(a, t, j)
          /\ t.jobs[j] = NoJob /\ t.layers = a.layers
      BY <1>1, <1>3, <3>1, JobErrorIsRight
    <3>3. KeptRight(t, K, S, Left)
      BY <3>2, GoneIsTold DEF j
    <3>4. Narrows(a, t)
      BY <3>2 DEF Narrows, Touches
    <3>5. t.building = a.building
      <4>1. JobError(a, j) = a \/ JobError(a, j) = [a EXCEPT !.jobs[j] = NoJob, !.failed = @ \cup {j}]
        BY DEF JobError
      <4>2. DOMAIN a = PrepFields
        BY <1>3 DEF KeptRight, PrepTyped
      <4>3. QED
        BY <3>1, <4>1, <4>2 DEF PrepFields
    <3>6. QED
      BY <3>2, <3>3, <3>4, <3>5 DEF Touches
  <2>2. CASE d # None
    <3>1. t = Filled(a, w, d) /\ d \in Digest /\ a.layers[l] = Got(d)
      BY <2>2 DEF TellOf, LayerTold
    <3> HIDE DEF t
    <3>2. TellsOne(a, t, K, S, Left, w)
      BY <1>3, <3>1, FilledIsRight, Zenon
    <3>3. QED
      BY <3>2 DEF TellsOne, j
  <2>3. QED
    BY <2>1, <2>2
<1> HIDE DEF t
<1>5. ASSUME NEW k \in Job, \A m \in 1 .. Len(q) : q[m][2] # k
      PROVE  t.jobs[k] = p.jobs[k]
  BY <1>4, <1>5 DEF LayerTold, j, w
<1>6. Narrows(p, t)
  BY <1>4, NarrowsTrans DEF LayerTold
<1>7. QED
  BY <1>4, <1>5, <1>6 DEF LayerTold, Left, t, w

LEMMA AllAreFilled ==
  ASSUME NEW K, NEW S, NEW p, NEW l \in Layer, NEW q \in Seq(Waiter),
         NEW d \in Digest \cup {None}, d # None => p.layers[l] = Got(d),
         KeptRight(p, K, S, {<<l, q[m]>> : m \in 1 .. Len(q)})
  PROVE  LayerTold(p, K, S, l, q, Len(q), LayersTold(p, q, d))
<1> DEFINE r == [p |-> p, K |-> K, S |-> S, l |-> l, q |-> q]
<1>1. r.p = p /\ r.K = K /\ r.S = S /\ r.l = l /\ r.q = q
  OBVIOUS
<1> HIDE DEF r
<1>2. LayerIs(r, 0, p)
  <2>1. \A k \in Job : p.jobs[k] = NoJob \/ (p.jobs[k] # NoJob /\ p.jobs[k].spec = p.jobs[k].spec)
    OBVIOUS
  <2>2. {<<l, q[m]>> : m \in 1 .. Len(q)} = {<<l, q[m]>> : m \in 0 + 1 .. Len(q)}
    OBVIOUS
  <2>3. KeptRight(p, K, S, {<<l, q[m]>> : m \in 0 + 1 .. Len(q)})
    BY <2>2
  <2>4. LayerTold(p, K, S, l, q, 0, p)
    BY <2>1, <2>3, Zenon DEF LayerTold, Narrows
  <2>5. QED
    BY <1>1, <2>4 DEF LayerIs
<1>3. \A a : \A n \in 1 .. Len(q) :
        q[n] \in Waiter /\ LayerIs(r, n - 1, a) => LayerIs(r, n, LayerStep(0, d, a, q[n]))
  <2>1. ASSUME NEW a, NEW n \in 1 .. Len(q), LayerIs(r, n - 1, a)
        PROVE  LayerIs(r, n, LayerStep(0, d, a, q[n]))
    <3>1. LayerTold(p, K, S, l, q, n - 1, a)
      BY <1>1, <2>1 DEF LayerIs
    <3>2. LayerTold(p, K, S, l, q, n, TellOf(a, q[n], d))
      BY <3>1, OneIsFilled
    <3>3. QED
      BY <1>1, <3>2 DEF LayerIs, LayerStep
  <2>2. QED
    BY <2>1
<1>4. LayerIs(r, Len(q), Filling!Fold(0, d, p, q))
  BY <1>2, <1>3, LeastOf, Filling!FoldKeeps
<1>5. QED
  BY <1>1, <1>4, FilledFold DEF LayerIs

\* A set of waiters is gone through in some order.
LEMMA SetInOrder ==
  ASSUME NEW D, IsFiniteSet(D)
  PROVE  SetToSeq(D) \in Seq(D) /\ ToSet(SetToSeq(D)) = D
<1> DEFINE n == Cardinality(D)
           Is(f) == f \in [1 .. n -> D] /\ IsInjective(f)
<1>1. n \in Nat /\ ExistsBijection(1 .. n, D)
  BY FS_CardinalityType
<1>2. PICK g : g \in Bijection(1 .. n, D)
  BY <1>1 DEF ExistsBijection
<1>3. Is(g)
  BY <1>2 DEF Bijection, Injection, IsInjective
<1>4. Is(SetToSeq(D))
  BY <1>3 DEF SetToSeq
<1>5. SetToSeq(D) \in Seq(D)
  BY <1>1, <1>4
<1>6. SetToSeq(D) \in Injection(1 .. n, D)
  BY <1>4 DEF Injection, IsInjective
<1>7. SetToSeq(D) \in Surjection(1 .. n, D)
  <2>1. IsFiniteSet(1 .. n) /\ Cardinality(1 .. n) = n
    BY <1>1, FS_Interval
  <2>2. QED
    BY <1>6, <2>1, FS_Injection
<1>8. DOMAIN SetToSeq(D) = 1 .. n
  BY <1>4
<1>9. QED
  BY <1>5, <1>7, <1>8 DEF Surjection, ToSet

\* The entry of a layer whose build came to d.
EntryOf(d) == IF d = None THEN Err ELSE Got(d)

\* The build of l has ended with e, and those that waited for it were told.
LayerDone(p, t, K, S, l, e) ==
  /\ KeptRight(t, K, S, {}) /\ t.layers = [p.layers EXCEPT ![l] = e]
  /\ Begins([p.building EXCEPT ![l] = NotBuilding], t.building)
  /\ Narrows(p, t)
  /\ \A k \in Job : k \notin {w[2] : w \in p.layers[l].wait} => t.jobs[k] = p.jobs[k]

\* The result of receive_got_layer, before the jobs that are ready are started.
LEMMA LayerIsTold ==
  ASSUME NEW K, NEW S, NEW p, KeptRight(p, K, S, {}), NEW l \in RunningIn(p),
         NEW d \in Digest \cup {None}
  PROVE  LayerDone(p, LayersTold(Popped(p, l, EntryOf(d)), SetToSeq(p.layers[l].wait), d),
                   K, S, l, EntryOf(d))
<1> DEFINE wait == p.layers[l].wait
           e == EntryOf(d)
           a == Popped(p, l, e)
           q == SetToSeq(wait)
           t == LayersTold(a, q, d)
<1>1. l \in Layer /\ e \in LayerEntries /\ e.st # "getting" /\ (d # None => e = Got(d))
  <2>1. l \in Layer
    BY DEF RunningIn
  <2>2. QED
    BY <2>1, FormsOfEntry DEF EntryOf
<1> HIDE DEF e
<1>2. /\ wait \in SUBSET Waiter /\ IsFiniteSet(wait)
      /\ KeptRight(a, K, S, {l} \X wait) /\ a.jobs = p.jobs
      /\ Begins([p.building EXCEPT ![l] = NotBuilding], a.building)
      /\ a.layers = [p.layers EXCEPT ![l] = e]
  <2>1. Ends(p, a, K, S, l, e)
    BY <1>1, LayerEnds, Zenon
  <2> HIDE DEF a
  <2>2. QED
    BY <2>1 DEF Ends
<1>3. q \in Seq(wait) /\ ToSet(q) = wait
  BY <1>2, SetInOrder
<1>4. a.layers[l] = e
  BY <1>1, <1>2 DEF KeptRight, PrepTyped
<1> HIDE DEF a, q, wait
<1>5. q \in Seq(Waiter) /\ \A w : w \in wait <=> \E m \in 1 .. Len(q) : q[m] = w
  <2>1. \A w : w \in ToSet(q) <=> \E m \in 1 .. Len(q) : q[m] = w
    BY <1>3, InSequence
  <2>2. QED
    BY <1>2, <1>3, <2>1
<1>6. {<<l, q[m]>> : m \in 1 .. Len(q)} = {l} \X wait
  BY <1>5
<1>7. KeptRight(a, K, S, {<<l, q[m]>> : m \in 1 .. Len(q)})
  BY <1>2, <1>6
<1>8. LayerTold(a, K, S, l, q, Len(q), t)
  <2>1. d # None => a.layers[l] = Got(d)
    BY <1>1, <1>4
  <2>2. QED
    BY <1>1, <1>5, <1>7, <2>1, AllAreFilled
<1> HIDE DEF t
<1>9. {<<l, q[m]>> : m \in Len(q) + 1 .. Len(q)} = {}
  BY <1>5
<1>10. KeptRight(t, K, S, {}) /\ t.layers = a.layers /\ t.building = a.building /\ Narrows(a, t)
  BY <1>8, <1>9 DEF LayerTold
<1>11. Narrows(p, t)
  BY <1>2, <1>10 DEF Narrows
<1>12. ASSUME NEW k \in Job, k \notin {w[2] : w \in wait}
       PROVE  t.jobs[k] = p.jobs[k]
  <2>1. \A m \in 1 .. Len(q) : q[m][2] # k
    BY <1>5, <1>12
  <2>2. QED
    BY <1>2, <1>8, <2>1 DEF LayerTold
<1>13. QED
  BY <1>2, <1>10, <1>11, <1>12 DEF LayerDone, t, a, q, e, wait

-----------------------------------------------------------------------------
\* A job that is new.

LEMMA KeptGrows ==
  ASSUME NEW K, NEW S, NEW Left, NEW p, KeptRight(p, K, S, Left),
         NEW J, K \subseteq J, NEW T, S \subseteq T
  PROVE  KeptRight(p, J, T, Left)
<1>1. \A m \in Layer : \A w : WaitsIn(p.layers, Left, m, w) => WaiterRight(p, T, m, w)
  BY DEF KeptRight, WaiterRight
<1>2. QED
  BY <1>1 DEF KeptRight

\* The job is new, and only it is not as in p.
Begun(p, t, K, S, j) ==
  /\ KeptRight(t, K \cup {j}, S \cup {j}, {}) /\ Progress(p, t)
  /\ \A k \in Job \ {j} : t.jobs[k] = p.jobs[k]

\* The job fails, or is kept with what was found of its layers.
BegunWith(p, t, K, S, j, spec) ==
  /\ Begun(p, t, K, S, j)
  /\ \/ t.failed = {j} /\ t.jobs[j] = NoJob
     \/ t.failed = {} /\ t.jobs[j] # NoJob /\ t.jobs[j].spec = spec

LEMMA FailsAtOnce ==
  ASSUME NEW K, NEW S, NEW p, KeptRight(p, K, S, {}), p.failed = {},
         NEW j \in Job, p.jobs[j] = NoJob, NEW spec
  PROVE  BegunWith(p, [p EXCEPT !.failed = {j}], K, S, j, spec)
<1> DEFINE t == [p EXCEPT !.failed = {j}]
<1>1. /\ DOMAIN t = PrepFields /\ t.layers = p.layers /\ t.jobs = p.jobs /\ t.pending = p.pending
      /\ t.waiting = p.waiting /\ t.building = p.building /\ t.failed = {j} /\ t.panic = FALSE
  BY DEF KeptRight, PrepTyped, PrepFields
<1>2. KeptRight(p, K \cup {j}, S \cup {j}, {})
  BY KeptGrows
<1> HIDE DEF t
<1>3. PrepTyped(t) /\ RunningIn(t) = RunningIn(p)
  BY <1>1 DEF KeptRight, PrepTyped, RunningIn
<1>4. Accounts(t)
  BY <1>1, <1>3 DEF KeptRight, Accounts
<1>5. KeptRight(t, K \cup {j}, S \cup {j}, {})
  BY <1>1, <1>2, <1>3, <1>4 DEF KeptRight, WaiterRight
<1>6. Progress(p, t)
  BY <1>1 DEF Progress, Begins
<1>7. QED
  BY <1>1, <1>5, <1>6 DEF BegunWith, Begun, t

LEMMA EvaluatedIsRight ==
  ASSUME NEW K, NEW S, KeptRight(Now, K, S, {}), NEW j \in Job, j \notin S, jobs[j] = NoJob,
         NEW spec, SpecRight(spec), spec.imageVal["layers"] = <<>>
  PROVE  BegunWith(Now, Evaluated(j, spec), K, S, j, spec)
<1>1. PICK p : p = Now
  OBVIOUS
<1>2. p.failed = {} /\ p.jobs = jobs
  BY <1>1 DEF Now
<1> DEFINE ls == spec.val["layers"]
           r == EvaluateLayers(p, ls, j, FALSE)
           t == r.p
           job == [spec |-> spec, imageLayers |-> <<>>, layers |-> r.found]
           u == Evaluated(j, spec)
           no == <<>>
<1>3. u = IF spec.err \/ r.err THEN [r.p EXCEPT !.failed = {j}] ELSE [r.p EXCEPT !.jobs[j] = job]
  BY <1>1, Zenon DEF Evaluated
<1>4. KeptRight(p, K, S, {}) /\ KeptRight(p, K \cup {j}, S \cup {j}, {})
  BY <1>1, KeptGrows
<1>5. ls \in Seq(Layer)
  BY DEF SpecRight
<1>6. Evaluates(p, j, FALSE, ls, Len(ls), r)
  BY <1>4, <1>5, LayersAreEvaluated DEF KeptRight
<1>7. /\ DOMAIN job = JobFields /\ job.spec = spec /\ job.imageLayers = no /\ job.layers = r.found
      /\ job # NoJob /\ Len(no) = 0 /\ no \in Seq(Digest \cup {None})
  BY DEF JobFields, NoJob
<1>8. spec.imageVal["layers"] = no
  OBVIOUS
<1> HIDE DEF r, u, job, no
<1>9. /\ Asks(p, t, j, FALSE, ls) /\ PrepTyped(t) /\ t.jobs = p.jobs /\ t.failed = {}
      /\ \A i \in 1 .. Len(ls) : <<FALSE, j, i>> \in Waiter /\ j \in S \cup {j}
  <2>1. Asks(p, t, j, FALSE, ls)
    BY <1>6 DEF Evaluates
  <2>2. \A i \in 1 .. Len(ls) : <<FALSE, j, i>> \in Waiter
    <3>1. \A i \in 1 .. Len(ls) : i \in Nat \ {0}
      BY <1>5
    <3>2. QED
      BY <3>1 DEF Waiter
  <2>3. QED
    BY <1>2, <2>1, <2>2 DEF Asks
<1>10. ASSUME spec.err \/ r.err
       PROVE  SetTo(t, u, j, NoJob) /\ u.failed = t.failed \cup {j}
  <2>1. u = [t EXCEPT !.failed = {j}]
    BY <1>3, <1>10
  <2>2. t.jobs = [t.jobs EXCEPT ![j] = NoJob]
    BY <1>2, <1>9 DEF PrepTyped
  <2>3. /\ DOMAIN u = PrepFields /\ u.layers = t.layers /\ u.pending = t.pending /\ u.jobs = t.jobs
        /\ u.waiting = t.waiting /\ u.building = t.building /\ u.panic = t.panic /\ u.failed = {j}
    BY <1>9, <2>1 DEF PrepTyped, PrepFields
  <2>4. QED
    BY <1>9, <2>2, <2>3 DEF SetTo
<1>11. ASSUME ~(spec.err \/ r.err)
       PROVE  SetTo(t, u, j, job) /\ u.failed = t.failed
  <2>1. u = [t EXCEPT !.jobs[j] = job]
    BY <1>3, <1>11
  <2>2. QED
    BY <1>9, <2>1 DEF SetTo, PrepTyped, PrepFields
<1>12. ASSUME NEW m \in Layer, NEW w, WaitsIn(t.layers, {}, m, w), w[2] = j
       PROVE  HasPlace(job, m, w)
  <2>1. ~WaitsIn(p.layers, {}, m, w)
    BY <1>4, <1>12 DEF KeptRight, WaiterRight
  <2>2. PICK i \in 1 .. Len(ls) : w = <<FALSE, j, i>> /\ ls[i] = m
    BY <1>9, <1>12, <2>1 DEF WaitsIn, Asks, LayersAsked
  <2>3. ~w[1] /\ w[3] = i
    BY <2>2
  <2>4. QED
    BY <1>7, <2>2, <2>3 DEF HasPlace, IsPlace
<1>13. ASSUME ~r.err
       PROVE  JobRight(t.layers, {}, j, job)
  <2>1. ASSUME NEW i \in 1 .. Len(ls)
        PROVE  PlaceRight(t.layers, {}, r.found[i], ls[i], <<FALSE, j, i>>)
    <3>1. FoundRight(t.layers, r.found[i], ls[i], <<FALSE, j, i>>)
      BY <1>6, <1>13 DEF Evaluates
    <3>2. QED
      BY <3>1 DEF FoundRight, PlaceRight, WaitsIn
  <2>2. PlacesRight(t.layers, {}, j, FALSE, ls, r.found)
    BY <1>6, <1>13, <2>1 DEF PlacesRight, Evaluates
  <2>3. PlacesRight(t.layers, {}, j, TRUE, no, no)
    <3>1. \A i \in 1 .. 0 : FALSE
      OBVIOUS
    <3>2. QED
      BY <1>7, <3>1, Zenon DEF PlacesRight
  <2>4. QED
    BY <1>7, <1>8, <2>2, <2>3 DEF JobRight
<1>14. ASSUME NEW x, SetTo(t, u, j, x), u.failed \in {t.failed, t.failed \cup {j}},
              x # NoJob => x = job /\ u.failed = {} /\ ~r.err
       PROVE  Begun(p, u, K, S, j) /\ u.jobs[j] = x
  <2>1. KeptRight(u, K \cup {j}, S \cup {j}, {})
    <3>1. x # NoJob => /\ j \notin u.failed /\ JobRight(t.layers, {}, j, x)
                       /\ \A m \in Layer : \A w :
                            WaitsIn(t.layers, {}, m, w) /\ w[2] = j => HasPlace(x, m, w)
      BY <1>12, <1>13, <1>14
    <3>2. j \in K \cup {j}
      OBVIOUS
    <3> HIDE DEF t, ls
    <3>3. QED
      BY <1>4, <1>5, <1>9, <1>14, <3>1, <3>2, JobIsSet
  <2>2. u.layers = t.layers /\ u.building = t.building /\ u.jobs = [p.jobs EXCEPT ![j] = x]
    BY <1>9, <1>14 DEF SetTo
  <2>3. u.jobs[j] = x /\ \A k \in Job \ {j} : u.jobs[k] = p.jobs[k]
    BY <1>4, <2>2 DEF KeptRight, PrepTyped
  <2>4. Progress(p, u)
    BY <1>9, <2>2 DEF Progress, Asks, LayersAsked
  <2>5. QED
    BY <2>1, <2>3, <2>4 DEF Begun
<1>15. CASE spec.err \/ r.err
  <2>1. Begun(p, u, K, S, j) /\ u.jobs[j] = NoJob
    BY <1>10, <1>14, <1>15
  <2>2. u.failed = {j}
    BY <1>9, <1>10, <1>15
  <2>3. QED
    BY <1>1, <2>1, <2>2 DEF BegunWith, u
<1>16. CASE ~(spec.err \/ r.err)
  <2>1. Begun(p, u, K, S, j) /\ u.jobs[j] = job
    BY <1>9, <1>11, <1>14, <1>16
  <2>2. u.failed = {}
    BY <1>9, <1>11, <1>16
  <2>3. QED
    BY <1>1, <1>7, <2>1, <2>2 DEF BegunWith, u
<1>17. QED
  BY <1>15, <1>16

-----------------------------------------------------------------------------
\* The inductive invariant.

Phases == {"none", "preparing", "prepared", "failed", "running", "done"}

\* Calls of run_job whose spec has been prepared.
Handed == {"prepared", "running", "done"}

Preparing == {j \in Job : phase[j] = "preparing"}
Seen == {j \in Job : phase[j] # "none"}

\* A job that has all it needs has been started.
NoneReady(js) == \A j \in Job : js[j] # NoJob => ~IsReady(js[j])

\* The jobs on an image's list lack that image, if they are kept.
ImageEntryRight(i, e, js, S) ==
  \/ e \in {Unknown, Err, Got(i)}
  \/ /\ e = Getting(e.wait) /\ e.wait \in Seq(Job) /\ IsInjective(e.wait)
     /\ \A n \in 1 .. Len(e.wait) :
          /\ e.wait[n] \in S
          /\ js[e.wait[n]] # NoJob => /\ js[e.wait[n]].spec.image # None
                                      /\ js[e.wait[n]].spec.image.name = i

\* The job is on the list of the image i.
Listed(e, j) == e.st = "getting" /\ \E n \in 1 .. Len(e.wait) : e.wait[n] = j

ImagesRight(im, js, S) ==
  /\ DOMAIN im = Image /\ im = [i \in Image |-> im[i]]
  /\ \A i \in Image : ImageEntryRight(i, im[i], js, S)
  /\ \A j \in Job : js[j] # NoJob /\ js[j].spec.image # None =>
       Listed(im[js[j].spec.image.name], j)

\* The files that steps of l before the nth upload and the client does not write
\* are among the digests P.
Uploaded(l, n, P) ==
  \A k \in 1 .. Len(Steps[l]) :
    k < n /\ Steps[l][k].op = "upload" /\ Files[Steps[l][k].path] # None =>
      Files[Steps[l][k].path] \in P

BuildRight(P, l, b) ==
  /\ b.digest # None => b.digest \in P
  /\ b.digest # None \/ b.step <= Len(Steps[l]) => Uploaded(l, b.step, P)

LayerKnown(P, l, e) ==
  e.st = "got" => e.val \in P /\ Uploaded(l, Len(Steps[l]) + 1, P)

\* What the router has been told, or will be before anything that is sent now:
\* what the layers that there are consist of.
KnownIn(ly, bu, P) ==
  \A l \in Layer : LayerKnown(P, l, ly[l]) /\ BuildRight(P, l, bu[l])

FilesRight(f) ==
  /\ f \in [Path -> Digest \cup {None}]
  /\ \A x \in Path : Files[x] # None => f[x] = Files[x]

\* What the broker or the local worker may ask for, for a job with the spec r.
NeededFor(r) ==
  ToSet(r.layers) \cup
  ({Files[x] : x \in UNION {Uploads(l) : l \in ToSet(LayersOf(r.spec))}} \ {None})

Messages ==
  [kind : {"AddArtifact"}, digest : Digest, path : Path] \cup [kind : {"RunJob"}, job : Job]

\* The router knows d, or will before the nth message.
Announces(q, a, n, d) ==
  a[d] # None \/ \E m \in 1 .. n - 1 : q[m].kind = "AddArtifact" /\ q[m].digest = d

\* With the jobs W at the broker or the local worker, and R known to the router.
RouterRight(q, a, ph, pr, P, R, W) ==
  /\ q \in Seq(Messages) /\ a \in [Digest -> Path \cup {None}] /\ P \subseteq Digest
  /\ \A j \in Job : ph[j] \in Handed => NeededFor(pr[j]) \subseteq P
  /\ \A d \in P : Announces(q, a, Len(q) + 1, d)
  /\ \A n \in 1 .. Len(q) : q[n].kind = "RunJob" =>
       /\ ph[q[n].job] \in {"running", "done"}
       /\ \A d \in NeededFor(pr[q[n].job]) : Announces(q, a, n, d)
  /\ W \subseteq R \cap Job
  /\ \A j \in W : /\ ph[j] \in {"running", "done"}
                  /\ \A d \in NeededFor(pr[j]) : a[d] # None

PreparerRight(p, ph, im, P) ==
  /\ ph \in [Job -> Phases]
  /\ KeptRight(p, {j \in Job : ph[j] = "preparing"}, {j \in Job : ph[j] # "none"}, {})
  /\ NoneReady(p.jobs) /\ ImagesRight(im, p.jobs, {j \in Job : ph[j] # "none"})
  /\ KnownIn(p.layers, p.building, P)

ClientRight ==
  /\ broken = FALSE /\ containers \in Containers /\ FilesRight(files)
  /\ PreparerRight(Now, phase, images, processed)
  /\ RouterRight(routerQueue, artifacts, phase, prepared, processed, routed,
                 atBroker \cup atWorker)

LEMMA NowFields ==
  /\ DOMAIN Now = PrepFields /\ Now.layers = layers /\ Now.jobs = jobs /\ Now.pending = pending
  /\ Now.waiting = waiting /\ Now.building = building /\ Now.failed = {} /\ Now.panic = FALSE
BY DEF Now, PrepFields

LEMMA InitRight == Init => ClientRight
<1> SUFFICES ASSUME Init PROVE ClientRight
  OBVIOUS
<1> USE DEF Init
<1>1. broken = FALSE /\ containers \in Containers
  BY DEF Containers
<1>2. FilesRight(files)
  BY FilesAssumption DEF FilesRight
<1>3. KnownIn(layers, building, processed)
  <2>1. ASSUME NEW l \in Layer
        PROVE  LayerKnown(processed, l, layers[l]) /\ BuildRight(processed, l, building[l])
    <3>1. layers[l] = Unknown /\ Unknown.st = "none" /\ building[l] = NotBuilding
      BY DEF Unknown
    <3>2. NotBuilding.digest = None /\ NotBuilding.step = 0
      BY DEF NotBuilding
    <3>3. \A k \in 1 .. Len(Steps[l]) : ~(k < 0)
      OBVIOUS
    <3>4. QED
      BY <3>1, <3>2, <3>3 DEF LayerKnown, BuildRight, Uploaded
  <2>2. QED
    BY <2>1 DEF KnownIn
<1>4. KeptRight(Now, {j \in Job : phase[j] = "preparing"}, {j \in Job : phase[j] # "none"}, {})
  <2>1. PICK p : p = Now
    OBVIOUS
  <2>2. /\ DOMAIN p = PrepFields /\ p.layers = layers /\ p.jobs = jobs /\ p.pending = 0
        /\ p.waiting = <<>> /\ p.building = building /\ p.failed = {} /\ p.panic = FALSE
    BY <2>1, NowFields
  <2>3. NotBuilding \in [step : Nat, digest : Digest \cup {None}] /\ NotBuilding.step = 0
    BY DEF NotBuilding
  <2>4. p.layers \in [Layer -> LayerEntries] /\ \A l \in Layer : p.layers[l].st = "none"
    BY <2>2, FormsOfEntry
  <2>5. PrepTyped(p)
    BY <2>2, <2>3, <2>4 DEF PrepTyped, Builds
  <2>6. RunningIn(p) = {} /\ {l \in Layer : p.layers[l].st = "getting"} = {}
    BY <2>2, <2>3, <2>4 DEF RunningIn
  <2>7. Accounts(p)
    <3>1. ToSet(p.waiting) = {} /\ IsInjective(p.waiting)
      BY <2>2 DEF ToSet, IsInjective
    <3>2. IsFiniteSet({}) /\ Cardinality({}) = 0 /\ 0 <= MaxPendingLayerBuilds
      BY FS_EmptySet, BuildsAssumption
    <3>3. QED
      BY <2>2, <2>6, <3>1, <3>2 DEF Accounts
  <2>8. \A j \in Job : p.jobs[j] = NoJob
    BY <2>2
  <2>9. QED
    BY <2>1, <2>2, <2>4, <2>5, <2>7, <2>8 DEF KeptRight, WaitsIn
<1>5. NoneReady(jobs) /\ ImagesRight(images, jobs, {j \in Job : phase[j] # "none"})
  BY DEF NoneReady, ImagesRight, ImageEntryRight
<1>6. PreparerRight(Now, phase, images, processed)
  <2>1. phase \in [Job -> Phases]
    BY DEF Phases
  <2>2. QED
    BY <1>3, <1>4, <1>5, <2>1, NowFields, Zenon DEF PreparerRight
<1>7. RouterRight(routerQueue, artifacts, phase, prepared, processed, routed, atBroker \cup atWorker)
  BY DEF RouterRight, Handed
<1>8. QED
  BY <1>1, <1>2, <1>6, <1>7 DEF ClientRight

-----------------------------------------------------------------------------
\* The end of the preparer's handlers.

LEMMA PlacesKnown ==
  ASSUME NEW ly, NEW bu, NEW P, KnownIn(ly, bu, P), NEW k, NEW image, NEW ls \in Seq(Layer),
         NEW found, PlacesRight(ly, {}, k, image, ls, found), None \notin ToSet(found)
  PROVE  /\ ToSet(found) \subseteq P
         /\ \A l \in ToSet(ls) : Uploaded(l, Len(Steps[l]) + 1, P)
<1>1. found \in Seq(Digest \cup {None}) /\ Len(found) = Len(ls)
  BY DEF PlacesRight
<1>2. ASSUME NEW i \in 1 .. Len(ls)
      PROVE  found[i] \in P /\ Uploaded(ls[i], Len(Steps[ls[i]]) + 1, P)
  <2>1. ls[i] \in Layer /\ found[i] # None
    BY <1>1 DEF ToSet
  <2>2. ly[ls[i]] = Got(found[i])
    BY <2>1 DEF PlacesRight, PlaceRight
  <2>3. ly[ls[i]].st = "got" /\ ly[ls[i]].val = found[i]
    BY <2>2 DEF Got
  <2>4. LayerKnown(P, ls[i], ly[ls[i]])
    BY <2>1 DEF KnownIn
  <2>5. QED
    BY <2>3, <2>4 DEF LayerKnown
<1>3. \A l \in ToSet(ls) : \E i \in 1 .. Len(ls) : ls[i] = l
  BY InSequence
<1>4. \A x \in ToSet(found) : \E i \in 1 .. Len(ls) : found[i] = x
  BY <1>1, InSequence
<1>5. QED
  BY <1>2, <1>3, <1>4

\* A job that has all it needs, needs nothing that is not known.
LEMMA ReadyIsKnown ==
  ASSUME NEW ly, NEW bu, NEW P, KnownIn(ly, bu, P), NEW k, NEW job,
         JobRight(ly, {}, k, job), IsReady(job)
  PROVE  NeededFor(BaseSpec(job)) \subseteq P
<1> DEFINE r == BaseSpec(job)
           ms == job.spec.imageVal["layers"]
           ns == job.spec.val["layers"]
           x == job.imageLayers
           y == job.layers
<1>1. r.spec = job.spec /\ r.layers = x \o y
  BY DEF BaseSpec
<1>2. /\ ms \in Seq(Layer) /\ ns \in Seq(Layer) /\ LayersOf(r.spec) = ms \o ns
      /\ PlacesRight(ly, {}, k, TRUE, ms, x) /\ PlacesRight(ly, {}, k, FALSE, ns, y)
      /\ None \notin ToSet(x) \cup ToSet(y)
  BY <1>1 DEF JobRight, SpecRight, LayersOf, IsReady
<1> HIDE DEF r, ms, ns, x, y
<1>3. /\ ToSet(x) \subseteq P /\ ToSet(y) \subseteq P
      /\ \A l \in ToSet(ms) \cup ToSet(ns) : Uploaded(l, Len(Steps[l]) + 1, P)
  BY <1>2, PlacesKnown
<1>4. x \in Seq(Digest \cup {None}) /\ y \in Seq(Digest \cup {None})
  BY <1>2 DEF PlacesRight
<1>5. \A D : \A s \in Seq(D) : \A t \in Seq(D) : ToSet(s \o t) \subseteq ToSet(s) \cup ToSet(t)
  <2>1. ASSUME NEW D, NEW s \in Seq(D), NEW t \in Seq(D), NEW e \in ToSet(s \o t)
        PROVE  e \in ToSet(s) \cup ToSet(t)
    <3>1. s \o t \in Seq(D) /\ Len(s \o t) = Len(s) + Len(t)
      OBVIOUS
    <3>2. PICK i \in 1 .. Len(s \o t) : (s \o t)[i] = e
      BY <2>1, <3>1, InSequence
    <3>3. CASE i <= Len(s)
      <4>1. i \in 1 .. Len(s) /\ s[i] = e
        BY <3>1, <3>2, <3>3
      <4>2. QED
        BY <4>1, InSequence
    <3>4. CASE i > Len(s)
      <4>1. i - Len(s) \in 1 .. Len(t) /\ t[i - Len(s)] = e
        BY <3>1, <3>2, <3>4
      <4>2. QED
        BY <4>1, InSequence
    <3>5. QED
      BY <3>1, <3>2, <3>3, <3>4
  <2>2. QED
    BY <2>1
<1>6. ToSet(r.layers) \subseteq P
  BY <1>1, <1>3, <1>4, <1>5
<1>7. ToSet(LayersOf(r.spec)) \subseteq ToSet(ms) \cup ToSet(ns)
  BY <1>2, <1>5
<1>8. ASSUME NEW l \in ToSet(LayersOf(r.spec)), NEW z \in Uploads(l), Files[z] # None
      PROVE  Files[z] \in P
  <2>1. l \in Layer
    <3>1. ToSet(ms) \subseteq Layer /\ ToSet(ns) \subseteq Layer
      BY <1>2 DEF ToSet
    <3>2. QED
      BY <1>7, <3>1
  <2>2. Steps[l] \in Seq({Write(p, d) : p \in Path, d \in Digest} \cup {Upload(p) : p \in Path})
    BY <2>1, FilesAssumption
  <2>3. PICK n \in DOMAIN Steps[l] : Steps[l][n].op = "upload" /\ Steps[l][n].path = z
    BY <1>8 DEF Uploads
  <2>4. n \in 1 .. Len(Steps[l]) /\ n < Len(Steps[l]) + 1
    BY <2>2, <2>3
  <2>5. Uploaded(l, Len(Steps[l]) + 1, P)
    BY <1>3, <1>7
  <2>6. QED
    BY <1>8, <2>3, <2>4, <2>5 DEF Uploaded
<1>9. QED
  BY <1>6, <1>8 DEF NeededFor, r

\* A job is kept as it was, or gone.
Leaves(js, ks) == \A k \in Job : ks[k] = NoJob \/ ks[k] = js[k]

LEMMA ImagesStay ==
  ASSUME NEW im, NEW js, NEW S, ImagesRight(im, js, S),
         NEW ks, \A k \in Job : ks[k] = NoJob \/ (js[k] # NoJob /\ ks[k].spec = js[k].spec),
         NEW T, S \subseteq T
  PROVE  ImagesRight(im, ks, T)
<1>1. ASSUME NEW i \in Image
      PROVE  ImageEntryRight(i, im[i], ks, T)
  <2>1. ImageEntryRight(i, im[i], js, S)
    BY DEF ImagesRight
  <2>2. CASE im[i] \in {Unknown, Err, Got(i)}
    BY <2>2 DEF ImageEntryRight
  <2>3. CASE im[i] \notin {Unknown, Err, Got(i)}
    <3> DEFINE q == im[i].wait
    <3>1. /\ im[i] = Getting(q) /\ q \in Seq(Job) /\ IsInjective(q)
          /\ \A n \in 1 .. Len(q) :
               /\ q[n] \in S
               /\ js[q[n]] # NoJob => js[q[n]].spec.image # None /\ js[q[n]].spec.image.name = i
      BY <2>1, <2>3, Zenon DEF ImageEntryRight
    <3> HIDE DEF q
    <3>2. ASSUME NEW n \in 1 .. Len(q), ks[q[n]] # NoJob
          PROVE  ks[q[n]].spec.image # None /\ ks[q[n]].spec.image.name = i
      <4>1. q[n] \in Job
        BY <3>1
      <4>2. js[q[n]] # NoJob /\ ks[q[n]].spec = js[q[n]].spec
        BY <3>2, <4>1
      <4>3. QED
        BY <3>1, <4>2
    <3>3. QED
      BY <3>1, <3>2 DEF ImageEntryRight, q
  <2>4. QED
    BY <2>2, <2>3
<1>2. ASSUME NEW j \in Job, ks[j] # NoJob, ks[j].spec.image # None
      PROVE  Listed(im[ks[j].spec.image.name], j)
  BY <1>2 DEF ImagesRight
<1>3. QED
  BY <1>1, <1>2 DEF ImagesRight

\* The jobs that leave the preparer are those that it has kept or that failed.
HandedRight(P, K, ph, pr, ph2, pr2) ==
  \A k \in Job :
    /\ ph[k] \in Handed => ph2[k] = ph[k] /\ pr2[k] = pr[k]
    /\ ph[k] \notin Handed /\ ph2[k] \in Handed => NeededFor(pr2[k]) \subseteq P

LEMMA RouterStays ==
  ASSUME NEW q, NEW a, NEW ph, NEW pr, NEW P, NEW R, NEW W, RouterRight(q, a, ph, pr, P, R, W),
         NEW ph2, NEW pr2, NEW K, HandedRight(P, K, ph, pr, ph2, pr2)
  PROVE  RouterRight(q, a, ph2, pr2, P, R, W)
<1>1. \A n \in 1 .. Len(q) : q[n].kind = "RunJob" => q[n].job \in Job
  BY DEF RouterRight, Messages
<1>2. {"running", "done"} \subseteq Handed
  BY DEF Handed
<1>3. \A j \in Job : ph2[j] \in Handed => NeededFor(pr2[j]) \subseteq P
  BY DEF RouterRight, HandedRight
<1>4. ASSUME NEW n \in 1 .. Len(q), q[n].kind = "RunJob"
      PROVE  /\ ph2[q[n].job] \in {"running", "done"}
             /\ \A d \in NeededFor(pr2[q[n].job]) : Announces(q, a, n, d)
  <2> DEFINE j == q[n].job
  <2>1. j \in Job /\ ph[j] \in {"running", "done"}
    BY <1>1, <1>4 DEF RouterRight
  <2>2. ph2[j] = ph[j] /\ pr2[j] = pr[j]
    BY <1>2, <2>1 DEF HandedRight
  <2>3. QED
    BY <1>4, <2>1, <2>2 DEF RouterRight
<1>5. ASSUME NEW j \in W
      PROVE  ph2[j] \in {"running", "done"} /\ \A d \in NeededFor(pr2[j]) : a[d] # None
  <2>1. j \in Job /\ ph[j] \in {"running", "done"}
    BY DEF RouterRight
  <2>2. ph2[j] = ph[j] /\ pr2[j] = pr[j]
    BY <1>2, <2>1 DEF HandedRight
  <2>3. QED
    BY <2>1, <2>2 DEF RouterRight
<1>6. QED
  BY <1>3, <1>4, <1>5 DEF RouterRight

\* What a handler may do to the layers and builds: a layer is got with what its
\* build came to, and a build begins or is gone.
Follows(ly, bu) ==
  \A l \in Layer :
    /\ ly[l].st = "got" /\ ly[l] # layers[l] =>
         /\ building[l].step > Len(Steps[l]) /\ building[l].digest # None
         /\ ly[l] = Got(building[l].digest)
    /\ bu[l] = building[l] \/ bu[l].step \in {0, 1}

\* The spec r of a job has the layers that its own spec names, as they were got.
GotAll(ly, r) ==
  LET ls == LayersOf(r.spec) IN
  /\ ls \in Seq(Layer) /\ DOMAIN r.layers = 1 .. Len(ls) /\ r.layers \in Seq(Digest)
  /\ \A i \in 1 .. Len(ls) : ly[ls[i]] = Got(r.layers[i])

HandedAs(ly, pr, pr2) == \A k \in Job : pr2[k] = pr[k] \/ GotAll(ly, pr2[k])

Handles == /\ Follows(layers', building') /\ HandedAs(layers', prepared, prepared')
           /\ files' = files

LEMMA ProgressFollows ==
  ASSUME NEW t, Progress(Now, t)
  PROVE  Follows(t.layers, t.building)
<1>1. PICK p : p = Now
  OBVIOUS
<1>2. Progress(p, t) /\ p.layers = layers /\ p.building = building
  BY <1>1, NowFields
<1>3. ASSUME NEW l \in Layer
      PROVE  /\ t.layers[l].st = "got" => t.layers[l] = layers[l]
             /\ t.building[l] = building[l] \/ t.building[l].step \in {0, 1}
  BY <1>2 DEF Progress, Begins
<1>4. QED
  BY <1>3 DEF Follows

\* The state p in which a handler ends, before it starts the jobs of J that are
\* ready, with the images im.
EndsWith(p, J, K, S, ph, im, P) ==
  /\ ph \in [Job -> Phases] /\ KeptRight(p, K, S, {}) /\ S \subseteq Job
  /\ \A k \in K \cap Job : ph[k] \in {"none", "preparing"}
  /\ \A k \in Job : ph[k] # "none" => k \in S
  /\ \A k \in S : ph[k] # "none" \/ p.jobs[k] # NoJob \/ k \in p.failed
  /\ ImagesRight(im, p.jobs, S) /\ KnownIn(p.layers, p.building, P)
  /\ \A k \in Job \ J : p.jobs[k] # NoJob => ~IsReady(p.jobs[k])
  /\ Follows(p.layers, p.building)

\* What was found for the layers ls is what was got for them.
FoundAll(ly, ls, found) ==
  /\ found \in Seq(Digest) /\ Len(found) = Len(ls)
  /\ \A i \in 1 .. Len(ls) : ly[ls[i]] = Got(found[i])

LEMMA PlacesGot ==
  ASSUME NEW ly, NEW k, NEW image, NEW ls \in Seq(Layer), NEW found,
         PlacesRight(ly, {}, k, image, ls, found), None \notin ToSet(found)
  PROVE  FoundAll(ly, ls, found)
<1>1. found \in Seq(Digest \cup {None}) /\ Len(found) = Len(ls)
  BY DEF PlacesRight
<1>2. ASSUME NEW i \in 1 .. Len(ls)
      PROVE  found[i] \in Digest /\ ly[ls[i]] = Got(found[i])
  <2>1. found[i] # None /\ found[i] \in Digest \cup {None}
    BY <1>1 DEF ToSet
  <2>2. QED
    BY <2>1, Zenon DEF PlacesRight, PlaceRight
<1>3. QED
  BY <1>1, <1>2 DEF FoundAll

LEMMA ReadyIsGot ==
  ASSUME NEW ly, NEW k, NEW job, JobRight(ly, {}, k, job), IsReady(job)
  PROVE  GotAll(ly, BaseSpec(job))
<1> DEFINE r == BaseSpec(job)
           ms == job.spec.imageVal["layers"]
           ns == job.spec.val["layers"]
           x == job.imageLayers
           y == job.layers
<1>1. r.spec = job.spec /\ r.layers = x \o y
  BY DEF BaseSpec
<1>2. /\ ms \in Seq(Layer) /\ ns \in Seq(Layer) /\ LayersOf(r.spec) = ms \o ns
      /\ PlacesRight(ly, {}, k, TRUE, ms, x) /\ PlacesRight(ly, {}, k, FALSE, ns, y)
      /\ None \notin ToSet(x) /\ None \notin ToSet(y)
  BY <1>1 DEF JobRight, SpecRight, LayersOf, IsReady
<1> HIDE DEF r, ms, ns, x, y
<1>3. /\ x \in Seq(Digest) /\ Len(x) = Len(ms) /\ \A i \in 1 .. Len(ms) : ly[ms[i]] = Got(x[i])
      /\ y \in Seq(Digest) /\ Len(y) = Len(ns) /\ \A i \in 1 .. Len(ns) : ly[ns[i]] = Got(y[i])
  <2>1. FoundAll(ly, ms, x)
    BY <1>2, PlacesGot
  <2>2. FoundAll(ly, ns, y)
    BY <1>2, PlacesGot
  <2>3. QED
    BY <2>1, <2>2 DEF FoundAll
<1>4. /\ ms \o ns \in Seq(Layer) /\ x \o y \in Seq(Digest)
      /\ Len(ms \o ns) = Len(ms) + Len(ns) /\ Len(x \o y) = Len(ms) + Len(ns)
      /\ Len(ms) \in Nat /\ Len(ns) \in Nat
  <2>1. \A A : \A u \in Seq(A) : \A v \in Seq(A) :
          u \o v \in Seq(A) /\ Len(u \o v) = Len(u) + Len(v)
    BY ConcatProperties
  <2>2. ms \o ns \in Seq(Layer) /\ Len(ms \o ns) = Len(ms) + Len(ns)
    BY <1>2, <2>1, Zenon
  <2>3. x \o y \in Seq(Digest) /\ Len(x \o y) = Len(x) + Len(y)
    BY <1>3, <2>1, Zenon
  <2>4. Len(ms) \in Nat /\ Len(ns) \in Nat /\ Len(x) = Len(ms) /\ Len(y) = Len(ns)
    BY <1>2, <1>3, Zenon, LenProperties
  <2>5. QED
    BY <2>2, <2>3, <2>4
<1>5. ASSUME NEW i \in 1 .. Len(ms \o ns)
      PROVE  ly[(ms \o ns)[i]] = Got((x \o y)[i])
  <2> DEFINE n == Len(ms)
  <2>0. i \in Nat /\ n \in Nat
    BY <1>4
  <2>1. CASE i <= Len(ms)
    <3>1. i \in 1 .. Len(ms) /\ (ms \o ns)[i] = ms[i] /\ (x \o y)[i] = x[i]
      BY <1>2, <1>3, <1>4, <2>1
    <3>2. QED
      BY <1>3, <3>1
  <2>2. CASE i > Len(ms)
    <3>1. /\ i - Len(ms) \in 1 .. Len(ns)
          /\ (ms \o ns)[i] = ns[i - Len(ms)] /\ (x \o y)[i] = y[i - Len(ms)]
      BY <1>2, <1>3, <1>4, <2>2
    <3>2. QED
      BY <1>3, <3>1
  <2>3. i <= n \/ i > n
    BY <2>0
  <2>4. QED
    BY <2>1, <2>2, <2>3, Zenon
<1>6. DOMAIN (x \o y) = 1 .. Len(ms \o ns)
  BY <1>4
<1>7. GotAll(ly, r)
  BY <1>1, <1>2, <1>4, <1>5, <1>6 DEF GotAll
<1>8. QED
  BY <1>7 DEF r

\* The jobs that are handed over have all their layers.
LEMMA SettleHandles ==
  ASSUME NEW p, NEW J, NEW K, NEW S, NEW im,
         EndsWith(p, J, K, S, phase, im, processed), Settle(p, J), files' = files
  PROVE  Handles
<1> DEFINE ready == {k \in J : p.jobs[k] # NoJob /\ IsReady(p.jobs[k])}
           good == {k \in ready : Accepted(k, p.jobs[k])}
<1>1. PICK pr : pr = prepared'
  OBVIOUS
<1>2. /\ layers' = p.layers /\ building' = p.building
      /\ pr = [k \in Job |-> IF k \in good THEN BaseSpec(p.jobs[k]) ELSE prepared[k]]
  BY <1>1, Zenon DEF Settle
<1>3. \A k \in good : p.jobs[k] # NoJob /\ IsReady(p.jobs[k])
  OBVIOUS
<1> HIDE DEF ready, good
<1>4. \A k \in Job : p.jobs[k] # NoJob => JobRight(p.layers, {}, k, p.jobs[k])
  BY DEF EndsWith, KeptRight
<1>5. ASSUME NEW k \in Job
      PROVE  pr[k] = prepared[k] \/ GotAll(p.layers, pr[k])
  <2>1. CASE k \in good
    <3>1. GotAll(p.layers, BaseSpec(p.jobs[k]))
      BY <1>3, <1>4, <2>1, ReadyIsGot
    <3>2. QED
      BY <1>2, <2>1, <3>1
  <2>2. CASE k \notin good
    BY <1>2, <2>2
  <2>3. QED
    BY <2>1, <2>2
<1>6. HandedAs(p.layers, prepared, pr)
  BY <1>5 DEF HandedAs
<1>7. Follows(p.layers, p.building)
  BY DEF EndsWith
<1>8. QED
  BY <1>1, <1>2, <1>6, <1>7 DEF Handles

LEMMA SettleIsRight ==
  ASSUME NEW p, NEW J, NEW K, NEW S, NEW im,
         EndsWith(p, J, K, S, phase, im, processed), Settle(p, J), broken = FALSE
  PROVE  /\ broken' = FALSE /\ PreparerRight(Now', phase', im, processed)
         /\ HandedRight(processed, K, phase, prepared, phase', prepared')
<1> DEFINE ready == {k \in J : p.jobs[k] # NoJob /\ IsReady(p.jobs[k])}
           good == {k \in ready : Accepted(k, p.jobs[k])}
<1>1. KeptRight(p, K, S, {}) /\ PrepTyped(p) /\ Accounts(p) /\ p.panic = FALSE
  BY DEF EndsWith, KeptRight, PrepTyped
<1>2. PICK t : t = Now'
  OBVIOUS
<1>3. /\ DOMAIN t = PrepFields /\ t.layers = p.layers /\ t.pending = p.pending
      /\ t.waiting = p.waiting /\ t.building = p.building /\ t.failed = {} /\ t.panic = FALSE
      /\ t.jobs = [k \in Job |-> IF k \in ready THEN NoJob ELSE p.jobs[k]]
  <2>1. /\ layers' = p.layers /\ pending' = p.pending /\ waiting' = p.waiting
        /\ building' = p.building
        /\ jobs' = [k \in Job |-> IF k \in ready THEN NoJob ELSE p.jobs[k]]
    BY Zenon DEF Settle
  <2> HIDE DEF ready
  <2>2. QED
    BY <1>2, <2>1 DEF Now, PrepFields
<1>4. broken' = (broken \/ p.panic)
  BY Zenon DEF Settle
<1>5. PICK ph : ph = phase'
  OBVIOUS
<1>6. PICK pr : pr = prepared'
  OBVIOUS
<1>7. /\ pr = [k \in Job |-> IF k \in good THEN BaseSpec(p.jobs[k]) ELSE prepared[k]]
      /\ ph = [k \in Job |-> IF k \in good THEN "prepared"
                              ELSE IF k \in ready \cup p.failed THEN "failed"
                              ELSE IF p.jobs[k] # NoJob THEN "preparing" ELSE phase[k]]
  BY <1>5, <1>6, Zenon DEF Settle
<1>8. \A k \in Job : k \in ready => p.jobs[k] # NoJob /\ IsReady(p.jobs[k])
  OBVIOUS
<1>9. \A k \in Job : p.jobs[k] # NoJob /\ IsReady(p.jobs[k]) => k \in ready
  BY DEF EndsWith
<1>10. good \subseteq ready
  OBVIOUS
<1> HIDE DEF ready, good
<1>11. /\ \A k \in Job : p.jobs[k] # NoJob => k \in K /\ JobRight(p.layers, {}, k, p.jobs[k])
       /\ p.failed \subseteq K \cap Job /\ \A k \in p.failed : p.jobs[k] = NoJob
       /\ \A k \in K \cap Job : phase[k] \in {"none", "preparing"}
       /\ phase \in [Job -> Phases]
  BY <1>1 DEF KeptRight, EndsWith
<1>12. ph \in [Job -> Phases]
  BY <1>7, <1>11 DEF Phases
<1>13. Leaves(p.jobs, t.jobs)
  BY <1>3 DEF Leaves
<1>14. \A k \in Job : t.jobs[k] # NoJob =>
          /\ t.jobs[k] = p.jobs[k] /\ p.jobs[k] # NoJob /\ ph[k] = "preparing" /\ ~IsReady(t.jobs[k])
  BY <1>3, <1>7, <1>9, <1>10, <1>11
<1>15. \A k \in S : k \in Job /\ ph[k] # "none"
  BY <1>7, <1>11 DEF EndsWith
<1> DEFINE L == {k \in Job : ph[k] = "preparing"}
           T == {k \in Job : ph[k] # "none"}
<1>16. KeptRight(t, L, T, {})
  <2>1. PrepTyped(t) /\ RunningIn(t) = RunningIn(p)
    BY <1>1, <1>3 DEF PrepTyped, RunningIn
  <2>2. Accounts(t)
    BY <1>1, <1>3, <2>1 DEF Accounts
  <2>3. \A k \in Job : t.jobs[k] # NoJob => k \in L /\ JobRight(t.layers, {}, k, t.jobs[k])
    BY <1>3, <1>11, <1>14
  <2>4. ASSUME NEW m \in Layer, NEW w, WaitsIn(t.layers, {}, m, w)
        PROVE  WaiterRight(t, T, m, w)
    <3>1. WaiterRight(p, S, m, w)
      BY <1>1, <1>3, <2>4 DEF KeptRight
    <3>2. w[2] \in Job
      BY <3>1 DEF WaiterRight, Waiter
    <3>3. QED
      BY <1>14, <1>15, <3>1, <3>2 DEF WaiterRight
  <2>5. QED
    BY <1>3, <2>1, <2>2, <2>3, <2>4 DEF KeptRight
<1>17. NoneReady(t.jobs)
  BY <1>14 DEF NoneReady
<1>18. ImagesRight(im, t.jobs, T)
  <2>1. S \subseteq T
    BY <1>15
  <2>2. \A k \in Job : t.jobs[k] = NoJob \/ (p.jobs[k] # NoJob /\ t.jobs[k].spec = p.jobs[k].spec)
    BY <1>14
  <2>3. ImagesRight(im, p.jobs, S)
    BY DEF EndsWith
  <2> HIDE DEF T
  <2>4. QED
    BY <2>1, <2>2, <2>3, ImagesStay
<1>19. PreparerRight(t, ph, im, processed)
  BY <1>3, <1>12, <1>16, <1>17, <1>18 DEF PreparerRight, EndsWith
<1>20. ASSUME NEW k \in Job
       PROVE  /\ phase[k] \in Handed => ph[k] = phase[k] /\ pr[k] = prepared[k]
              /\ phase[k] \notin Handed /\ ph[k] \in Handed => NeededFor(pr[k]) \subseteq processed
  <2>1. CASE k \in good
    <3>1. k \in K /\ JobRight(p.layers, {}, k, p.jobs[k]) /\ IsReady(p.jobs[k])
      BY <1>8, <1>10, <1>11, <2>1
    <3>2. phase[k] \notin Handed /\ pr[k] = BaseSpec(p.jobs[k])
      BY <1>7, <1>11, <2>1, <3>1 DEF Handed
    <3>3. NeededFor(pr[k]) \subseteq processed
      BY <3>1, <3>2, ReadyIsKnown DEF EndsWith
    <3>4. QED
      BY <3>2, <3>3
  <2>2. CASE k \notin good
    <3>1. pr[k] = prepared[k] /\ (ph[k] \in {"failed", "preparing"} \/ ph[k] = phase[k])
      BY <1>7, <2>2
    <3>2. phase[k] \in Handed => k \notin K
      BY <1>11 DEF Handed
    <3>3. k \notin K => k \notin ready \cup p.failed /\ p.jobs[k] = NoJob
      BY <1>8, <1>11
    <3>4. k \notin K => ph[k] = phase[k]
      BY <1>7, <2>2, <3>3
    <3>5. QED
      BY <3>1, <3>2, <3>4 DEF Handed
  <2>3. QED
    BY <2>1, <2>2
<1>21. HandedRight(processed, K, phase, prepared, ph, pr)
  BY <1>20 DEF HandedRight
<1>22. broken' = FALSE
  BY <1>1, <1>4
<1>23. QED
  BY <1>2, <1>5, <1>6, <1>19, <1>21, <1>22, Zenon

\* The rest of the client is not touched by the preparer's handlers.
LEMMA HandlerEnds ==
  ASSUME ClientRight, NEW p, NEW J, NEW K, NEW S, NEW im,
         EndsWith(p, J, K, S, phase, im, processed), Settle(p, J), images' = im,
         UNCHANGED <<containers, files, processed, routerVars>>
  PROVE  ClientRight' /\ Handles
<1>1. broken = FALSE /\ Handles
  BY SettleHandles, Zenon DEF ClientRight
<1>2. /\ broken' = FALSE /\ PreparerRight(Now', phase', im, processed)
      /\ HandedRight(processed, K, phase, prepared, phase', prepared')
  BY <1>1, SettleIsRight, Zenon
<1>3. PICK t : t = Now'
  OBVIOUS
<1>4. /\ containers' = containers /\ files' = files /\ processed' = processed
      /\ routerQueue' = routerQueue /\ artifacts' = artifacts /\ routed' = routed
      /\ atBroker' = atBroker /\ atWorker' = atWorker
  BY DEF routerVars
<1>5. PreparerRight(t, phase', images', processed')
  BY <1>2, <1>3, <1>4
<1>6. PICK ph : ph = phase'
  OBVIOUS
<1>7. PICK pr : pr = prepared'
  OBVIOUS
<1>8. HandedRight(processed, K, phase, prepared, ph, pr)
  BY <1>2, <1>6, <1>7
<1>9. RouterRight(routerQueue, artifacts, ph, pr, processed, routed, atBroker \cup atWorker)
  BY <1>8, RouterStays DEF ClientRight
<1>10. RouterRight(routerQueue', artifacts', phase', prepared', processed', routed',
                   atBroker' \cup atWorker')
  BY <1>4, <1>6, <1>7, <1>9
<1>11. containers' \in Containers /\ FilesRight(files')
  BY <1>4 DEF ClientRight
<1>12. ClientRight'
  BY <1>2, <1>3, <1>5, <1>10, <1>11 DEF ClientRight
<1>13. QED
  BY <1>1, <1>12

LEMMA BuildBeginsKnown ==
  ASSUME NEW P, NEW l, NEW b, NEW c, BuildRight(P, l, b),
         c = b \/ (c.step = 1 /\ c.digest = b.digest)
  PROVE  BuildRight(P, l, c)
<1>1. Uploaded(l, 1, P)
  BY DEF Uploaded
<1>2. QED
  BY <1>1 DEF BuildRight

LEMMA KnownStays ==
  ASSUME NEW p, NEW t, NEW P, KnownIn(p.layers, p.building, P), Progress(p, t)
  PROVE  KnownIn(t.layers, t.building, P)
<1>1. ASSUME NEW l \in Layer
      PROVE  LayerKnown(P, l, t.layers[l]) /\ BuildRight(P, l, t.building[l])
  <2>1. LayerKnown(P, l, p.layers[l]) /\ BuildRight(P, l, p.building[l])
    BY DEF KnownIn
  <2>2. t.building[l] = p.building[l]
        \/ (t.building[l].step = 1 /\ t.building[l].digest = p.building[l].digest)
    BY DEF Progress, Begins
  <2>3. BuildRight(P, l, t.building[l])
    BY <2>1, <2>2, BuildBeginsKnown
  <2>4. t.layers[l].st = "got" => t.layers[l] = p.layers[l]
    BY DEF Progress
  <2>5. QED
    BY <2>1, <2>3, <2>4 DEF LayerKnown
<1>2. QED
  BY <1>1 DEF KnownIn

\* A job that is new is on no list.
LEMMA EntryStays ==
  ASSUME NEW i, NEW e, NEW js, NEW S, ImageEntryRight(i, e, js, S), NEW j, j \notin S,
         NEW ks, \A k \in Job \ {j} : ks[k] = js[k]
  PROVE  ImageEntryRight(i, e, ks, S \cup {j})
<1>1. CASE e \in {Unknown, Err, Got(i)}
  BY <1>1 DEF ImageEntryRight
<1>2. CASE e \notin {Unknown, Err, Got(i)}
  <2> DEFINE q == e.wait
  <2>1. /\ e = Getting(q) /\ q \in Seq(Job) /\ IsInjective(q)
        /\ \A n \in 1 .. Len(q) :
             /\ q[n] \in S
             /\ js[q[n]] # NoJob => js[q[n]].spec.image # None /\ js[q[n]].spec.image.name = i
    BY <1>2, Zenon DEF ImageEntryRight
  <2> HIDE DEF q
  <2>2. \A n \in 1 .. Len(q) : q[n] \in Job \ {j} /\ ks[q[n]] = js[q[n]]
    BY <2>1
  <2>3. QED
    BY <2>1, <2>2 DEF ImageEntryRight, q
<1>3. QED
  BY <1>1, <1>2

\* A job that is new and lacks no image.
LEMMA ImagesForMore ==
  ASSUME NEW im, NEW js, NEW S, ImagesRight(im, js, S), NEW j \in Job, j \notin S,
         NEW ks, \A k \in Job \ {j} : ks[k] = js[k], ks[j] # NoJob => ks[j].spec.image = None
  PROVE  ImagesRight(im, ks, S \cup {j})
<1>1. \A i \in Image : ImageEntryRight(i, im[i], ks, S \cup {j})
  BY EntryStays DEF ImagesRight
<1>2. \A k \in Job : ks[k] # NoJob /\ ks[k].spec.image # None =>
        Listed(im[ks[k].spec.image.name], k)
  BY DEF ImagesRight
<1>3. QED
  BY <1>1, <1>2 DEF ImagesRight

\* A job that is new joins those that wait for its image.
LEMMA ImagesForOne ==
  ASSUME NEW im, NEW js, NEW S, S \subseteq Job, ImagesRight(im, js, S), NEW j \in Job, j \notin S,
         NEW ks, \A k \in Job \ {j} : ks[k] = js[k], NEW i \in Image,
         ks[j].spec.image # None /\ ks[j].spec.image.name = i,
         NEW q, \/ im[i].st = "none" /\ q = <<>>
                \/ im[i].st = "getting" /\ q = im[i].wait
  PROVE  ImagesRight([im EXCEPT ![i] = Getting(Append(q, j))], ks, S \cup {j})
<1> DEFINE s == Append(q, j)
           e == Getting(s)
           f == [im EXCEPT ![i] = e]
<1>1. im = [k \in Image |-> im[k]] /\ ImageEntryRight(i, im[i], js, S)
  BY DEF ImagesRight
<1>2. q \in Seq(Job) /\ IsInjective(q) /\ \A n \in 1 .. Len(q) : q[n] \in S \ {j}
  <2>1. CASE im[i].st = "none"
    <3>1. q = <<>>
      BY <2>1
    <3>2. QED
      BY <3>1 DEF IsInjective
  <2>2. CASE im[i].st = "getting"
    <3>1. im[i] \notin {Unknown, Err, Got(i)}
      BY <2>2 DEF Unknown, Err, Got
    <3>2. q = im[i].wait
      BY <2>2
    <3>3. /\ im[i] = Getting(q) /\ q \in Seq(Job) /\ IsInjective(q)
          /\ \A n \in 1 .. Len(q) : q[n] \in S
      BY <1>1, <3>1, <3>2, Zenon DEF ImageEntryRight
    <3>4. QED
      BY <3>3
  <2>3. QED
    BY <2>1, <2>2
<1>3. s \in Seq(Job) /\ Len(s) = Len(q) + 1 /\ s[Len(s)] = j /\ \A n \in 1 .. Len(q) : s[n] = q[n]
  BY <1>2
<1>4. IsInjective(s)
  BY <1>2, <1>3 DEF IsInjective
<1>5. e.st = "getting" /\ e.wait = s /\ e = Getting(e.wait)
  BY DEF Getting
<1>6. f[i] = e /\ DOMAIN f = Image /\ f = [k \in Image |-> f[k]]
      /\ \A k \in Image \ {i} : f[k] = im[k]
  BY <1>1
<1> HIDE DEF s, e, f
<1>7. ImageEntryRight(i, e, ks, S \cup {j})
  <2>1. ASSUME NEW n \in 1 .. Len(s)
        PROVE  /\ s[n] \in S \cup {j}
               /\ ks[s[n]] # NoJob => ks[s[n]].spec.image # None /\ ks[s[n]].spec.image.name = i
    <3>1. CASE n = Len(s)
      BY <1>3, <3>1
    <3>2. CASE n # Len(s)
      <4>1. n \in 1 .. Len(q) /\ s[n] = q[n]
        BY <1>2, <1>3, <3>2
      <4>2. s[n] \in S \ {j} /\ ks[s[n]] = js[s[n]]
        BY <1>2, <4>1
      <4>3. im[i].st = "getting"
        BY <4>1
      <4>4. im[i] \notin {Unknown, Err, Got(i)} /\ q = im[i].wait
        BY <4>3 DEF Unknown, Err, Got
      <4>5. \A m \in 1 .. Len(q) :
              js[q[m]] # NoJob => js[q[m]].spec.image # None /\ js[q[m]].spec.image.name = i
        BY <1>1, <4>4, Zenon DEF ImageEntryRight
      <4>6. QED
        BY <4>1, <4>2, <4>5
    <3>3. QED
      BY <3>1, <3>2
  <2>2. QED
    BY <1>3, <1>4, <1>5, <2>1 DEF ImageEntryRight
<1>8. ASSUME NEW k \in Image, k # i
      PROVE  ImageEntryRight(k, f[k], ks, S \cup {j})
  <2>1. ImageEntryRight(k, im[k], js, S) /\ f[k] = im[k]
    BY <1>6, <1>8 DEF ImagesRight
  <2>2. ImageEntryRight(k, im[k], ks, S \cup {j})
    BY <2>1, EntryStays
  <2>3. QED
    BY <2>1, <2>2
<1>9. ASSUME NEW k \in Job, ks[k] # NoJob, ks[k].spec.image # None
      PROVE  Listed(f[ks[k].spec.image.name], k)
  <2>1. CASE k = j
    <3>1. Len(s) \in 1 .. Len(s)
      BY <1>2, <1>3
    <3>2. QED
      BY <1>3, <1>5, <1>6, <2>1, <3>1 DEF Listed
  <2>2. CASE k # j
    <3> DEFINE h == ks[k].spec.image.name
    <3>1. Listed(im[h], k)
      BY <1>9, <2>2 DEF ImagesRight
    <3> HIDE DEF h
    <3>2. CASE h = i
      <4>1. PICK n \in 1 .. Len(q) : q[n] = k
        BY <3>1, <3>2 DEF Listed
      <4>2. n \in 1 .. Len(s) /\ s[n] = k
        BY <1>2, <1>3, <4>1
      <4>3. QED
        BY <1>5, <1>6, <3>2, <4>2 DEF Listed, h
    <3>3. CASE h # i
      <4>1. f[h] = im[h]
        BY <1>1, <1>6, <3>3 DEF f
      <4>2. QED
        BY <3>1, <4>1 DEF h
    <3>4. QED
      BY <3>2, <3>3
  <2>3. QED
    BY <2>1, <2>2
<1>10. QED
  BY <1>6, <1>7, <1>8, <1>9 DEF ImagesRight, f, e, s

-----------------------------------------------------------------------------
\* The preparer's handlers.

LEMMA PreparerHas ==
  ASSUME ClientRight
  PROVE  /\ KeptRight(Now, Preparing, Seen, {}) /\ phase \in [Job -> Phases]
         /\ NoneReady(jobs) /\ ImagesRight(images, jobs, Seen) /\ KnownIn(layers, building, processed)
         /\ containers \in Containers /\ Seen \subseteq Job /\ Preparing \subseteq Seen
         /\ \A j \in Job : (j \in Seen <=> phase[j] # "none")
                           /\ (j \in Preparing <=> phase[j] = "preparing")
<1>1. PreparerRight(Now, phase, images, processed) /\ containers \in Containers
  BY DEF ClientRight
<1>2. Now.jobs = jobs /\ Now.layers = layers /\ Now.building = building
  BY NowFields
<1>3. /\ KeptRight(Now, Preparing, Seen, {}) /\ phase \in [Job -> Phases]
      /\ NoneReady(jobs) /\ ImagesRight(images, jobs, Seen) /\ KnownIn(layers, building, processed)
  BY <1>1, <1>2, Zenon DEF PreparerRight, Preparing, Seen
<1>4. QED
  BY <1>1, <1>3 DEF Preparing, Seen

\* A new job leaves the handler with the state t and the images im.
LEMMA NewJobEnds ==
  ASSUME ClientRight, NEW j \in Job, phase[j] = "none",
         NEW t, NEW im, Begun(Now, t, Preparing, Seen, j), t.jobs[j] # NoJob \/ j \in t.failed,
         NEW J, j \notin J => t.jobs[j] = NoJob \/ t.jobs[j].spec.image # None,
         ImagesRight(im, t.jobs, Seen \cup {j})
  PROVE  EndsWith(t, J, Preparing \cup {j}, Seen \cup {j}, phase, im, processed)
<1> USE PreparerHas
<1>1. KeptRight(t, Preparing \cup {j}, Seen \cup {j}, {}) /\ Progress(Now, t)
      /\ \A k \in Job \ {j} : t.jobs[k] = jobs[k]
  BY NowFields DEF Begun
<1>2. KnownIn(t.layers, t.building, processed)
  <2>1. PICK p : p = Now
    OBVIOUS
  <2>2. KnownIn(p.layers, p.building, processed) /\ Progress(p, t)
    BY <1>1, <2>1, NowFields
  <2>3. QED
    BY <2>2, KnownStays
<1>3. \A k \in (Preparing \cup {j}) \cap Job : phase[k] \in {"none", "preparing"}
  OBVIOUS
<1>4. \A k \in Seen \cup {j} : phase[k] # "none" \/ t.jobs[k] # NoJob \/ k \in t.failed
  OBVIOUS
<1>5. \A k \in Job \ J : t.jobs[k] # NoJob => ~IsReady(t.jobs[k])
  BY <1>1 DEF NoneReady, IsReady
<1>6. Follows(t.layers, t.building)
  BY <1>1, ProgressFollows
<1>7. QED
  BY <1>1, <1>2, <1>3, <1>4, <1>5, <1>6 DEF EndsWith

LEMMA BegunFurther ==
  ASSUME NEW p, NEW q, NEW t, NEW K, NEW S, NEW j \in Job, Begun(p, q, K, S, j),
         KeptRight(t, K \cup {j}, S \cup {j}, {}), Progress(q, t), Touches(q, t, j)
  PROVE  Begun(p, t, K, S, j)
<1>1. Progress(p, t)
  BY ProgressTrans DEF Begun
<1>2. QED
  BY <1>1 DEF Begun, Touches

LEMMA PrepareJobRight ==
  ASSUME ClientRight, NEW j \in Job, PrepareJob(j)
  PROVE  ClientRight' /\ Handles
<1> USE PreparerHas
<1>1. phase[j] = "none" /\ j \notin Seen /\ jobs[j] = NoJob
  <2>1. phase[j] = "none"
    BY DEF PrepareJob
  <2>2. j \notin Seen /\ j \notin Preparing
    BY <2>1
  <2>3. QED
    BY <2>1, <2>2, NowFields DEF KeptRight
<1> DEFINE spec == Collapse(SpecOf[j], containers)
           p == IF spec.err THEN [Now EXCEPT !.failed = {j}] ELSE Evaluated(j, spec)
           i == spec.image.name
<1>2. SpecRight(spec) /\ spec.imageVal["layers"] = <<>>
  BY CollapseIsRight
<1>3. UNCHANGED <<containers, files, processed, routerVars>>
  BY Zenon DEF PrepareJob
<1>4. IF p.failed # {} \/ spec.image = None THEN Settle(p, {j}) /\ UNCHANGED images
     ELSE CASE images[i].st = "none" ->
                 /\ images' = [images EXCEPT ![i] = Getting(<<j>>)]
                 /\ Settle(p, {})
            [] images[i].st = "getting" ->
                 /\ images' = [images EXCEPT ![i].wait = Append(@, j)]
                 /\ Settle(p, {})
            [] images[i].st = "got" ->
                 Settle(GotImageSuccess(p, j, Contents[i]), {j}) /\ UNCHANGED images
            [] images[i].st = "err" ->
                 Settle(JobError(p, j), {j}) /\ UNCHANGED images
  BY Zenon DEF PrepareJob
<1> HIDE DEF spec
<1>5. BegunWith(Now, p, Preparing, Seen, j, spec)
  <2>1. CASE spec.err
    <3>1. PICK q : q = Now
      OBVIOUS
    <3>2. KeptRight(q, Preparing, Seen, {}) /\ q.failed = {} /\ q.jobs[j] = NoJob
      BY <1>1, <3>1, NowFields
    <3>3. BegunWith(q, [q EXCEPT !.failed = {j}], Preparing, Seen, j, spec)
      BY <3>2, FailsAtOnce
    <3>4. QED
      BY <2>1, <3>1, <3>3
  <2>2. CASE ~spec.err
    BY <1>1, <1>2, <2>2, EvaluatedIsRight
  <2>3. QED
    BY <2>1, <2>2
<1> HIDE DEF p, i
<1>6. /\ Begun(Now, p, Preparing, Seen, j)
      /\ \/ p.failed = {j} /\ p.jobs[j] = NoJob
         \/ p.failed = {} /\ p.jobs[j] # NoJob /\ p.jobs[j].spec = spec
  BY <1>5 DEF BegunWith
<1>7. /\ KeptRight(p, Preparing \cup {j}, Seen \cup {j}, {})
      /\ \A k \in Job \ {j} : p.jobs[k] = jobs[k]
  BY <1>6, NowFields DEF Begun
<1> DEFINE K == Preparing \cup {j}
           S == Seen \cup {j}
\* The handler's state t is settled, with the images there are.
<1>8. ASSUME NEW t, Begun(Now, t, Preparing, Seen, j), t.jobs[j] # NoJob \/ j \in t.failed,
             t.jobs[j] # NoJob => t.jobs[j].spec.image = None,
             Settle(t, {j}), UNCHANGED images
      PROVE  ClientRight' /\ Handles
  <2>1. \A k \in Job \ {j} : t.jobs[k] = jobs[k]
    BY <1>8, NowFields DEF Begun
  <2>2. ImagesRight(images, t.jobs, S)
    BY <1>1, <1>8, <2>1, ImagesForMore
  <2>3. EndsWith(t, {j}, K, S, phase, images, processed)
    BY <1>1, <1>8, <2>2, NewJobEnds
  <2> HIDE DEF K, S
  <2>4. QED
    BY <1>3, <1>8, <2>3, HandlerEnds
\* The job waits for its image, with those in q.
<1>9. ASSUME p.failed = {}, spec.image # None, NEW q,
             \/ images[i].st = "none" /\ q = <<>>
             \/ images[i].st = "getting" /\ q = images[i].wait,
             Settle(p, {}), images' = [images EXCEPT ![i] = Getting(Append(q, j))]
      PROVE  ClientRight' /\ Handles
  <2>1. i \in Image
    BY <1>2, <1>9 DEF SpecRight, ImageRight, i
  <2>2. p.jobs[j] # NoJob /\ p.jobs[j].spec = spec
    BY <1>6, <1>9
  <2>3. p.jobs[j].spec.image # None /\ p.jobs[j].spec.image.name = i
    BY <1>9, <2>2 DEF i
  <2> DEFINE im == [images EXCEPT ![i] = Getting(Append(q, j))]
  <2>4. ImagesRight(im, p.jobs, S)
    BY <1>1, <1>7, <1>9, <2>1, <2>3, ImagesForOne
  <2>5. images' = im
    BY <1>9
  <2> HIDE DEF im
  <2>6. EndsWith(p, {}, K, S, phase, im, processed)
    BY <1>1, <1>6, <2>2, <2>3, <2>4, NewJobEnds
  <2> HIDE DEF K, S
  <2>7. QED
    BY <1>3, <1>9, <2>5, <2>6, HandlerEnds
<1>10. CASE p.failed # {} \/ spec.image = None
  <2>1. Settle(p, {j}) /\ UNCHANGED images
    BY <1>4, <1>10
  <2>2. p.jobs[j] # NoJob => p.jobs[j].spec.image = None
    BY <1>6, <1>10
  <2>3. p.jobs[j] # NoJob \/ j \in p.failed
    BY <1>6
  <2>4. QED
    BY <1>6, <1>8, <2>1, <2>2, <2>3
<1>11. CASE ~(p.failed # {} \/ spec.image = None)
  <2>1. i \in Image
    BY <1>2, <1>11 DEF SpecRight, ImageRight, i
  <2>2. ImageEntryRight(i, images[i], jobs, Seen) /\ images = [k \in Image |-> images[k]]
    BY <2>1 DEF ImagesRight
  <2>3. images[i].st \in {"none", "getting", "got", "err"}
    <3>1. images[i] \in {Unknown, Err, Got(i)} \/ images[i] = Getting(images[i].wait)
      BY <2>2, Zenon DEF ImageEntryRight
    <3>2. QED
      BY <3>1 DEF Unknown, Err, Got, Getting
  <2>4. p.jobs[j] # NoJob /\ p.jobs[j].spec = spec /\ p.jobs[j].spec.image # None /\ j \in S
    BY <1>6, <1>11
  <2>5. CASE images[i].st = "none"
    <3>1. images' = [images EXCEPT ![i] = Getting(<<j>>)] /\ Settle(p, {})
      BY <1>4, <1>11, <2>5
    <3>2. <<j>> = Append(<<>>, j)
      OBVIOUS
    <3>3. images' = [images EXCEPT ![i] = Getting(Append(<<>>, j))]
      BY <3>1, <3>2
    <3> DEFINE q == <<>>
    <3>4. q = <<>> /\ images' = [images EXCEPT ![i] = Getting(Append(q, j))]
      BY <3>3
    <3> HIDE DEF q
    <3>5. QED
      BY <1>9, <1>11, <2>5, <3>1, <3>4
  <2>6. CASE images[i].st = "getting"
    <3>1. images' = [images EXCEPT ![i].wait = Append(@, j)] /\ Settle(p, {})
      BY <1>4, <1>11, <2>6
    <3> DEFINE q == images[i].wait
    <3>2. images[i] = Getting(q)
      <4>1. images[i] \notin {Unknown, Err, Got(i)}
        BY <2>6 DEF Unknown, Err, Got
      <4>2. QED
        BY <2>2, <4>1, Zenon DEF ImageEntryRight
    <3>3. [images[i] EXCEPT !.wait = Append(q, j)] = Getting(Append(q, j))
      <4> HIDE DEF q
      <4>1. [Getting(q) EXCEPT !.wait = Append(q, j)] = Getting(Append(q, j))
        BY DEF Getting
      <4>2. QED
        BY <3>2, <4>1
    <3>4. images' = [images EXCEPT ![i] = [images[i] EXCEPT !.wait = Append(q, j)]]
      BY <2>2, <3>1
    <3>5. images' = [images EXCEPT ![i] = Getting(Append(q, j))]
      BY <3>3, <3>4
    <3>6. QED
      BY <1>9, <1>11, <2>6, <3>1, <3>5
  <2>7. CASE images[i].st = "got"
    <3> DEFINE t == GotImageSuccess(p, j, Contents[i])
    <3>1. Settle(t, {j}) /\ UNCHANGED images
      BY <1>4, <1>11, <2>7
    <3>2. /\ KeptRight(t, K, S, {}) /\ Progress(p, t) /\ Touches(p, t, j)
          /\ t.jobs[j] # NoJob => t.jobs[j].spec.image = None
      BY <1>7, <2>1, <2>4, ImageIsRight
    <3> HIDE DEF t
    <3>3. Begun(Now, t, Preparing, Seen, j) /\ (t.jobs[j] # NoJob \/ j \in t.failed)
      BY <1>6, <2>4, <3>2, BegunFurther DEF Touches
    <3>4. QED
      BY <1>8, <3>1, <3>2, <3>3
  <2>8. CASE images[i].st = "err"
    <3> DEFINE t == JobError(p, j)
    <3>1. Settle(t, {j}) /\ UNCHANGED images
      BY <1>4, <1>11, <2>8
    <3>2. KeptRight(t, K, S, {}) /\ Progress(p, t) /\ Touches(p, t, j) /\ t.jobs[j] = NoJob
      BY <1>7, JobErrorIsRight
    <3> HIDE DEF t
    <3>3. Begun(Now, t, Preparing, Seen, j) /\ (t.jobs[j] # NoJob \/ j \in t.failed)
      BY <1>6, <2>4, <3>2, BegunFurther DEF Touches
    <3>4. QED
      BY <1>8, <3>1, <3>2, <3>3
  <2>9. QED
    BY <2>3, <2>5, <2>6, <2>7, <2>8
<1>12. QED
  BY <1>10, <1>11

\* The jobs js have become ks, after those on the list of e were told.
Told(e, js, ks) ==
  \A k \in Job : /\ js[k] = NoJob => ks[k] = NoJob
                 /\ ~Listed(e, k) => ks[k] = js[k]
                 /\ Listed(e, k) /\ ks[k] # NoJob => ks[k].spec.image = None

\* The image i has come, or cannot be got: all that waited for it lack it no
\* more, or are gone.
LEMMA ImagesForRest ==
  ASSUME NEW im, NEW js, NEW S, ImagesRight(im, js, S), NEW i \in Image, im[i].st = "getting",
         NEW ks, Told(im[i], js, ks), NEW x, x \in {Got(i), Err}, NEW f, f = [im EXCEPT ![i] = x]
  PROVE  ImagesRight(f, ks, S)
<1> DEFINE v == im[i].wait
<1>1. im = [k \in Image |-> im[k]] /\ ImageEntryRight(i, im[i], js, S)
  BY DEF ImagesRight
<1>2. f[i] = x /\ DOMAIN f = Image /\ f = [k \in Image |-> f[k]]
      /\ \A k : k # i => f[k] = im[k]
  BY <1>1
<1>3. \A k \in Job : Listed(im[i], k) /\ js[k] # NoJob => js[k].spec.image # None /\ js[k].spec.image.name = i
  <2>1. im[i] \notin {Unknown, Err, Got(i)}
    BY DEF Unknown, Err, Got
  <2>2. \A n \in 1 .. Len(v) :
          js[v[n]] # NoJob => js[v[n]].spec.image # None /\ js[v[n]].spec.image.name = i
    BY <1>1, <2>1, Zenon DEF ImageEntryRight
  <2>3. QED
    BY <2>2 DEF Listed
<1>4. ASSUME NEW k \in Image
      PROVE  ImageEntryRight(k, f[k], ks, S)
  <2>1. CASE k = i
    <3>1. x \in {Unknown, Err, Got(i)}
      OBVIOUS
    <3>2. QED
      BY <1>2, <2>1, <3>1, Zenon DEF ImageEntryRight
  <2>2. CASE k # i
    <3>1. ImageEntryRight(k, im[k], js, S) /\ f[k] = im[k]
      BY <1>2, <2>2 DEF ImagesRight
    <3>2. CASE im[k] \in {Unknown, Err, Got(k)}
      BY <3>1, <3>2, Zenon DEF ImageEntryRight
    <3>3. CASE im[k] \notin {Unknown, Err, Got(k)}
      <4> DEFINE q == im[k].wait
      <4>1. /\ im[k] = Getting(q) /\ q \in Seq(Job) /\ IsInjective(q)
            /\ \A n \in 1 .. Len(q) :
                 /\ q[n] \in S
                 /\ js[q[n]] # NoJob => js[q[n]].spec.image # None /\ js[q[n]].spec.image.name = k
        BY <3>1, <3>3, Zenon DEF ImageEntryRight
      <4> HIDE DEF q
      <4>2. ASSUME NEW n \in 1 .. Len(q), ks[q[n]] # NoJob
            PROVE  ks[q[n]].spec.image # None /\ ks[q[n]].spec.image.name = k
        <5>1. q[n] \in Job
          BY <4>1
        <5>2. js[q[n]] # NoJob
          BY <4>2, <5>1 DEF Told
        <5>3. ~Listed(im[i], q[n])
          BY <1>3, <2>2, <4>1, <5>1, <5>2
        <5>4. ks[q[n]] = js[q[n]]
          BY <5>1, <5>3 DEF Told
        <5>5. QED
          BY <4>1, <5>2, <5>4
      <4>3. ImageEntryRight(k, im[k], ks, S)
        BY <4>1, <4>2 DEF ImageEntryRight, q
      <4>4. QED
        BY <3>1, <4>3
    <3>4. QED
      BY <3>2, <3>3
  <2>3. QED
    BY <2>1, <2>2
<1>5. ASSUME NEW k \in Job, ks[k] # NoJob, ks[k].spec.image # None
      PROVE  Listed(f[ks[k].spec.image.name], k)
  <2>1. ~Listed(im[i], k) /\ ks[k] = js[k]
    BY <1>5 DEF Told
  <2>2. Listed(im[js[k].spec.image.name], k)
    BY <1>5, <2>1 DEF ImagesRight
  <2>3. js[k].spec.image.name # i
    BY <2>1, <2>2
  <2>4. f[js[k].spec.image.name] = im[js[k].spec.image.name]
    BY <1>2, <2>3
  <2>5. QED
    BY <2>1, <2>2, <2>4
<1>6. QED
  BY <1>2, <1>4, <1>5 DEF ImagesRight

\* Those that waited for the image i have been told, in the state t.
LEMMA ImageEnds ==
  ASSUME ClientRight, NEW i \in Image, images[i].st = "getting", NEW t,
         KeptRight(t, Preparing, Seen, {}), Progress(Now, t), Told(images[i], jobs, t.jobs),
         NEW x, x \in {Got(i), Err}, images' = [images EXCEPT ![i] = x],
         Settle(t, ToSet(images[i].wait)),
         UNCHANGED <<containers, files, processed, routerVars>>
  PROVE  ClientRight' /\ Handles
<1> USE PreparerHas
<1> DEFINE J == ToSet(images[i].wait)
           im == [images EXCEPT ![i] = x]
           K == Preparing
           S == Seen
<1>1. ImagesRight(im, t.jobs, S)
  <2>1. ImagesRight(images, jobs, Seen)
    OBVIOUS
  <2>2. im = [images EXCEPT ![i] = x]
    OBVIOUS
  <2> HIDE DEF im
  <2>3. QED
    BY <2>1, <2>2, ImagesForRest, Zenon
<1>2. KnownIn(t.layers, t.building, processed)
  <2>1. PICK p : p = Now
    OBVIOUS
  <2>2. KnownIn(p.layers, p.building, processed) /\ Progress(p, t)
    BY <2>1, NowFields
  <2>3. QED
    BY <2>2, KnownStays
<1>3. \A k \in Job : k \notin J => ~Listed(images[i], k)
  <2>1. \A k : Listed(images[i], k) => k \in J
    <3>1. images[i] \notin {Unknown, Err, Got(i)}
      BY DEF Unknown, Err, Got
    <3>2. images[i].wait \in Seq(Job)
      BY <3>1, Zenon DEF ImagesRight, ImageEntryRight
    <3>3. QED
      BY <3>2, InSequence DEF Listed
  <2>2. QED
    BY <2>1
<1>4. EndsWith(t, J, K, S, phase, im, processed)
  <2>1. \A k \in Job \ J : t.jobs[k] # NoJob => ~IsReady(t.jobs[k])
    BY <1>3 DEF NoneReady, Told
  <2>2. Follows(t.layers, t.building)
    BY ProgressFollows
  <2> HIDE DEF J, im
  <2>3. QED
    BY <1>1, <1>2, <2>1, <2>2 DEF EndsWith
<1>5. images' = im /\ Settle(t, J)
  OBVIOUS
<1> HIDE DEF J, im, K, S
<1>6. QED
  BY <1>4, <1>5, HandlerEnds, Zenon

\* The list of an image that is being got.
LEMMA ListIsRight ==
  ASSUME ClientRight, NEW i \in Image, images[i].st = "getting"
  PROVE  /\ images[i].wait \in Seq(Job) /\ IsInjective(images[i].wait)
         /\ \A n \in 1 .. Len(images[i].wait) :
              /\ images[i].wait[n] \in Seen
              /\ jobs[images[i].wait[n]] # NoJob => jobs[images[i].wait[n]].spec.image # None
<1>1. ImageEntryRight(i, images[i], jobs, Seen)
  BY PreparerHas DEF ImagesRight
<1>2. images[i] \notin {Unknown, Err, Got(i)}
  BY DEF Unknown, Err, Got
<1>3. QED
  BY <1>1, <1>2, Zenon DEF ImageEntryRight

LEMMA GotImageRight ==
  ASSUME ClientRight, NEW i \in Image, GotImage(i)
  PROVE  ClientRight' /\ Handles
<1> DEFINE q == images[i].wait
           t == FoldLeft(LAMBDA p, j : GotImageSuccess(p, j, Contents[i]), Now, q)
<1>1. /\ images[i].st = "getting" /\ images' = [images EXCEPT ![i] = Got(i)]
      /\ Settle(t, ToSet(q)) /\ UNCHANGED <<containers, files, processed, routerVars>>
  BY Zenon DEF GotImage
<1>2. /\ q \in Seq(Job) /\ IsInjective(q)
      /\ \A n \in 1 .. Len(q) : q[n] \in Seen /\ (jobs[q[n]] # NoJob => jobs[q[n]].spec.image # None)
  <2>1. images[i].st = "getting"
    BY Zenon DEF GotImage
  <2>2. QED
    BY <2>1, ListIsRight
<1>3. PICK p : p = Now
  OBVIOUS
<1>4. KeptRight(p, Preparing, Seen, {}) /\ p.jobs = jobs
  BY <1>3, PreparerHas, NowFields
<1>5. t = ImagesTold(p, q, i)
  BY <1>3, Zenon DEF ImagesTold
<1> HIDE DEF q, t
<1>6. ImageTold(p, Preparing, Seen, q, Len(q), t)
  BY <1>2, <1>4, <1>5, AllAreTold
<1>7. KeptRight(t, Preparing, Seen, {}) /\ Progress(Now, t)
  BY <1>3, <1>6 DEF ImageTold
<1>8. Told(images[i], jobs, t.jobs)
  BY <1>1, <1>4, <1>6 DEF ImageTold, Told, Listed, q
<1>9. Settle(t, ToSet(images[i].wait))
  BY <1>1 DEF q
<1>10. Got(i) \in {Got(i), Err}
  OBVIOUS
<1>11. QED
  BY <1>1, <1>7, <1>8, <1>9, <1>10, ImageEnds, Zenon

LEMMA GotImageErrorRight ==
  ASSUME ClientRight, NEW i \in Image, GotImageError(i)
  PROVE  ClientRight' /\ Handles
<1> DEFINE q == images[i].wait
           t == FoldLeft(JobError, Now, q)
<1>1. /\ images[i].st = "getting" /\ images' = [images EXCEPT ![i] = Err]
      /\ Settle(t, ToSet(q)) /\ UNCHANGED <<containers, files, processed, routerVars>>
  BY Zenon DEF GotImageError
<1>2. q \in Seq(Job)
  BY <1>1, ListIsRight
<1>3. PICK p : p = Now
  OBVIOUS
<1>4. KeptRight(p, Preparing, Seen, {}) /\ p.jobs = jobs
  BY <1>3, PreparerHas, NowFields
<1>5. t = AllFailed(p, q)
  BY <1>3, Zenon DEF AllFailed
<1> HIDE DEF q, t
<1>6. JobsFailed(p, Preparing, Seen, q, Len(q), t)
  BY <1>2, <1>4, <1>5, AllHaveFailed
<1>7. KeptRight(t, Preparing, Seen, {}) /\ Progress(Now, t)
  BY <1>3, <1>6 DEF JobsFailed
<1>8. Told(images[i], jobs, t.jobs)
  BY <1>1, <1>4, <1>6 DEF JobsFailed, Told, Listed, q
<1>9. Settle(t, ToSet(images[i].wait))
  BY <1>1 DEF q
<1>10. Err \in {Got(i), Err}
  OBVIOUS
<1>11. QED
  BY <1>1, <1>7, <1>8, <1>9, <1>10, ImageEnds, Zenon

\* What a build that ends has come to: all of it has been announced.
LEMMA EndIsKnown ==
  ASSUME NEW P, NEW l \in Layer, NEW b, BuildRight(P, l, b), b.step \in Nat,
         b.step > Len(Steps[l]), b.digest # None
  PROVE  LayerKnown(P, l, Got(b.digest))
<1>1. b.digest \in P /\ Uploaded(l, b.step, P)
  BY DEF BuildRight
<1>2. Steps[l] \in Seq({Write(p, d) : p \in Path, d \in Digest} \cup {Upload(p) : p \in Path})
  BY FilesAssumption
<1>3. Uploaded(l, Len(Steps[l]) + 1, P)
  BY <1>1, <1>2 DEF Uploaded
<1>4. QED
  BY <1>1, <1>3 DEF LayerKnown, Got

LEMMA GotLayerRight ==
  ASSUME ClientRight, NEW l \in Layer, GotLayer(l)
  PROVE  ClientRight' /\ Handles
<1> USE PreparerHas
<1> DEFINE d == building[l].digest
           wait == layers[l].wait
           e == IF d = None THEN Err ELSE Got(d)
           a == Pop([Now EXCEPT !.layers[l] = e, !.building[l] = NotBuilding,
                                !.panic = layers[l].st # "getting"])
           t == FoldLeft(LAMBDA q, w : IF d = None THEN JobError(q, w[2]) ELSE Filled(q, w, d),
                         a, SetToSeq(wait))
           J == {w[2] : w \in wait}
           K == Preparing
           S == Seen
<1>1. /\ building[l].step > Len(Steps[l]) /\ Settle(t, J)
      /\ UNCHANGED <<containers, images, files, processed, routerVars>>
  BY Zenon DEF GotLayer
<1>2. PICK p : p = Now
  OBVIOUS
<1>3. KeptRight(p, K, S, {}) /\ p.layers = layers /\ p.building = building /\ p.jobs = jobs
  BY <1>2, NowFields
<1>4. a = Popped(p, l, e)
  BY <1>2, <1>3, Zenon DEF Popped
<1>5. t = LayersTold(a, SetToSeq(wait), d)
  BY Zenon DEF LayersTold
<1>6. building \in Builds
  BY <1>3 DEF KeptRight, PrepTyped
<1>7. d \in Digest \cup {None} /\ building[l].step \in Nat
  BY <1>6 DEF Builds
<1>8. Steps[l] \in Seq({Write(x, y) : x \in Path, y \in Digest} \cup {Upload(x) : x \in Path})
  BY FilesAssumption
<1>9. building[l].step > Len(Steps[l]) /\ l \in RunningIn(p)
  <2>1. building[l].step > Len(Steps[l])
    BY Zenon DEF GotLayer
  <2>2. QED
    BY <1>3, <1>7, <1>8, <2>1 DEF RunningIn
<1>10. /\ KeptRight(t, K, S, {}) /\ t.layers = [p.layers EXCEPT ![l] = e]
       /\ Begins([p.building EXCEPT ![l] = NotBuilding], t.building) /\ Narrows(p, t)
       /\ \A k \in Job : k \notin {w[2] : w \in p.layers[l].wait} => t.jobs[k] = p.jobs[k]
  <2>1. t = LayersTold(Popped(p, l, EntryOf(d)), SetToSeq(p.layers[l].wait), d)
    BY <1>3, <1>4, <1>5, Zenon DEF EntryOf
  <2> HIDE DEF t, a
  <2>2. LayerDone(p, t, K, S, l, EntryOf(d))
    BY <1>3, <1>7, <1>9, <2>1, LayerIsTold, Zenon
  <2>3. EntryOf(d) = e
    BY DEF EntryOf
  <2>4. LayerDone(p, t, K, S, l, e)
    BY <2>2, <2>3, Zenon
  <2> HIDE DEF e, d, K, S
  <2>5. QED
    BY <2>4 DEF LayerDone
<1> HIDE DEF t, a
<1>11. layers \in [Layer -> LayerEntries]
  BY <1>3 DEF KeptRight, PrepTyped
<1>12. KnownIn(t.layers, t.building, processed)
  <2>1. LayerKnown(processed, l, e)
    <3>1. CASE d = None
      BY <3>1 DEF LayerKnown, Err
    <3>2. CASE d # None
      <4>1. BuildRight(processed, l, building[l])
        BY DEF KnownIn
      <4> DEFINE b == building[l]
      <4>2. BuildRight(processed, l, b) /\ b.step \in Nat /\ b.step > Len(Steps[l]) /\ b.digest = d
        BY <1>7, <1>9, <4>1
      <4> HIDE DEF b
      <4>3. LayerKnown(processed, l, Got(b.digest))
        BY <3>2, <4>2, EndIsKnown
      <4>4. QED
        BY <3>2, <4>2, <4>3
    <3>3. QED
      BY <3>1, <3>2
  <2> HIDE DEF e, d
  <2>2. ASSUME NEW m \in Layer
        PROVE  LayerKnown(processed, m, t.layers[m]) /\ BuildRight(processed, m, t.building[m])
    <3>1. LayerKnown(processed, m, layers[m]) /\ BuildRight(processed, m, building[m])
      BY DEF KnownIn
    <3>2. LayerKnown(processed, m, t.layers[m])
      BY <1>3, <1>10, <1>11, <2>1, <3>1
    <3> DEFINE c == [p.building EXCEPT ![l] = NotBuilding]
    <3>3. c[m] = IF m = l THEN NotBuilding ELSE building[m]
      BY <1>3, <1>6 DEF Builds
    <3>4. BuildRight(processed, m, NotBuilding)
      <4>1. NotBuilding.step = 0 /\ NotBuilding.digest = None /\ \A k \in 1 .. Len(Steps[m]) : ~(k < 0)
        BY DEF NotBuilding
      <4>2. QED
        BY <4>1 DEF BuildRight, Uploaded
    <3>5. BuildRight(processed, m, c[m])
      BY <3>1, <3>3, <3>4
    <3>6. t.building[m] = c[m] \/ (t.building[m].step = 1 /\ t.building[m].digest = c[m].digest)
      BY <1>10 DEF Begins
    <3> HIDE DEF c
    <3>7. BuildRight(processed, m, t.building[m])
      BY <3>5, <3>6, BuildBeginsKnown
    <3>8. QED
      BY <3>2, <3>7
  <2>3. QED
    BY <2>2 DEF KnownIn
<1>13. ImagesRight(images, t.jobs, S)
  <2>1. \A k \in Job : t.jobs[k] = NoJob \/ (jobs[k] # NoJob /\ t.jobs[k].spec = jobs[k].spec)
    BY <1>3, <1>10 DEF Narrows
  <2>2. ImagesRight(images, jobs, S) /\ S \subseteq S
    OBVIOUS
  <2> HIDE DEF S
  <2>3. QED
    BY <2>1, <2>2, ImagesStay
<1>14. \A k \in Job \ J : t.jobs[k] # NoJob => ~IsReady(t.jobs[k])
  BY <1>3, <1>10 DEF NoneReady
<1>15. EndsWith(t, J, K, S, phase, images, processed)
  <2>1. ASSUME NEW m \in Layer
        PROVE  /\ t.layers[m].st = "got" /\ t.layers[m] # layers[m] =>
                    /\ building[m].step > Len(Steps[m]) /\ building[m].digest # None
                    /\ t.layers[m] = Got(building[m].digest)
               /\ t.building[m] = building[m] \/ t.building[m].step \in {0, 1}
    <3>1. m # l => t.layers[m] = layers[m]
      BY <1>3, <1>10, <1>11
    <3>2. m = l => t.layers[m] = e
      BY <1>3, <1>10, <1>11
    <3>3. d = None => e.st = "err"
      BY DEF Err
    <3>4. d # None => e = Got(building[l].digest)
      OBVIOUS
    <3> DEFINE c == [p.building EXCEPT ![l] = NotBuilding]
    <3>5. c[m] = building[m] \/ c[m].step = 0
      BY <1>3, <1>6 DEF Builds, NotBuilding
    <3>6. t.building[m] = c[m] \/ t.building[m].step = 1
      BY <1>10 DEF Begins
    <3> HIDE DEF e, c
    <3>7. t.layers[m].st = "got" /\ t.layers[m] # layers[m] => m = l /\ d # None
      BY <3>1, <3>2, <3>3
    <3>8. QED
      BY <1>9, <3>2, <3>4, <3>5, <3>6, <3>7
  <2>2. Follows(t.layers, t.building)
    BY <2>1, Zenon DEF Follows
  <2> HIDE DEF J
  <2>3. QED
    BY <1>10, <1>12, <1>13, <1>14, <2>2 DEF EndsWith
<1>16. images' = images /\ UNCHANGED <<containers, files, processed, routerVars>>
  BY <1>1
<1> HIDE DEF J, K, S
<1>17. QED
  BY <1>1, <1>15, <1>16, HandlerEnds, Zenon

-----------------------------------------------------------------------------
\* The builds and the router.

LEMMA KnownGrows ==
  ASSUME NEW ly, NEW bu, NEW P, KnownIn(ly, bu, P), NEW Q, P \subseteq Q
  PROVE  KnownIn(ly, bu, Q)
<1>1. \A l, n : Uploaded(l, n, P) => Uploaded(l, n, Q)
  BY DEF Uploaded
<1>2. QED
  BY <1>1 DEF KnownIn, LayerKnown, BuildRight

\* A build goes on.
Moved(p, t, l, b) ==
  /\ DOMAIN t = PrepFields /\ t.layers = p.layers /\ t.jobs = p.jobs /\ t.pending = p.pending
  /\ t.waiting = p.waiting /\ t.failed = p.failed /\ t.panic = FALSE
  /\ t.building = [p.building EXCEPT ![l] = b]

LEMMA BuildMoves ==
  ASSUME NEW p, NEW ph, NEW im, NEW P, PreparerRight(p, ph, im, P), NEW l \in Layer,
         p.building[l].step > 0, NEW b \in [step : Nat, digest : Digest \cup {None}], b.step > 0,
         NEW t, Moved(p, t, l, b), NEW Q, P \subseteq Q, BuildRight(Q, l, b)
  PROVE  PreparerRight(t, ph, im, Q)
<1> DEFINE K == {j \in Job : ph[j] = "preparing"}
           S == {j \in Job : ph[j] # "none"}
<1>1. KeptRight(p, K, S, {})
  BY DEF PreparerRight
<1> HIDE DEF K, S
<1>2. PrepTyped(p) /\ Accounts(p) /\ p.building \in Builds
  BY <1>1 DEF KeptRight, PrepTyped
<1>3. t.building \in Builds
  BY <1>2 DEF Builds, Moved
<1>4. t.building[l] = b /\ \A m \in Layer \ {l} : t.building[m] = p.building[m]
  BY <1>2 DEF Builds, Moved
<1>5. PrepTyped(t)
  BY <1>2, <1>3 DEF PrepTyped, Moved
<1>6. RunningIn(t) = RunningIn(p)
  BY <1>4 DEF RunningIn
<1>7. Accounts(t)
  BY <1>2, <1>6 DEF Accounts, Moved
<1>8. KeptRight(t, K, S, {})
  BY <1>1, <1>5, <1>7 DEF KeptRight, WaiterRight, Moved
<1>9. KnownIn(p.layers, p.building, Q)
  BY KnownGrows DEF PreparerRight
<1>10. KnownIn(t.layers, t.building, Q)
  <2>1. ASSUME NEW m \in Layer
        PROVE  LayerKnown(Q, m, t.layers[m]) /\ BuildRight(Q, m, t.building[m])
    <3>1. LayerKnown(Q, m, p.layers[m]) /\ BuildRight(Q, m, p.building[m])
      BY <1>9 DEF KnownIn
    <3>2. CASE m = l
      BY <1>4, <3>1, <3>2 DEF Moved
    <3>3. CASE m # l
      BY <1>4, <3>1, <3>3 DEF Moved
    <3>4. QED
      BY <3>2, <3>3
  <2>2. QED
    BY <2>1 DEF KnownIn
<1>11. QED
  BY <1>8, <1>10 DEF PreparerRight, Moved, K, S

\* A call of run_job that is past the preparer goes on.
LEMMA PhaseMoves ==
  ASSUME NEW p, NEW ph, NEW im, NEW P, PreparerRight(p, ph, im, P), NEW j \in Job,
         ph[j] \in Handed, NEW x \in Handed
  PROVE  PreparerRight(p, [ph EXCEPT ![j] = x], im, P)
<1> DEFINE f == [ph EXCEPT ![j] = x]
<1>1. ph \in [Job -> Phases] /\ Handed \subseteq Phases \ {"none", "preparing"}
  BY DEF PreparerRight, Handed, Phases
<1>2. /\ f \in [Job -> Phases] /\ {k \in Job : f[k] = "preparing"} = {k \in Job : ph[k] = "preparing"}
      /\ {k \in Job : f[k] # "none"} = {k \in Job : ph[k] # "none"}
  BY <1>1
<1> HIDE DEF f
<1>3. PreparerRight(p, f, im, P)
  BY <1>2, Zenon DEF PreparerRight
<1>4. QED
  BY <1>3 DEF f

LEMMA AnnouncesMore ==
  ASSUME NEW q \in Seq(Messages), NEW a, NEW n \in 1 .. Len(q) + 1, NEW d, Announces(q, a, n, d),
         NEW m \in Messages
  PROVE  Announces(Append(q, m), a, n, d) /\ Announces(Append(q, m), a, Len(q) + 2, d)
<1>1. \A k \in 1 .. n - 1 : k \in 1 .. Len(q) + 1 /\ Append(q, m)[k] = q[k]
  OBVIOUS
<1>2. \A k \in 1 .. n - 1 : k \in 1 .. (Len(q) + 2) - 1
  OBVIOUS
<1>3. QED
  BY <1>1, <1>2 DEF Announces

\* The message m is sent to the router.
Sends(m, ph, ph2, P, Q) ==
  /\ m \in Messages /\ P \subseteq Q /\ Q \subseteq Digest
  /\ \A d \in Q \ P : m.kind = "AddArtifact" /\ m.digest = d
  /\ \A j \in Job : ph2[j] = ph[j] \/ (ph[j] = "prepared" /\ ph2[j] = "running")
  /\ m.kind = "RunJob" => ph2[m.job] \in {"running", "done"} /\ ph[m.job] \in Handed

LEMMA RouterSends ==
  ASSUME NEW q, NEW a, NEW ph, NEW pr, NEW P, NEW R, NEW W, RouterRight(q, a, ph, pr, P, R, W),
         NEW m, NEW ph2, NEW Q, Sends(m, ph, ph2, P, Q)
  PROVE  RouterRight(Append(q, m), a, ph2, pr, Q, R, W)
<1> DEFINE s == Append(q, m)
<1>1. /\ q \in Seq(Messages) /\ m \in Messages /\ s \in Seq(Messages) /\ Len(s) = Len(q) + 1
      /\ s[Len(q) + 1] = m /\ \A n \in 1 .. Len(q) : s[n] = q[n]
  BY DEF RouterRight, Sends
<1>2. \A n \in 1 .. Len(q) + 1 : \A d : Announces(q, a, n, d) =>
        Announces(s, a, n, d) /\ Announces(s, a, Len(s) + 1, d)
  BY <1>1, AnnouncesMore
<1> HIDE DEF s
<1>3. Len(q) + 1 \in 1 .. Len(q) + 1 /\ \A n \in 1 .. Len(q) : n \in 1 .. Len(q) + 1
  BY <1>1
<1>4. \A j \in Job : ph2[j] \in Handed => ph[j] \in Handed
  BY DEF Sends, Handed
<1>5. \A j \in Job : ph2[j] \in Handed => NeededFor(pr[j]) \subseteq Q
  BY <1>4 DEF RouterRight, Sends
<1>6. ASSUME NEW d \in Q
      PROVE  Announces(s, a, Len(s) + 1, d)
  <2>1. CASE d \in P
    BY <1>2, <1>3, <2>1 DEF RouterRight
  <2>2. CASE d \notin P
    <3>1. m.kind = "AddArtifact" /\ m.digest = d
      BY <2>2 DEF Sends
    <3>2. Len(q) + 1 \in 1 .. (Len(s) + 1) - 1
      BY <1>1
    <3>3. QED
      BY <1>1, <3>1, <3>2 DEF Announces
  <2>3. QED
    BY <2>1, <2>2
<1>7. \A j \in Job : ph[j] \in {"running", "done"} => ph2[j] = ph[j]
  BY DEF Sends
<1>8. ASSUME NEW n \in 1 .. Len(s), s[n].kind = "RunJob"
      PROVE  /\ ph2[s[n].job] \in {"running", "done"}
             /\ \A d \in NeededFor(pr[s[n].job]) : Announces(s, a, n, d)
  <2>1. s[n].job \in Job
    BY <1>1, <1>8 DEF Messages
  <2>2. CASE n = Len(q) + 1
    <3>1. ph2[s[n].job] \in {"running", "done"} /\ ph[s[n].job] \in Handed
      BY <1>1, <1>8, <2>2 DEF Sends
    <3>2. \A d \in NeededFor(pr[s[n].job]) : Announces(q, a, Len(q) + 1, d)
      BY <2>1, <3>1 DEF RouterRight
    <3>3. QED
      BY <1>2, <1>3, <2>2, <3>1, <3>2
  <2>3. CASE n # Len(q) + 1
    <3>1. n \in 1 .. Len(q) /\ s[n] = q[n]
      BY <1>1, <2>3
    <3>2. /\ ph[q[n].job] \in {"running", "done"}
          /\ \A d \in NeededFor(pr[q[n].job]) : Announces(q, a, n, d)
      BY <1>8, <3>1 DEF RouterRight
    <3>3. QED
      BY <1>2, <1>3, <1>7, <2>1, <3>1, <3>2
  <2>4. QED
    BY <2>2, <2>3
<1>9. \A j \in W : ph2[j] \in {"running", "done"} /\ \A d \in NeededFor(pr[j]) : a[d] # None
  BY <1>7 DEF RouterRight
<1>10. W \subseteq R \cap Job /\ a \in [Digest -> Path \cup {None}] /\ Q \subseteq Digest
  BY DEF RouterRight, Sends
<1>11. QED
  BY <1>1, <1>5, <1>6, <1>8, <1>9, <1>10, Zenon DEF RouterRight, s

\* The router has taken the first message: it knows b, and the jobs W2.
Takes(q, a, b, P, R, W, R2, W2) ==
  /\ q # <<>> /\ b \in [Digest -> Path \cup {None}]
  /\ \A d : a[d] # None => b[d] # None
  /\ Head(q).kind = "AddArtifact" => b[Head(q).digest] # None
  /\ W2 \subseteq R2
  /\ \A j \in W2 \ W : Head(q).kind = "RunJob" /\ Head(q).job = j

LEMMA RouterTakes ==
  ASSUME NEW q, NEW a, NEW ph, NEW pr, NEW P, NEW R, NEW W, RouterRight(q, a, ph, pr, P, R, W),
         NEW b, NEW R2, NEW W2, Takes(q, a, b, P, R, W, R2, W2)
  PROVE  RouterRight(Tail(q), b, ph, pr, P, R2, W2)
<1> DEFINE s == Tail(q)
<1>1. /\ q \in Seq(Messages) /\ s \in Seq(Messages) /\ Len(s) = Len(q) - 1 /\ 1 \in 1 .. Len(q)
      /\ Head(q) = q[1] /\ \A n \in 1 .. Len(s) : s[n] = q[n + 1] /\ n + 1 \in 1 .. Len(q)
  BY DEF RouterRight, Takes
<1> HIDE DEF s
<1>2. ASSUME NEW n \in 1 .. Len(s) + 1, NEW d, Announces(q, a, n + 1, d)
      PROVE  Announces(s, b, n, d)
  <2>1. CASE a[d] # None
    BY <2>1 DEF Takes, Announces
  <2>2. CASE a[d] = None
    <3>1. PICK m \in 1 .. n : q[m].kind = "AddArtifact" /\ q[m].digest = d
      BY <1>2, <2>2 DEF Announces
    <3>2. CASE m = 1
      BY <1>1, <3>1, <3>2 DEF Takes, Announces
    <3>3. CASE m # 1
      <4>1. m - 1 \in 1 .. n - 1 /\ s[m - 1] = q[m]
        <5>1. m - 1 \in 1 .. n - 1 /\ m - 1 \in 1 .. Len(s) /\ (m - 1) + 1 = m
          BY <1>1, <3>3
        <5>2. QED
          BY <1>1, <5>1
      <4>2. QED
        BY <3>1, <4>1 DEF Announces
    <3>4. QED
      BY <3>2, <3>3
  <2>3. QED
    BY <2>1, <2>2
<1>3. \A d \in P : Announces(s, b, Len(s) + 1, d)
  <2>1. Len(s) + 1 \in 1 .. Len(s) + 1 /\ (Len(s) + 1) + 1 = Len(q) + 1
    BY <1>1
  <2>2. \A d \in P : Announces(q, a, (Len(s) + 1) + 1, d)
    BY <2>1 DEF RouterRight
  <2>3. QED
    BY <1>2, <2>1, <2>2
<1>4. ASSUME NEW n \in 1 .. Len(s), s[n].kind = "RunJob"
      PROVE  /\ ph[s[n].job] \in {"running", "done"}
             /\ \A d \in NeededFor(pr[s[n].job]) : Announces(s, b, n, d)
  <2>1. s[n] = q[n + 1] /\ n + 1 \in 1 .. Len(q) /\ n \in 1 .. Len(s) + 1
    BY <1>1
  <2>2. /\ ph[q[n + 1].job] \in {"running", "done"}
        /\ \A d \in NeededFor(pr[q[n + 1].job]) : Announces(q, a, n + 1, d)
    BY <1>4, <2>1 DEF RouterRight
  <2>3. QED
    BY <1>2, <2>1, <2>2
<1>5. ASSUME NEW j \in W2
      PROVE  /\ j \in Job /\ ph[j] \in {"running", "done"}
             /\ \A d \in NeededFor(pr[j]) : b[d] # None
  <2>1. CASE j \in W
    BY <2>1 DEF RouterRight, Takes
  <2>2. CASE j \notin W
    <3>1. q[1].kind = "RunJob" /\ q[1].job = j
      BY <1>1, <2>2 DEF Takes
    <3>2. j \in Job
      BY <1>1, <3>1 DEF Messages
    <3>3. ph[j] \in {"running", "done"} /\ \A d \in NeededFor(pr[j]) : Announces(q, a, 1, d)
      BY <1>1, <3>1 DEF RouterRight
    <3>4. \A d : Announces(q, a, 1, d) => a[d] # None
      BY DEF Announces
    <3>5. QED
      BY <3>2, <3>3, <3>4 DEF Takes
  <2>3. QED
    BY <2>1, <2>2
<1>6. W2 \subseteq R2 \cap Job /\ b \in [Digest -> Path \cup {None}] /\ P \subseteq Digest
      /\ \A j \in Job : ph[j] \in Handed => NeededFor(pr[j]) \subseteq P
  BY <1>5 DEF RouterRight, Takes
<1>7. QED
  BY <1>1, <1>3, <1>4, <1>5, <1>6, Zenon DEF RouterRight, s

-----------------------------------------------------------------------------
\* The steps of the builds, of run_job and of the router.

LEMMA NowStays ==
  ASSUME UNCHANGED preparerVars, UNCHANGED building
  PROVE  Now' = Now /\ images' = images /\ containers' = containers
BY DEF preparerVars, Now

\* What the step s of the layer l does.
LEMMA StepForms ==
  ASSUME NEW l \in Layer, NEW n \in 1 .. Len(Steps[l])
  PROVE  LET s == Steps[l][n] IN
         \/ s.op = "write" /\ s.path \in Path /\ s.digest \in Digest /\ Files[s.path] = None
         \/ s.op = "upload" /\ s.path \in Path
<1>1. Steps[l] \in Seq({Write(p, d) : p \in Path, d \in Digest} \cup {Upload(p) : p \in Path})
  BY FilesAssumption
<1>2. n \in DOMAIN Steps[l] /\ Steps[l][n] \in {Write(p, d) : p \in Path, d \in Digest}
                                                 \cup {Upload(p) : p \in Path}
  BY <1>1
<1> DEFINE s == Steps[l][n]
<1>3. s.op = "write" => Files[s.path] = None
  BY <1>2, FilesAssumption
<1>4. s \in {Write(p, d) : p \in Path, d \in Digest} \cup {Upload(p) : p \in Path}
  BY <1>2
<1> HIDE DEF s
<1>5. QED
  BY <1>3, <1>4 DEF Write, Upload, s

LEMMA BuildHas ==
  ASSUME ClientRight, NEW l \in Layer
  PROVE  /\ building \in Builds /\ building[l] \in [step : Nat, digest : Digest \cup {None}]
         /\ BuildRight(processed, l, building[l]) /\ Len(Steps[l]) \in Nat
         /\ processed \subseteq Digest /\ broken = FALSE
<1>1. building \in Builds
  BY PreparerHas, NowFields DEF KeptRight, PrepTyped
<1>2. building[l] \in [step : Nat, digest : Digest \cup {None}]
  BY <1>1 DEF Builds
<1>3. BuildRight(processed, l, building[l])
  BY PreparerHas DEF KnownIn
<1>4. Len(Steps[l]) \in Nat
  BY FilesAssumption
<1>5. QED
  BY <1>1, <1>2, <1>3, <1>4 DEF ClientRight, RouterRight

\* A build goes on to b, and nothing else of the preparer changes.
LEMMA BuildSteps ==
  ASSUME ClientRight, NEW l \in Layer, building[l].step > 0,
         NEW b \in [step : Nat, digest : Digest \cup {None}], b.step > 0,
         building' = [building EXCEPT ![l] = b], UNCHANGED preparerVars, UNCHANGED <<phase, broken>>,
         NEW Q, processed' = Q, processed \subseteq Q, BuildRight(Q, l, b)
  PROVE  /\ broken' = FALSE /\ containers' \in Containers
         /\ PreparerRight(Now', phase', images', processed')
<1>1. PICK p : p = Now
  OBVIOUS
<1>2. PICK t : t = Now'
  OBVIOUS
<1>3. Moved(p, t, l, b)
  <2>1. /\ DOMAIN t = PrepFields /\ t.layers = layers' /\ t.jobs = jobs' /\ t.pending = pending'
        /\ t.waiting = waiting' /\ t.building = building' /\ t.failed = {} /\ t.panic = FALSE
    BY <1>2 DEF Now, PrepFields
  <2>2. /\ layers' = layers /\ jobs' = jobs /\ pending' = pending /\ waiting' = waiting
    BY DEF preparerVars
  <2>3. QED
    BY <1>1, <2>1, <2>2, NowFields DEF Moved
<1>4. PreparerRight(p, phase, images, processed) /\ p.building = building
  BY <1>1, NowFields DEF ClientRight
<1>5. PreparerRight(t, phase, images, Q)
  BY <1>3, <1>4, BuildMoves
<1>6. phase' = phase /\ images' = images /\ processed' = Q /\ containers' = containers /\ broken' = broken
  BY DEF preparerVars
<1>7. QED
  BY <1>2, <1>5, <1>6 DEF ClientRight

LEMMA RouterHas ==
  ASSUME ClientRight
  PROVE  RouterRight(routerQueue, artifacts, phase, prepared, processed, routed, atBroker \cup atWorker)
BY DEF ClientRight

LEMMA BuildWritesRight ==
  ASSUME ClientRight, NEW l \in Layer, BuildWrites(l)
  PROVE  ClientRight'
<1> DEFINE o == building[l]
           s == Steps[l][o.step]
           b == [step |-> o.step + 1, digest |-> o.digest]
<1>1. /\ o.step \in 1 .. Len(Steps[l]) /\ s.op = "write"
      /\ files' = [files EXCEPT ![s.path] = s.digest]
      /\ building' = [building EXCEPT ![l].step = o.step + 1]
      /\ UNCHANGED preparerVars /\ UNCHANGED <<phase, broken, processed>>
      /\ UNCHANGED routerVars /\ UNCHANGED prepared
  BY DEF BuildWrites
<1>2. /\ building \in Builds /\ o \in [step : Nat, digest : Digest \cup {None}]
      /\ BuildRight(processed, l, o)
  BY BuildHas
<1>3. s.path \in Path /\ s.digest \in Digest /\ Files[s.path] = None
  BY <1>1, StepForms
<1>4. b \in [step : Nat, digest : Digest \cup {None}] /\ b.step = o.step + 1 /\ b.digest = o.digest
      /\ b.step > 0 /\ o.step > 0
  BY <1>1, <1>2
<1>5. building' = [building EXCEPT ![l] = b]
  <2>1. building' = [building EXCEPT ![l] = [o EXCEPT !.step = o.step + 1]]
    BY <1>1, <1>2 DEF Builds
  <2>2. o \in [step : Nat, digest : Digest \cup {None}]
    BY <1>2
  <2> HIDE DEF o
  <2>3. [o EXCEPT !.step = o.step + 1] = b
    BY <2>2
  <2>4. QED
    BY <2>1, <2>3
<1> HIDE DEF b
<1>6. BuildRight(processed, l, b)
  <2>1. Uploaded(l, o.step, processed)
    BY <1>1, <1>2 DEF BuildRight
  <2>2. Uploaded(l, o.step + 1, processed)
    BY <1>1, <1>2, <2>1 DEF Uploaded
  <2>3. QED
    BY <1>2, <1>4, <2>2 DEF BuildRight
<1>7. processed' = processed
  BY <1>1
<1>8. broken' = FALSE /\ containers' \in Containers /\ PreparerRight(Now', phase', images', processed')
  <2>1. UNCHANGED preparerVars /\ UNCHANGED <<phase, broken>> /\ building[l].step > 0
    BY <1>1, <1>4
  <2>2. QED
    BY <1>4, <1>5, <1>6, <1>7, <2>1, BuildSteps
<1>9. FilesRight(files')
  BY <1>1, <1>3 DEF ClientRight, FilesRight
<1>10. RouterRight(routerQueue', artifacts', phase', prepared', processed', routed', atBroker' \cup atWorker')
  BY <1>1, RouterHas DEF routerVars
<1>11. QED
  BY <1>8, <1>9, <1>10 DEF ClientRight

LEMMA BuildFailsRight ==
  ASSUME ClientRight, NEW l \in Layer, BuildFails(l)
  PROVE  ClientRight'
<1> DEFINE b == [step |-> Len(Steps[l]) + 1, digest |-> None]
<1>1. /\ building[l].step \in 1 .. Len(Steps[l])
      /\ building' = [building EXCEPT ![l] = b]
      /\ UNCHANGED preparerVars /\ UNCHANGED <<phase, broken>> /\ UNCHANGED <<files, processed, prepared>>
      /\ UNCHANGED routerVars
  BY DEF BuildFails
<1>2. Len(Steps[l]) \in Nat
  BY BuildHas
<1>3. b \in [step : Nat, digest : Digest \cup {None}] /\ b.step > 0 /\ b.digest = None
      /\ b.step = Len(Steps[l]) + 1
  BY <1>2
<1> HIDE DEF b
<1>4. BuildRight(processed, l, b) /\ processed' = processed
  BY <1>1, <1>2, <1>3 DEF BuildRight
<1>5. broken' = FALSE /\ containers' \in Containers /\ PreparerRight(Now', phase', images', processed')
  <2>1. building[l].step > 0
    BY <1>1, <1>2
  <2>2. QED
    BY <1>1, <1>3, <1>4, <2>1, BuildSteps
<1>6. RouterRight(routerQueue', artifacts', phase', prepared', processed', routed', atBroker' \cup atWorker')
  BY <1>1, RouterHas DEF routerVars
<1>7. FilesRight(files')
  BY <1>1 DEF ClientRight
<1>8. QED
  BY <1>5, <1>6, <1>7 DEF ClientRight

LEMMA BuildUploadsRight ==
  ASSUME ClientRight, NEW l \in Layer, BuildUploads(l)
  PROVE  ClientRight'
<1> DEFINE o == building[l]
           path == Steps[l][o.step].path
           d == files[path]
           b == [step |-> o.step + 1, digest |-> d]
           Q == processed \cup {d}
           m == [kind |-> "AddArtifact", digest |-> d, path |-> path]
<1>1. /\ o.step \in 1 .. Len(Steps[l]) /\ Steps[l][o.step].op = "upload" /\ d # None
      /\ building' = [building EXCEPT ![l] = b] /\ processed' = Q
      /\ routerQueue' = Announced(d, path)
      /\ UNCHANGED preparerVars /\ UNCHANGED <<phase, broken>>
      /\ UNCHANGED <<files, artifacts, routed, atBroker, atWorker, prepared>>
  BY DEF BuildUploads
<1>2. /\ building \in Builds /\ o \in [step : Nat, digest : Digest \cup {None}]
      /\ BuildRight(processed, l, o) /\ processed \subseteq Digest
  BY BuildHas
<1>3. path \in Path
  BY <1>1, StepForms
<1>11. path = Steps[l][o.step].path
  OBVIOUS
<1> HIDE DEF o, path
<1>12. FilesRight(files)
  BY DEF ClientRight
<1>4. d \in Digest /\ (Files[path] # None => d = Files[path])
  BY <1>1, <1>3, <1>12 DEF FilesRight
<1> HIDE DEF d
<1>5. b \in [step : Nat, digest : Digest \cup {None}] /\ b.step = o.step + 1 /\ b.digest = d
      /\ b.step > 0 /\ o.step > 0
  BY <1>1, <1>2, <1>4
<1>6. BuildRight(Q, l, b)
  <2>1. Uploaded(l, o.step, processed)
    BY <1>1, <1>2 DEF BuildRight
  <2>2. Uploaded(l, o.step + 1, Q)
    <3>1. Len(Steps[l]) \in Nat /\ o.step \in Nat
      BY <1>2, BuildHas
    <3>2. ASSUME NEW k \in 1 .. Len(Steps[l]), k < o.step + 1, Steps[l][k].op = "upload",
                 Files[Steps[l][k].path] # None
          PROVE  Files[Steps[l][k].path] \in Q
      <4>1. CASE k = o.step
        BY <1>4, <1>11, <3>2, <4>1
      <4>2. CASE k # o.step
        <5>1. k < o.step
          BY <3>1, <3>2, <4>2
        <5>2. QED
          BY <2>1, <3>2, <5>1 DEF Uploaded
      <4>3. QED
        BY <4>1, <4>2
    <3>3. QED
      BY <3>2 DEF Uploaded
  <2> HIDE DEF b
  <2>3. QED
    BY <1>5, <2>2 DEF BuildRight
<1> HIDE DEF b, Q
<1>7. broken' = FALSE /\ containers' \in Containers /\ PreparerRight(Now', phase', images', processed')
  <2>1. building[l].step > 0 /\ processed \subseteq Q
    BY <1>5 DEF Q, o
  <2>2. QED
    BY <1>1, <1>5, <1>6, <2>1, BuildSteps
<1>8. RouterRight(routerQueue', artifacts', phase', prepared', processed', routed', atBroker' \cup atWorker')
  <2>1. CASE d \in processed
    <3>1. routerQueue' = routerQueue /\ processed' = processed
      BY <1>1, <2>1 DEF Announced, Q
    <3>2. QED
      BY <1>1, <3>1, RouterHas
  <2>2. CASE d \notin processed
    <3>1. routerQueue' = Append(routerQueue, m)
      BY <1>1, <2>2 DEF Announced
    <3>2. m \in Messages /\ m.kind = "AddArtifact" /\ m.digest = d
      BY <1>3, <1>4 DEF Messages
    <3> HIDE DEF m
    <3>3. Sends(m, phase, phase, processed, Q)
      BY <1>2, <1>4, <3>2 DEF Sends, Q
    <3>4. RouterRight(Append(routerQueue, m), artifacts, phase, prepared, Q, routed,
                      atBroker \cup atWorker)
      BY <3>3, RouterHas, RouterSends
    <3>5. QED
      BY <1>1, <3>1, <3>4
  <2>3. QED
    BY <2>1, <2>2
<1>9. FilesRight(files')
  BY <1>1 DEF ClientRight
<1>10. QED
  BY <1>7, <1>8, <1>9 DEF ClientRight

LEMMA SubmitRight ==
  ASSUME ClientRight, NEW j \in Job, Submit(j)
  PROVE  ClientRight'
<1> DEFINE m == [kind |-> "RunJob", job |-> j]
           ph == [phase EXCEPT ![j] = "running"]
<1>1. /\ phase[j] = "prepared" /\ phase' = ph /\ routerQueue' = Append(routerQueue, m)
      /\ UNCHANGED preparerVars /\ UNCHANGED <<building, files, processed, broken>>
      /\ UNCHANGED <<artifacts, routed, atBroker, atWorker, prepared>>
  BY DEF Submit, buildVars
<1>2. phase \in [Job -> Phases] /\ "running" \in Handed /\ phase[j] \in Handed
  BY <1>1, PreparerHas DEF Handed
<1>3. PICK p : p = Now
  OBVIOUS
<1>4. PreparerRight(p, phase, images, processed) /\ processed \subseteq Digest
  BY <1>3 DEF ClientRight, RouterRight
<1>5. PreparerRight(p, ph, images, processed)
  BY <1>2, <1>4, PhaseMoves
<1>6. Now' = p /\ images' = images /\ containers' = containers
  BY <1>1, <1>3, NowStays
<1>7. Sends(m, phase, ph, processed, processed)
  <2>1. ph[j] = "running" /\ \A k \in Job : ph[k] = phase[k] \/ (phase[k] = "prepared" /\ ph[k] = "running")
    BY <1>1, <1>2
  <2>2. m \in Messages /\ m.kind = "RunJob" /\ m.job = j
    BY DEF Messages
  <2> HIDE DEF m, ph
  <2>3. QED
    BY <1>2, <1>4, <2>1, <2>2 DEF Sends
<1> HIDE DEF m, ph
<1>8. RouterRight(Append(routerQueue, m), artifacts, ph, prepared, processed, routed, atBroker \cup atWorker)
  BY <1>7, RouterHas, RouterSends
<1>9. RouterRight(routerQueue', artifacts', phase', prepared', processed', routed', atBroker' \cup atWorker')
  BY <1>1, <1>8
<1>10. PreparerRight(Now', phase', images', processed')
  BY <1>1, <1>5, <1>6
<1>11. QED
  BY <1>1, <1>6, <1>9, <1>10 DEF ClientRight

\* A step of the router leaves the preparer and the builds alone.
LEMMA RouterStep ==
  ASSUME ClientRight, UNCHANGED preparerVars, UNCHANGED buildVars, UNCHANGED phase,
         broken' = FALSE,
         RouterRight(routerQueue', artifacts', phase', prepared', processed, routed',
                     atBroker' \cup atWorker')
  PROVE  ClientRight'
<1>1. building' = building /\ files' = files /\ processed' = processed
  BY DEF buildVars
<1>2. Now' = Now /\ images' = images /\ containers' = containers
  BY <1>1, NowStays
<1>3. PreparerRight(Now', phase', images', processed')
  BY <1>1, <1>2 DEF ClientRight
<1>4. QED
  BY <1>1, <1>2, <1>3 DEF ClientRight

LEMMA AddArtifactRight ==
  ASSUME ClientRight, AddArtifact
  PROVE  ClientRight'
<1> DEFINE msg == Head(routerQueue)
           b == [artifacts EXCEPT ![msg.digest] = msg.path]
           W == atBroker \cup atWorker
<1>1. /\ routerQueue # <<>> /\ msg.kind = "AddArtifact" /\ routerQueue' = Tail(routerQueue)
      /\ artifacts' = b
      /\ UNCHANGED <<routed, atBroker, atWorker, prepared>> /\ broken' = broken
      /\ UNCHANGED preparerVars /\ UNCHANGED buildVars /\ UNCHANGED phase
  BY DEF AddArtifact
<1>2. /\ routerQueue \in Seq(Messages) /\ artifacts \in [Digest -> Path \cup {None}]
      /\ W \subseteq routed
  BY RouterHas DEF RouterRight
<1>3. msg \in Messages
  BY <1>1, <1>2
<1>4. msg.digest \in Digest /\ msg.path \in Path /\ msg.path # None
  BY <1>1, <1>3, FilesAssumption DEF Messages
<1>5. /\ b \in [Digest -> Path \cup {None}] /\ b[msg.digest] # None
      /\ \A d : artifacts[d] # None => b[d] # None
  BY <1>2, <1>4
<1> HIDE DEF b, W
<1>6. Takes(routerQueue, artifacts, b, processed, routed, W, routed, W)
  BY <1>1, <1>2, <1>5 DEF Takes
<1>7. RouterRight(Tail(routerQueue), b, phase, prepared, processed, routed, W)
  BY <1>6, RouterHas, RouterTakes DEF W
<1>8. broken' = FALSE
  BY <1>1 DEF ClientRight
<1>9. RouterRight(routerQueue', artifacts', phase', prepared', processed, routed', atBroker' \cup atWorker')
  BY <1>1, <1>7 DEF W
<1>10. QED
  BY <1>1, <1>8, <1>9, RouterStep

LEMMA RunJobRight ==
  ASSUME ClientRight, RunJob
  PROVE  ClientRight'
<1> DEFINE j == Head(routerQueue).job
           W == atBroker \cup atWorker
           R2 == routed \cup {j}
           W2 == W \cup {j}
<1>1. /\ routerQueue # <<>> /\ Head(routerQueue).kind = "RunJob" /\ routerQueue' = Tail(routerQueue)
      /\ routed' = R2 /\ atBroker' \cup atWorker' = W2
      /\ UNCHANGED <<artifacts, prepared>> /\ broken' = broken
      /\ UNCHANGED preparerVars /\ UNCHANGED buildVars /\ UNCHANGED phase
  BY DEF RunJob
<1>2. routerQueue \in Seq(Messages) /\ artifacts \in [Digest -> Path \cup {None}] /\ W \subseteq routed
  BY RouterHas DEF RouterRight
<1>3. Takes(routerQueue, artifacts, artifacts, processed, routed, W, R2, W2)
  BY <1>1, <1>2 DEF Takes
<1> HIDE DEF R2, W2, W
<1>4. RouterRight(Tail(routerQueue), artifacts, phase, prepared, processed, R2, W2)
  BY <1>3, RouterHas, RouterTakes DEF W
<1>5. broken' = FALSE
  BY <1>1 DEF ClientRight
<1>6. RouterRight(routerQueue', artifacts', phase', prepared', processed, routed', atBroker' \cup atWorker')
  BY <1>1, <1>4
<1>7. QED
  BY <1>1, <1>5, <1>6, RouterStep

LEMMA JobStatusUpdateRight ==
  ASSUME ClientRight, NEW j \in Job, JobStatusUpdate(j)
  PROVE  ClientRight'
<1>1. /\ j \in atBroker \cup atWorker /\ broken' = (broken \/ j \notin routed)
      /\ UNCHANGED <<routerQueue, artifacts, routed, atBroker, atWorker, prepared>>
      /\ UNCHANGED preparerVars /\ UNCHANGED buildVars /\ UNCHANGED phase
  BY DEF JobStatusUpdate, routerVars
<1>2. j \in routed /\ broken = FALSE
  BY <1>1, RouterHas DEF RouterRight, ClientRight
<1>3. broken' = FALSE
  BY <1>1, <1>2
<1>4. RouterRight(routerQueue', artifacts', phase', prepared', processed, routed', atBroker' \cup atWorker')
  BY <1>1, RouterHas
<1>5. QED
  BY <1>1, <1>3, <1>4, RouterStep

LEMMA JobResponseRight ==
  ASSUME ClientRight, NEW j \in Job, JobResponse(j)
  PROVE  ClientRight'
<1> DEFINE ph == [phase EXCEPT ![j] = "done"]
           W == atBroker \cup atWorker
<1>1. /\ j \in W /\ broken' = (broken \/ j \notin routed)
      /\ atBroker' \cup atWorker' = W \ {j} /\ routed' = routed \ {j} /\ phase' = ph
      /\ UNCHANGED <<routerQueue, artifacts, prepared>>
      /\ UNCHANGED preparerVars /\ UNCHANGED <<building, files, processed>>
  BY DEF JobResponse, buildVars
<1>2. /\ W \subseteq routed \cap Job /\ phase[j] \in {"running", "done"} /\ broken = FALSE
      /\ phase \in [Job -> Phases]
  BY <1>1, RouterHas, PreparerHas DEF RouterRight, ClientRight
<1>3. broken' = FALSE
  BY <1>1, <1>2
<1>4. PICK p : p = Now
  OBVIOUS
<1>5. PreparerRight(p, ph, images, processed)
  <2>1. phase[j] \in Handed /\ "done" \in Handed
    BY <1>2 DEF Handed
  <2>2. PreparerRight(p, phase, images, processed)
    BY <1>4 DEF ClientRight
  <2>3. QED
    BY <2>1, <2>2, PhaseMoves
<1>6. Now' = p /\ images' = images /\ containers' = containers
  BY <1>1, <1>4, NowStays
<1>7. /\ ph[j] = "done" /\ \A k \in Job \ {j} : ph[k] = phase[k]
      /\ \A k \in Job : ph[k] \in Handed => phase[k] \in Handed
      /\ \A k \in Job : phase[k] \in {"running", "done"} => ph[k] \in {"running", "done"}
  BY <1>2 DEF Handed
<1> HIDE DEF ph, W
<1>8. RouterRight(routerQueue, artifacts, ph, prepared, processed, routed \ {j}, W \ {j})
  <2>1. RouterRight(routerQueue, artifacts, phase, prepared, processed, routed, W)
    BY RouterHas DEF W
  <2>2. ASSUME NEW n \in 1 .. Len(routerQueue), routerQueue[n].kind = "RunJob"
        PROVE  /\ ph[routerQueue[n].job] \in {"running", "done"}
               /\ \A d \in NeededFor(prepared[routerQueue[n].job]) : Announces(routerQueue, artifacts, n, d)
    <3>1. routerQueue[n] \in Messages
      BY <2>1 DEF RouterRight
    <3>2. routerQueue[n].job \in Job
      BY <2>2, <3>1 DEF Messages
    <3>3. QED
      BY <1>7, <2>1, <2>2, <3>2 DEF RouterRight
  <2>3. \A k \in W \ {j} : /\ ph[k] \in {"running", "done"}
                           /\ \A d \in NeededFor(prepared[k]) : artifacts[d] # None
    BY <1>2, <1>7, <2>1 DEF RouterRight
  <2>4. \A k \in Job : ph[k] \in Handed => NeededFor(prepared[k]) \subseteq processed
    BY <1>7, <2>1 DEF RouterRight
  <2>5. W \ {j} \subseteq (routed \ {j}) \cap Job
    BY <1>2
  <2>6. QED
    BY <2>1, <2>2, <2>3, <2>4, <2>5, Zenon DEF RouterRight
<1>9. RouterRight(routerQueue', artifacts', phase', prepared', processed', routed', atBroker' \cup atWorker')
  BY <1>1, <1>8
<1>10. PreparerRight(Now', phase', images', processed') /\ FilesRight(files') /\ containers' \in Containers
  BY <1>1, <1>5, <1>6 DEF ClientRight
<1>11. QED
  BY <1>3, <1>9, <1>10 DEF ClientRight

LEMMA ArtifactWantedRight ==
  ASSUME ClientRight, NEW d \in Digest, ArtifactWanted(d)
  PROVE  ClientRight'
<1>1. /\ broken' = (broken \/ artifacts[d] = None)
      /\ UNCHANGED <<routerQueue, artifacts, routed, atBroker, atWorker, prepared>>
      /\ UNCHANGED preparerVars /\ UNCHANGED buildVars /\ UNCHANGED phase
  BY DEF ArtifactWanted, routerVars
<1>2. PICK j \in atBroker \cup atWorker :
        \/ d \in ToSet(prepared[j].layers)
        \/ \E l \in ToSet(LayersOf(prepared[j].spec)) :
             \E path \in Uploads(l) : Files[path] # None /\ d = Files[path]
  BY Zenon DEF ArtifactWanted
<1>3. d \in NeededFor(prepared[j])
  BY <1>2 DEF NeededFor
<1>4. artifacts[d] # None /\ broken = FALSE
  BY <1>3, RouterHas DEF RouterRight, ClientRight
<1>5. broken' = FALSE
  BY <1>1, <1>4
<1>6. RouterRight(routerQueue', artifacts', phase', prepared', processed, routed', atBroker' \cup atWorker')
  BY <1>1, RouterHas
<1>7. QED
  BY <1>1, <1>5, <1>6, RouterStep

LEMMA AddContainerRight ==
  ASSUME ClientRight, NEW k \in Name, NEW c \in Container, AddContainer(k, c)
  PROVE  ClientRight'
<1>1. /\ containers' = [containers EXCEPT ![k] = c]
      /\ UNCHANGED <<images, layers, jobs, pending, waiting, building, files, processed>>
      /\ UNCHANGED <<routerQueue, artifacts, routed, atBroker, atWorker>>
      /\ UNCHANGED <<phase, prepared, broken>>
  BY DEF AddContainer, buildVars, routerVars
<1>2. containers' \in Containers
  BY <1>1 DEF ClientRight, Containers
<1>3. Now' = Now
  BY <1>1 DEF Now
<1>4. PreparerRight(Now', phase', images', processed')
  BY <1>1, <1>3 DEF ClientRight
<1>5. RouterRight(routerQueue', artifacts', phase', prepared', processed', routed', atBroker' \cup atWorker')
  BY <1>1, RouterHas
<1>6. QED
  BY <1>1, <1>2, <1>4, <1>5 DEF ClientRight

LEMMA StepRight ==
  ASSUME ClientRight, [Next]_vars
  PROVE  ClientRight'
<1>1. CASE UNCHANGED vars
  <2>1. /\ UNCHANGED preparerVars /\ UNCHANGED buildVars /\ UNCHANGED routerVars
        /\ UNCHANGED <<phase, prepared, failures, broken>>
    BY <1>1 DEF vars
  <2>2. broken' = FALSE
    BY <2>1 DEF ClientRight
  <2>3. RouterRight(routerQueue', artifacts', phase', prepared', processed, routed', atBroker' \cup atWorker')
    BY <2>1, RouterHas DEF routerVars
  <2>4. QED
    BY <2>1, <2>2, <2>3, RouterStep
<1>2. CASE \E k \in Name, c \in Container : AddContainer(k, c)
  BY <1>2, AddContainerRight
<1>3. CASE \E j \in Job : PrepareJob(j) \/ Submit(j) \/ JobStatusUpdate(j) \/ JobResponse(j)
  BY <1>3, PrepareJobRight, SubmitRight, JobStatusUpdateRight, JobResponseRight
<1>4. CASE \E i \in Image : GotImage(i) \/ GotImageError(i)
  BY <1>4, GotImageRight, GotImageErrorRight
<1>5. CASE \E l \in Layer : GotLayer(l) \/ BuildWrites(l) \/ BuildUploads(l) \/ BuildFails(l)
  BY <1>5, GotLayerRight, BuildWritesRight, BuildUploadsRight, BuildFailsRight
<1>6. CASE AddArtifact \/ RunJob
  BY <1>6, AddArtifactRight, RunJobRight
<1>7. CASE \E d \in Digest : ArtifactWanted(d)
  BY <1>7, ArtifactWantedRight
<1>8. QED
  BY <1>1, <1>2, <1>3, <1>4, <1>5, <1>6, <1>7 DEF Next

-----------------------------------------------------------------------------
\* The theorems.

\* The invariant from which the others follow: the jobs, the layers, the images,
\* the builds and the router's channel agree with each other in every state.
THEOREM ClientIsRight == Spec => []ClientRight
<1>1. Init => ClientRight
  BY InitRight
<1>2. ClientRight /\ [Next]_vars => ClientRight'
  BY StepRight
<1>3. QED
  BY <1>1, <1>2, PTL DEF Spec

\* No assertion or unwrap of the preparer's and the router's tasks fails, and no
\* artifact of a job is asked for that the router has not been told of.
THEOREM NothingEverBreaks == Spec => []NothingBreaks
<1>1. ClientRight => NothingBreaks
  BY DEF ClientRight, NothingBreaks
<1>2. QED
  BY <1>1, ClientIsRight, PTL

\* LayerBuilds counts the builds there are, within its limit; what waits to be
\* built waits once, while the limit is reached; no layer that is awaited is lost.
THEOREM BuildsAreAccounted == Spec => []BuildsAccounted
<1>1. ASSUME ClientRight PROVE BuildsAccounted
  <2> DEFINE running == {l \in Layer : building[l].step > 0}
  <2>1. PICK p : p = Now
    OBVIOUS
  <2>2. /\ p.layers = layers /\ p.pending = pending /\ p.waiting = waiting
        /\ p.building = building
    BY <2>1, NowFields
  <2>3. PrepTyped(p) /\ Accounts(p)
    BY <1>1, <2>1, PreparerHas DEF KeptRight
  <2>4. RunningIn(p) = running
    BY <2>2, Zenon DEF RunningIn
  <2>5. /\ pending = Cardinality(running) /\ pending <= MaxPendingLayerBuilds
        /\ waiting # <<>> => pending = MaxPendingLayerBuilds
        /\ {l \in Layer : layers[l].st = "getting"} = running \cup ToSet(waiting)
        /\ IsInjective(waiting) /\ ToSet(waiting) \cap running = {}
    BY <2>2, <2>3, <2>4, Zenon DEF Accounts
  <2>6. waiting \in Seq(Layer)
    BY <2>2, <2>3 DEF PrepTyped
  <2>7. Cardinality(ToSet(waiting)) = Len(waiting)
    BY <2>5, <2>6, CountOnce
  <2>8. QED
    BY <2>5, <2>7, Zenon DEF BuildsAccounted
<1>2. ClientRight => BuildsAccounted
  BY <1>1
<1>3. QED
  BY <1>2, ClientIsRight, PTL

\* Whatever a job lacks is on its way to it: each layer that is missing has the
\* job's place among its waiters, a missing image has the job on its list.
THEOREM EveryJobIsServed == Spec => []EveryJobIsAwaited
<1>1. ASSUME ClientRight, NEW j \in Job, jobs[j] # NoJob
      PROVE  /\ ~IsReady(jobs[j])
             /\ jobs[j].spec.image # None =>
                  /\ images[jobs[j].spec.image.name].st = "getting"
                  /\ j \in ToSet(images[jobs[j].spec.image.name].wait)
             /\ JobRight(layers, {}, j, jobs[j])
  <2>1. /\ ~IsReady(jobs[j]) /\ ImagesRight(images, jobs, Seen)
        /\ KeptRight(Now, Preparing, Seen, {})
    BY <1>1, PreparerHas DEF NoneReady
  <2>2. JobRight(layers, {}, j, jobs[j])
    <3>1. PICK p : p = Now
      OBVIOUS
    <3>2. p.jobs = jobs /\ p.layers = layers /\ KeptRight(p, Preparing, Seen, {})
      BY <2>1, <3>1, NowFields
    <3>3. QED
      BY <1>1, <3>2, Zenon DEF KeptRight
  <2>3. ASSUME jobs[j].spec.image # None
        PROVE  /\ images[jobs[j].spec.image.name].st = "getting"
               /\ j \in ToSet(images[jobs[j].spec.image.name].wait)
    <3> DEFINE i == jobs[j].spec.image.name
    <3>1. Listed(images[i], j)
      BY <1>1, <2>1, <2>3, Zenon DEF ImagesRight
    <3>2. i \in Image
      BY <2>2, <2>3, Zenon DEF JobRight, SpecRight, ImageRight
    <3>3. ImageEntryRight(i, images[i], jobs, Seen)
      BY <2>1, <3>2, Zenon DEF ImagesRight
    <3> HIDE DEF i
    <3>4. images[i].wait \in Seq(Job)
      <4>1. images[i] \notin {Unknown, Err, Got(i)}
        BY <3>1 DEF Listed, Unknown, Err, Got
      <4>2. QED
        BY <3>3, <4>1, Zenon DEF ImageEntryRight
    <3>5. images[i].st = "getting" /\ j \in ToSet(images[i].wait)
      BY <3>1, <3>4, InSequence DEF Listed
    <3>6. QED
      BY <3>5 DEF i
  <2>4. QED
    BY <2>1, <2>2, <2>3
<1>2. ASSUME NEW j, NEW image, NEW ls, NEW found, PlacesRight(layers, {}, j, image, ls, found),
             NEW i \in DOMAIN found, found[i] = None
      PROVE  layers[ls[i]].st = "getting" /\ <<image, j, i>> \in layers[ls[i]].wait
  <2>1. i \in 1 .. Len(ls)
    BY <1>2 DEF PlacesRight
  <2>2. WaitsIn(layers, {}, ls[i], <<image, j, i>>)
    BY <1>2, <2>1, Zenon DEF PlacesRight, PlaceRight
  <2>3. QED
    BY <2>2, Zenon DEF WaitsIn
<1>3. ASSUME ClientRight PROVE EveryJobIsAwaited
  <2>1. ASSUME NEW j \in {k \in Job : jobs[k] # NoJob}
        PROVE  /\ \A i \in DOMAIN jobs[j].imageLayers : jobs[j].imageLayers[i] = None =>
                    LET ls == jobs[j].spec.imageVal["layers"] IN
                    layers[ls[i]].st = "getting" /\ <<TRUE, j, i>> \in layers[ls[i]].wait
               /\ \A i \in DOMAIN jobs[j].layers : jobs[j].layers[i] = None =>
                    LET ls == jobs[j].spec.val["layers"] IN
                    layers[ls[i]].st = "getting" /\ <<FALSE, j, i>> \in layers[ls[i]].wait
    <3>1. /\ PlacesRight(layers, {}, j, TRUE, jobs[j].spec.imageVal["layers"], jobs[j].imageLayers)
          /\ PlacesRight(layers, {}, j, FALSE, jobs[j].spec.val["layers"], jobs[j].layers)
      BY <1>1, <1>3, <2>1, Zenon DEF JobRight
    <3>2. QED
      BY <1>2, <3>1, Zenon
  <2>2. QED
    BY <1>1, <1>3, <2>1, Zenon DEF EveryJobIsAwaited
<1>4. ClientRight => EveryJobIsAwaited
  BY <1>3
<1>5. QED
  BY <1>4, ClientIsRight, PTL

-----------------------------------------------------------------------------
\* What jobs are run with, when each manifest has a path of its own.

Writes(l) == {n \in DOMAIN Steps[l] : Steps[l][n].op = "write"}
Ending(l) == Steps[l][Len(Steps[l])]

\* A build ends with the upload of what the layer is: the manifest that it has
\* written, or a file that it names; and no other build writes to that path.
OwnManifests ==
  \A l \in Layer :
    /\ Steps[l] # <<>> /\ Ending(l).op = "upload"
    /\ \A n \in Writes(l) : Writes(l) = {n} /\ Steps[l][n].path = Ending(l).path
    /\ \A k \in Layer \ {l} : \A n \in Writes(k) : Steps[k][n].path # Ending(l).path

EntryDescribed(l, e) == e.st = "got" => e.val = Described(l)

BuildDescribed(l, b) ==
  b.step > Len(Steps[l]) /\ b.digest # None => b.digest = Described(l)

\* The file is there, unless the build of l has yet to write it.
FileDescribed(l, b, f) ==
  Writes(l) = {} \/ (b.step <= Len(Steps[l]) /\ \E n \in Writes(l) : n < b.step)
    => f[Ending(l).path] = Described(l)

JobDescribed(r) ==
  LET ls == LayersOf(r.spec) IN r.layers = [i \in DOMAIN ls |-> Described(ls[i])]

DescribedIn(ly, bu, f, pr) ==
  /\ \A l \in Layer : /\ EntryDescribed(l, ly[l]) /\ BuildDescribed(l, bu[l])
                      /\ FileDescribed(l, bu[l], f)
  /\ \A j \in Job : pr[j] # None => JobDescribed(pr[j])

DescribedRight == DescribedIn(layers, building, files, prepared)

LEMMA DescribedIs ==
  ASSUME OwnManifests, NEW l \in Layer
  PROVE  /\ Writes(l) = {} => Described(l) = Files[Ending(l).path]
         /\ \A n \in Writes(l) : Described(l) = Steps[l][n].digest
         /\ Len(Steps[l]) \in Nat \ {0} /\ Ending(l).path \in Path /\ Ending(l).op = "upload"
         /\ Writes(l) \subseteq 1 .. (Len(Steps[l]) - 1)
<1>1. Steps[l] \in Seq({Write(p, d) : p \in Path, d \in Digest} \cup {Upload(p) : p \in Path})
  BY FilesAssumption
<1>2. Steps[l] # <<>> /\ Ending(l).op = "upload"
  BY DEF OwnManifests
<1>3. Len(Steps[l]) \in Nat \ {0} /\ DOMAIN Steps[l] = 1 .. Len(Steps[l])
  BY <1>1, <1>2
<1>4. Ending(l).path \in Path
  BY <1>3, StepForms DEF Ending
<1>5. \A n \in Writes(l) : Writes(l) = {n}
  BY DEF OwnManifests
<1>6. Writes(l) = {} => Described(l) = Files[Ending(l).path]
  BY Zenon DEF Described, Writes, Ending
<1>7. ASSUME NEW n \in Writes(l) PROVE Described(l) = Steps[l][n].digest
  <2>1. Writes(l) # {}
    OBVIOUS
  <2>2. Described(l) = Steps[l][CHOOSE m \in Writes(l) : TRUE].digest
    BY <2>1, Zenon DEF Described, Writes
  <2>3. (CHOOSE m \in Writes(l) : TRUE) \in Writes(l)
    BY <2>1, Zenon
  <2>4. (CHOOSE m \in Writes(l) : TRUE) = n
    BY <1>5, <2>3
  <2>5. QED
    BY <2>2, <2>4, Zenon
<1>8. Writes(l) \subseteq 1 .. (Len(Steps[l]) - 1)
  BY <1>2, <1>3 DEF Writes, Ending
<1>9. QED
  BY <1>2, <1>3, <1>4, <1>6, <1>7, <1>8

LEMMA InitDescribed == OwnManifests /\ Init => DescribedRight
<1> SUFFICES ASSUME OwnManifests, Init PROVE DescribedRight
  OBVIOUS
<1>1. ASSUME NEW l \in Layer
      PROVE  /\ EntryDescribed(l, layers[l]) /\ BuildDescribed(l, building[l])
             /\ FileDescribed(l, building[l], files)
  <2>1. layers[l].st = "none" /\ building[l].step = 0 /\ building[l].digest = None /\ files = Files
    BY DEF Init, Unknown, NotBuilding
  <2>2. \A n \in Writes(l) : ~(n < 0)
    BY DescribedIs
  <2>3. QED
    BY <2>1, <2>2, DescribedIs DEF EntryDescribed, BuildDescribed, FileDescribed
<1>2. \A j \in Job : prepared[j] = None
  BY DEF Init
<1>3. QED
  BY <1>1, <1>2 DEF DescribedRight, DescribedIn

\* A handler of the preparer gets a layer from its build and hands over jobs.
LEMMA HandlesDescribed ==
  ASSUME OwnManifests, DescribedRight, Handles, \A l \in Layer : building[l].step \in Nat
  PROVE  DescribedRight'
<1>1. PICK ly : ly = layers'
  OBVIOUS
<1>2. PICK bu : bu = building'
  OBVIOUS
<1>3. PICK pr : pr = prepared'
  OBVIOUS
<1>4. Follows(ly, bu) /\ HandedAs(ly, prepared, pr) /\ files' = files
  BY <1>1, <1>2, <1>3 DEF Handles
<1>5. ASSUME NEW l \in Layer
      PROVE  /\ EntryDescribed(l, ly[l]) /\ BuildDescribed(l, bu[l])
             /\ FileDescribed(l, bu[l], files)
  <2>1. /\ EntryDescribed(l, layers[l]) /\ BuildDescribed(l, building[l])
        /\ FileDescribed(l, building[l], files)
    BY DEF DescribedRight, DescribedIn
  <2>2. EntryDescribed(l, ly[l])
    <3>1. CASE ly[l] = layers[l]
      BY <2>1, <3>1
    <3>2. CASE ly[l] # layers[l]
      <4>1. ly[l].st = "got" => /\ building[l].step > Len(Steps[l]) /\ building[l].digest # None
                                /\ ly[l] = Got(building[l].digest)
        BY <1>4, <3>2 DEF Follows
      <4>2. QED
        BY <2>1, <4>1 DEF EntryDescribed, BuildDescribed, Got
    <3>3. QED
      BY <3>1, <3>2
  <2>3. bu[l] = building[l] \/ bu[l].step \in {0, 1}
    BY <1>4 DEF Follows
  <2>4. Len(Steps[l]) \in Nat \ {0} /\ \A n \in Writes(l) : ~(n < 0) /\ ~(n < 1)
    BY DescribedIs
  <2>5. BuildDescribed(l, bu[l])
    BY <2>1, <2>3, <2>4 DEF BuildDescribed
  <2>6. FileDescribed(l, bu[l], files)
    BY <2>1, <2>3, <2>4 DEF FileDescribed
  <2>7. QED
    BY <2>2, <2>5, <2>6
<1>6. ASSUME NEW j \in Job, pr[j] # None
      PROVE  JobDescribed(pr[j])
  <2>1. CASE pr[j] = prepared[j]
    BY <1>6, <2>1 DEF DescribedRight, DescribedIn
  <2>2. CASE pr[j] # prepared[j]
    <3> DEFINE r == pr[j]
               ls == LayersOf(r.spec)
    <3>1. /\ ls \in Seq(Layer) /\ DOMAIN r.layers = 1 .. Len(ls) /\ r.layers \in Seq(Digest)
          /\ \A i \in 1 .. Len(ls) : ly[ls[i]] = Got(r.layers[i])
      BY <1>4, <2>2, Zenon DEF HandedAs, GotAll
    <3> HIDE DEF r
    <3> DEFINE x == r.layers
    <3>2. x \in Seq(Digest) /\ DOMAIN x = 1 .. Len(ls)
      BY <3>1
    <3> HIDE DEF ls, x
    <3>3. ASSUME NEW i \in 1 .. Len(ls)
          PROVE  x[i] = Described(ls[i])
      <4>1. ls[i] \in Layer /\ ly[ls[i]] = Got(x[i])
        BY <3>1 DEF x
      <4>2. ly[ls[i]].st = "got" /\ ly[ls[i]].val = x[i]
        BY <4>1 DEF Got
      <4>3. QED
        BY <1>5, <4>1, <4>2 DEF EntryDescribed
    <3>4. DOMAIN ls = 1 .. Len(ls)
      BY <3>1
    <3>5. x = [i \in DOMAIN ls |-> Described(ls[i])]
      BY <3>2, <3>3, <3>4
    <3>6. QED
      BY <3>5, Zenon DEF JobDescribed, r, ls, x
  <2>3. QED
    BY <2>1, <2>2
<1>7. DescribedIn(ly, bu, files, pr)
  BY <1>5, <1>6 DEF DescribedIn
<1>8. QED
  BY <1>1, <1>2, <1>3, <1>4, <1>7 DEF DescribedRight

\* The build of l goes on to b, having written the file f or nothing.
LEMMA StepsDescribed ==
  ASSUME OwnManifests, DescribedIn(layers, building, files, prepared),
         NEW l \in Layer, NEW b, NEW f, building \in Builds,
         BuildDescribed(l, b), FileDescribed(l, b, f),
         \A k \in Layer \ {l} : f[Ending(k).path] = files[Ending(k).path]
  PROVE  DescribedIn(layers, [building EXCEPT ![l] = b], f, prepared)
<1> DEFINE bu == [building EXCEPT ![l] = b]
<1>1. ASSUME NEW k \in Layer
      PROVE  /\ EntryDescribed(k, layers[k]) /\ BuildDescribed(k, bu[k])
             /\ FileDescribed(k, bu[k], f)
  <2>1. /\ EntryDescribed(k, layers[k]) /\ BuildDescribed(k, building[k])
        /\ FileDescribed(k, building[k], files)
    BY DEF DescribedIn
  <2>2. CASE k = l
    BY <2>1, <2>2 DEF Builds
  <2>3. CASE k # l
    <3>1. bu[k] = building[k] /\ f[Ending(k).path] = files[Ending(k).path]
      BY <2>3 DEF Builds
    <3>2. QED
      BY <2>1, <3>1 DEF FileDescribed
  <2>4. QED
    BY <2>2, <2>3
<1>2. QED
  BY <1>1 DEF DescribedIn

LEMMA BuildWritesDescribed ==
  ASSUME OwnManifests, ClientRight, DescribedRight, NEW l \in Layer, BuildWrites(l)
  PROVE  DescribedRight'
<1> DEFINE o == building[l]
           s == Steps[l][o.step]
           b == [step |-> o.step + 1, digest |-> o.digest]
           f == [files EXCEPT ![s.path] = s.digest]
<1>1. /\ o.step \in 1 .. Len(Steps[l]) /\ s.op = "write" /\ files' = f
      /\ building' = [building EXCEPT ![l].step = @ + 1]
      /\ layers' = layers /\ prepared' = prepared
  BY Zenon DEF BuildWrites, preparerVars
<1>2. building \in Builds /\ o \in [step : Nat, digest : Digest \cup {None}] /\ Len(Steps[l]) \in Nat
  BY BuildHas
<1>3. building' = [building EXCEPT ![l] = b]
  <2>1. building' = [building EXCEPT ![l] = [o EXCEPT !.step = o.step + 1]]
    BY <1>1, <1>2 DEF Builds
  <2> HIDE DEF o
  <2>2. [o EXCEPT !.step = o.step + 1] = b
    BY <1>2
  <2>3. QED
    BY <2>1, <2>2 DEF o
<1>4. o.step \in Writes(l)
  <2>1. DOMAIN Steps[l] = 1 .. Len(Steps[l])
    BY FilesAssumption
  <2>2. QED
    BY <1>1, <2>1 DEF Writes
<1>5. /\ Described(l) = s.digest /\ o.step + 1 <= Len(Steps[l])
      /\ Len(Steps[l]) \in Nat /\ s.path = Ending(l).path /\ Ending(l).path \in Path
  <2>1. s.path = Ending(l).path
    BY <1>4 DEF OwnManifests
  <2>2. o.step \in 1 .. (Len(Steps[l]) - 1) /\ Described(l) = Steps[l][o.step].digest
    BY <1>4, DescribedIs
  <2>3. QED
    BY <1>2, <2>1, <2>2, DescribedIs
<1>6. files \in [Path -> Digest \cup {None}]
  BY DEF ClientRight, FilesRight
<1>7. BuildDescribed(l, b)
  BY <1>2, <1>5 DEF BuildDescribed
<1>8. FileDescribed(l, b, f)
  BY <1>5, <1>6 DEF FileDescribed
<1>9. \A k \in Layer \ {l} : f[Ending(k).path] = files[Ending(k).path]
  <2>1. ASSUME NEW k \in Layer \ {l}
        PROVE  f[Ending(k).path] = files[Ending(k).path]
    <3>1. s.path # Ending(k).path
      BY <1>4 DEF OwnManifests
    <3>2. Ending(k).path \in Path
      BY DescribedIs
    <3>3. QED
      BY <1>6, <3>1, <3>2
  <2>2. QED
    BY <2>1
<1> HIDE DEF b, f, o, s
<1>10. DescribedIn(layers, [building EXCEPT ![l] = b], f, prepared)
  BY <1>2, <1>7, <1>8, <1>9, StepsDescribed DEF DescribedRight
<1>11. QED
  BY <1>1, <1>3, <1>10 DEF DescribedRight

LEMMA BuildUploadsDescribed ==
  ASSUME OwnManifests, ClientRight, DescribedRight, NEW l \in Layer, BuildUploads(l)
  PROVE  DescribedRight'
<1> DEFINE o == building[l]
           s == Steps[l][o.step]
           d == files[s.path]
           b == [step |-> o.step + 1, digest |-> d]
<1>1. /\ o.step \in 1 .. Len(Steps[l]) /\ s.op = "upload" /\ files' = files
      /\ building' = [building EXCEPT ![l] = b]
      /\ layers' = layers /\ prepared' = prepared
  BY Zenon DEF BuildUploads, preparerVars
<1>2. building \in Builds /\ Len(Steps[l]) \in Nat
  BY BuildHas
<1>3. /\ FileDescribed(l, o, files)
      /\ Writes(l) \subseteq 1 .. (Len(Steps[l]) - 1) /\ o.step \notin Writes(l)
  BY <1>1, DescribedIs DEF DescribedRight, DescribedIn, Writes
<1>4. \A n \in Writes(l) : n < o.step + 1 => n < o.step
  BY <1>1, <1>2, <1>3
<1>5. BuildDescribed(l, b)
  <2>1. SUFFICES ASSUME b.step > Len(Steps[l]), b.digest # None PROVE d = Described(l)
    BY DEF BuildDescribed
  <2>2. o.step = Len(Steps[l])
    BY <1>1, <1>2, <2>1
  <2>3. s = Ending(l)
    BY <2>2 DEF Ending
  <2>4. \A n \in Writes(l) : n < o.step
    BY <1>2, <1>3, <2>2
  <2>5. Writes(l) = {} \/ (o.step <= Len(Steps[l]) /\ \E n \in Writes(l) : n < o.step)
    BY <1>1, <2>4
  <2>6. files[Ending(l).path] = Described(l)
    BY <1>3, <2>5 DEF FileDescribed
  <2>7. QED
    BY <2>3, <2>6
<1>6. FileDescribed(l, b, files)
  <2>1. b.step <= Len(Steps[l]) => o.step <= Len(Steps[l])
    BY <1>1
  <2>2. (\E n \in Writes(l) : n < b.step) => (\E n \in Writes(l) : n < o.step)
    BY <1>4
  <2>3. QED
    BY <1>3, <2>1, <2>2 DEF FileDescribed
<1> HIDE DEF b, o, s, d
<1>7. DescribedIn(layers, [building EXCEPT ![l] = b], files, prepared)
  BY <1>2, <1>5, <1>6, StepsDescribed DEF DescribedRight
<1>8. QED
  BY <1>1, <1>7 DEF DescribedRight

LEMMA BuildFailsDescribed ==
  ASSUME OwnManifests, ClientRight, DescribedRight, NEW l \in Layer, BuildFails(l)
  PROVE  DescribedRight'
<1> DEFINE b == [step |-> Len(Steps[l]) + 1, digest |-> None]
<1>1. /\ files' = files /\ building' = [building EXCEPT ![l] = b]
      /\ layers' = layers /\ prepared' = prepared
  BY Zenon DEF BuildFails, preparerVars
<1>2. building \in Builds /\ Len(Steps[l]) \in Nat
  BY BuildHas
<1>3. BuildDescribed(l, b)
  BY DEF BuildDescribed
<1>4. FileDescribed(l, b, files)
  <2>1. ~(b.step <= Len(Steps[l]))
    BY <1>2
  <2>2. FileDescribed(l, building[l], files)
    BY DEF DescribedRight, DescribedIn
  <2>3. QED
    BY <2>1, <2>2 DEF FileDescribed
<1> HIDE DEF b
<1>5. DescribedIn(layers, [building EXCEPT ![l] = b], files, prepared)
  BY <1>2, <1>3, <1>4, StepsDescribed DEF DescribedRight
<1>6. QED
  BY <1>1, <1>5 DEF DescribedRight

LEMMA StepDescribed ==
  ASSUME OwnManifests, ClientRight, DescribedRight, [Next]_vars
  PROVE  DescribedRight'
<1>1. \A l \in Layer : building[l].step \in Nat
  <2>1. ASSUME NEW l \in Layer PROVE building[l].step \in Nat
    <3>1. building[l] \in [step : Nat, digest : Digest \cup {None}]
      BY BuildHas
    <3>2. QED
      BY <3>1
  <2>2. QED
    BY <2>1
<1>2. ASSUME Handles PROVE DescribedRight'
  BY <1>1, <1>2, HandlesDescribed
<1>3. ASSUME UNCHANGED <<layers, building, files, prepared>> PROVE DescribedRight'
  BY <1>3 DEF DescribedRight
<1>4. CASE UNCHANGED vars
  BY <1>3, <1>4 DEF vars, preparerVars, buildVars
<1>5. CASE \E k \in Name, c \in Container : AddContainer(k, c)
  <2>1. UNCHANGED <<layers, building, files, prepared>>
    BY <1>5, Zenon DEF AddContainer, buildVars
  <2>2. QED
    BY <1>3, <2>1
<1>6. CASE \E j \in Job : PrepareJob(j)
  BY <1>2, <1>6, PrepareJobRight
<1>7. CASE \E j \in Job : Submit(j) \/ JobStatusUpdate(j) \/ JobResponse(j)
  <2>1. UNCHANGED <<layers, building, files, prepared>>
    BY <1>7, Zenon DEF Submit, JobStatusUpdate, JobResponse, preparerVars, buildVars
  <2>2. QED
    BY <1>3, <2>1
<1>8. CASE \E i \in Image : GotImage(i) \/ GotImageError(i)
  BY <1>2, <1>8, GotImageRight, GotImageErrorRight
<1>9. CASE \E l \in Layer : GotLayer(l)
  BY <1>2, <1>9, GotLayerRight
<1>10. CASE \E l \in Layer : BuildWrites(l) \/ BuildUploads(l) \/ BuildFails(l)
  BY <1>10, BuildWritesDescribed, BuildUploadsDescribed, BuildFailsDescribed
<1>11. CASE AddArtifact \/ RunJob
  <2>1. UNCHANGED <<layers, building, files, prepared>>
    BY <1>11, Zenon DEF AddArtifact, RunJob, preparerVars, buildVars
  <2>2. QED
    BY <1>3, <2>1
<1>12. CASE \E d \in Digest : ArtifactWanted(d)
  <2>1. UNCHANGED <<layers, building, files, prepared>>
    BY <1>12, Zenon DEF ArtifactWanted, preparerVars, buildVars
  <2>2. QED
    BY <1>3, <2>1
<1>13. QED
  BY <1>4, <1>5, <1>6, <1>7, <1>8, <1>9, <1>10, <1>11, <1>12 DEF Next

\* If no two layers' manifests have the same path, every job is run with the
\* layers that its own spec names, each with the contents that its layer spec
\* describes, however the builds are interleaved: the shared path is the only way
\* to what ClientManifest.cfg finds.
THEOREM JobsRunAsSpecified ==
  ASSUME OwnManifests
  PROVE  Spec => []PreparedAsSpecified
<1>1. Init => DescribedRight
  BY InitDescribed
<1>2. ClientRight /\ DescribedRight /\ [Next]_vars => DescribedRight'
  BY StepDescribed
<1>3. DescribedRight => PreparedAsSpecified
  BY Zenon DEF DescribedRight, DescribedIn, JobDescribed, PreparedAsSpecified
<1>4. QED
  BY <1>1, <1>2, <1>3, ClientIsRight, PTL DEF Spec
=============================================================================
