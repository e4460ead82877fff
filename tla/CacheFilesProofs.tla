-------------------------- MODULE CacheFilesProofs --------------------------
(***************************************************************************)
(* Proofs about CacheFiles: whatever the artifacts, their sizes and the    *)
(* target are, and wherever processes stop and operations fail, the cache  *)
(* and its directory agree.                                                *)
(*                                                                         *)
(* The invariant follows the handlers: for each phase, and in an open      *)
(* cache for what is being done, it says which operations are left and     *)
(* what is on disk before them.  What it says of a process that is down is *)
(* all that a start can rely on.                                           *)
(***************************************************************************)
EXTENDS CacheFiles, FiniteSetTheorems, SequenceTheorems, WellFoundedInduction, TLAPS

(***************************************************************************)
(* The bytes of a set of artifacts.                                        *)
(***************************************************************************)
LEMMA BytesOfOneMore ==
  ASSUME NEW D \in SUBSET Digest, NEW d \in Digest
  PROVE  /\ BytesOf(D \cup {d}) = BytesOf(D) \cup ({d} \X (1 .. Size[d]))
         /\ d \notin D => BytesOf(D) \cap ({d} \X (1 .. Size[d])) = {}
         /\ IsFiniteSet({d} \X (1 .. Size[d]))
         /\ Cardinality({d} \X (1 .. Size[d])) = Size[d]
<1>1. Size[d] \in Nat
  BY FilesAssumption
<1>2. IsFiniteSet(1 .. Size[d]) /\ Cardinality(1 .. Size[d]) = Size[d]
  BY <1>1, FS_Interval
<1>3. IsFiniteSet({d}) /\ Cardinality({d}) = 1
  BY FS_Singleton
<1>4. /\ IsFiniteSet({d} \X (1 .. Size[d]))
      /\ Cardinality({d} \X (1 .. Size[d])) = 1 * Size[d]
  BY <1>2, <1>3, FS_Product
<1>5. \A E, x : x \in BytesOf(E) <=> \E e \in E : x \in {e} \X (1 .. Size[e])
  BY DEF BytesOf
<1>6. \A x : x \in BytesOf(D \cup {d})
             <=> x \in BytesOf(D) \/ x \in {d} \X (1 .. Size[d])
  BY <1>5
<1>7. ASSUME d \notin D PROVE BytesOf(D) \cap ({d} \X (1 .. Size[d])) = {}
  <2>1. \A x \in BytesOf(D) : x[1] \in D
    BY <1>5
  <2>2. \A x \in {d} \X (1 .. Size[d]) : x[1] = d
    OBVIOUS
  <2>3. QED
    BY <1>7, <2>1, <2>2
<1>8. BytesOf(D \cup {d}) = BytesOf(D) \cup ({d} \X (1 .. Size[d]))
  BY <1>6
<1>9. 1 * Size[d] = Size[d]
  BY <1>1
<1>10. QED
  BY <1>4, <1>7, <1>8, <1>9

\* They are finitely many: a least set without this would have an artifact
\* without which it had it.
LEMMA BytesOfIsFinite ==
  ASSUME NEW D \in SUBSET Digest
  PROVE  IsFiniteSet(BytesOf(D))
<1> DEFINE Bad == {E \in FiniteSubsetsOf(Digest) : ~IsFiniteSet(BytesOf(E))}
<1>1. D \in FiniteSubsetsOf(Digest)
  BY FilesAssumption, FS_Subset DEF FiniteSubsetsOf
<1>2. SUFFICES ASSUME Bad # {} PROVE FALSE
  BY <1>1
<1>3. PICK E \in Bad : \A F \in Bad : ~(<<F, E>> \in StrictSubsetOrdering(Digest))
  <2>1. IsWellFoundedOn(StrictSubsetOrdering(Digest), FiniteSubsetsOf(Digest))
    BY FS_StrictSubsetOrderingWellFounded
  <2>2. Bad \subseteq FiniteSubsetsOf(Digest)
    OBVIOUS
  <2>3. QED
    BY <1>2, <2>1, <2>2, WFMin
<1>4. E \in SUBSET Digest /\ IsFiniteSet(E) /\ ~IsFiniteSet(BytesOf(E))
  BY DEF FiniteSubsetsOf
<1>5. CASE E = {}
  <2>1. BytesOf(E) = {}
    BY <1>5 DEF BytesOf
  <2>2. QED
    BY <1>4, <2>1, FS_EmptySet
<1>6. CASE E # {}
  <2>1. PICK d \in E : TRUE
    BY <1>6
  <2>2. E \ {d} \in FiniteSubsetsOf(Digest)
    BY <1>4, FS_Subset DEF FiniteSubsetsOf
  <2>3. <<E \ {d}, E>> \in StrictSubsetOrdering(Digest)
    BY <1>4, <2>1 DEF StrictSubsetOrdering
  <2>4. IsFiniteSet(BytesOf(E \ {d}))
    BY <1>3, <2>2, <2>3
  <2>5. BytesOf((E \ {d}) \cup {d}) = BytesOf(E \ {d}) \cup ({d} \X (1 .. Size[d]))
    BY <1>4, <2>1, BytesOfOneMore
  <2>6. (E \ {d}) \cup {d} = E
    BY <2>1
  <2>7. IsFiniteSet({d} \X (1 .. Size[d]))
    BY <1>4, <2>1, BytesOfOneMore
  <2>8. IsFiniteSet(BytesOf(E \ {d}) \cup ({d} \X (1 .. Size[d])))
    BY <2>4, <2>7, FS_Union
  <2>9. QED
    BY <1>4, <2>5, <2>6, <2>8
<1>7. QED
  BY <1>5, <1>6

LEMMA TotalSizeFacts ==
  /\ TotalSize({}) = 0
  /\ \A D \in SUBSET Digest : TotalSize(D) \in Nat
  /\ \A D \in SUBSET Digest, d \in Digest :
       d \notin D => TotalSize(D \cup {d}) = TotalSize(D) + Size[d]
  /\ \A D \in SUBSET Digest : \A E \in SUBSET D : TotalSize(E) <= TotalSize(D)
<1>1. TotalSize({}) = 0
  <2>1. BytesOf({}) = {}
    BY DEF BytesOf
  <2>2. QED
    BY <2>1, FS_EmptySet DEF TotalSize
<1>2. ASSUME NEW D \in SUBSET Digest PROVE TotalSize(D) \in Nat
  BY BytesOfIsFinite, FS_CardinalityType DEF TotalSize
<1>3. ASSUME NEW D \in SUBSET Digest, NEW d \in Digest, d \notin D
      PROVE  TotalSize(D \cup {d}) = TotalSize(D) + Size[d]
  <2> DEFINE one == {d} \X (1 .. Size[d])
  <2>1. IsFiniteSet(BytesOf(D)) /\ IsFiniteSet(one)
    BY BytesOfIsFinite, BytesOfOneMore
  <2>2. BytesOf(D) \cap one = {} /\ Cardinality(one) = Size[d]
    BY <1>3, BytesOfOneMore
  <2>3. Cardinality(BytesOf(D) \cup one) = Cardinality(BytesOf(D)) + Cardinality(one) - 0
    BY <2>1, <2>2, FS_Union, FS_EmptySet
  <2>4. BytesOf(D \cup {d}) = BytesOf(D) \cup one
    BY BytesOfOneMore
  <2>5. Cardinality(BytesOf(D)) \in Nat /\ Size[d] \in Nat
    BY <2>1, FS_CardinalityType, FilesAssumption
  <2>6. TotalSize(D \cup {d}) = Cardinality(BytesOf(D) \cup one)
    BY <2>4 DEF TotalSize
  <2>7. Cardinality(BytesOf(D) \cup one) = Cardinality(BytesOf(D)) + Size[d]
    BY <2>2, <2>3, <2>5
  <2>8. QED
    BY <2>6, <2>7 DEF TotalSize
<1>4. ASSUME NEW D \in SUBSET Digest, NEW E \in SUBSET D
      PROVE  TotalSize(E) <= TotalSize(D)
  <2>1. BytesOf(E) \subseteq BytesOf(D)
    BY DEF BytesOf
  <2>2. QED
    BY <2>1, BytesOfIsFinite, FS_Subset DEF TotalSize
<1>5. QED
  BY <1>1, <1>2, <1>3, <1>4

(***************************************************************************)
(* The operations that are left when the first is done.                    *)
(***************************************************************************)
LEMMA TwoAndOne ==
  ASSUME NEW x, NEW y, NEW z
  PROVE  <<x, y>> \o <<z>> = <<x, y, z>>
<1> DEFINE S == {x, y, z}
<1>1. /\ <<x, y>> \in Seq(S) /\ <<z>> \in Seq(S) /\ <<x, y, z>> \in Seq(S)
      /\ Len(<<x, y>>) = 2 /\ Len(<<z>>) = 1 /\ Len(<<x, y, z>>) = 3
  OBVIOUS
<1>2. /\ <<x, y>> \o <<z>> \in Seq(S) /\ Len(<<x, y>> \o <<z>>) = 2 + 1
      /\ \A i \in 1 .. 2 + 1 :
           (<<x, y>> \o <<z>>)[i] = IF i <= 2 THEN <<x, y>>[i] ELSE <<z>>[i - 2]
  BY <1>1, ConcatProperties
<1>3. \A i \in 1 .. 3 : (<<x, y>> \o <<z>>)[i] = <<x, y, z>>[i]
  <2>1. \A i \in 1 .. 3 : i \in {1, 2, 3}
    OBVIOUS
  <2>2. QED
    BY <1>2, <2>1
<1>4. Len(<<x, y>> \o <<z>>) = 3
  BY <1>2
<1>5. \A s, t \in Seq(S) : Len(s) = Len(t) /\ (\A i \in 1 .. Len(s) : s[i] = t[i]) => s = t
  BY SeqEqual
<1> HIDE DEF S
<1>6. QED
  BY <1>1, <1>2, <1>3, <1>4, <1>5

LEMMA TwoAndTwo ==
  ASSUME NEW a, NEW b, NEW c, NEW d
  PROVE  <<a, b>> \o <<c, d>> = <<a, b, c, d>>
<1> DEFINE S == {a, b, c, d}
<1>1. /\ <<a, b>> \in Seq(S) /\ <<c, d>> \in Seq(S) /\ <<a, b, c, d>> \in Seq(S)
      /\ Len(<<a, b>>) = 2 /\ Len(<<c, d>>) = 2 /\ Len(<<a, b, c, d>>) = 4
  OBVIOUS
<1>2. /\ <<a, b>> \o <<c, d>> \in Seq(S) /\ Len(<<a, b>> \o <<c, d>>) = 2 + 2
      /\ \A i \in 1 .. 2 + 2 :
           (<<a, b>> \o <<c, d>>)[i] = IF i <= 2 THEN <<a, b>>[i] ELSE <<c, d>>[i - 2]
  BY <1>1, ConcatProperties
<1>3. \A i \in 1 .. 4 : (<<a, b>> \o <<c, d>>)[i] = <<a, b, c, d>>[i]
  <2>1. \A i \in 1 .. 4 : i \in {1, 2, 3, 4}
    OBVIOUS
  <2>2. QED
    BY <1>2, <2>1
<1>4. Len(<<a, b>> \o <<c, d>>) = 4
  BY <1>2
<1>5. \A s, t \in Seq(S) : Len(s) = Len(t) /\ (\A i \in 1 .. Len(s) : s[i] = t[i]) => s = t
  BY SeqEqual
<1> HIDE DEF S
<1>6. QED
  BY <1>1, <1>2, <1>3, <1>4, <1>5

LEMMA FourAndOne ==
  ASSUME NEW a, NEW b, NEW c, NEW d, NEW e
  PROVE  <<a, b, c, d>> \o <<e>> = <<a, b, c, d, e>>
<1> DEFINE S == {a, b, c, d, e}
<1>1. /\ <<a, b, c, d>> \in Seq(S) /\ <<e>> \in Seq(S) /\ <<a, b, c, d, e>> \in Seq(S)
      /\ Len(<<a, b, c, d>>) = 4 /\ Len(<<e>>) = 1 /\ Len(<<a, b, c, d, e>>) = 5
  OBVIOUS
<1>2. /\ <<a, b, c, d>> \o <<e>> \in Seq(S) /\ Len(<<a, b, c, d>> \o <<e>>) = 4 + 1
      /\ \A i \in 1 .. 4 + 1 :
           (<<a, b, c, d>> \o <<e>>)[i] = IF i <= 4 THEN <<a, b, c, d>>[i] ELSE <<e>>[i - 4]
  BY <1>1, ConcatProperties
<1>3. \A i \in 1 .. 5 : (<<a, b, c, d>> \o <<e>>)[i] = <<a, b, c, d, e>>[i]
  <2>1. \A i \in 1 .. 5 : i \in {1, 2, 3, 4, 5}
    OBVIOUS
  <2>2. QED
    BY <1>2, <2>1
<1>4. Len(<<a, b, c, d>> \o <<e>>) = 5
  BY <1>2
<1>5. \A s, t \in Seq(S) : Len(s) = Len(t) /\ (\A i \in 1 .. Len(s) : s[i] = t[i]) => s = t
  BY SeqEqual
<1> HIDE DEF S
<1>6. QED
  BY <1>1, <1>2, <1>3, <1>4, <1>5

LEMMA Joins ==
  ASSUME NEW a, NEW b, NEW c, NEW d, NEW e
  PROVE  /\ (<<a, b>> \o <<c, d>>) \o <<e>> = <<a, b, c, d, e>>
         /\ (<<a, b>> \o <<>>) \o <<e>> = <<a, b, e>>
<1>1. <<a, b>> \o <<c, d>> = <<a, b, c, d>>
  BY TwoAndTwo
<1>2. <<a, b, c, d>> \o <<e>> = <<a, b, c, d, e>>
  BY FourAndOne
<1>3. <<a, b>> \o <<>> = <<a, b>>
  OBVIOUS
<1>4. <<a, b>> \o <<e>> = <<a, b, e>>
  BY TwoAndOne
<1>5. QED
  BY <1>1, <1>2, <1>3, <1>4

LEMMA Rests ==
  ASSUME NEW a, NEW b, NEW c, NEW d, NEW e
  PROVE  /\ <<a>> # <<>> /\ Head(<<a>>) = a /\ Tail(<<a>>) = <<>>
         /\ <<a, b>> # <<>> /\ Head(<<a, b>>) = a /\ Tail(<<a, b>>) = <<b>>
         /\ <<a, b, c>> # <<>> /\ Head(<<a, b, c>>) = a /\ Tail(<<a, b, c>>) = <<b, c>>
         /\ <<a, b, c, d>> # <<>> /\ Head(<<a, b, c, d>>) = a
         /\ Tail(<<a, b, c, d>>) = <<b, c, d>>
         /\ <<a, b, c, d, e>> # <<>> /\ Head(<<a, b, c, d, e>>) = a
         /\ Tail(<<a, b, c, d, e>>) = <<b, c, d, e>>
OBVIOUS

-----------------------------------------------------------------------------
Types ==
  /\ tag \in {"none", "partial", "full"} /\ removing \in {"none", "dir", "file"}
  /\ trash \in Nat /\ retired \in Nat /\ threads \in Nat /\ bytes \in Nat
  /\ dirs \subseteq {"tmp", "sha256", "kind", "other"}
  /\ place \in [Digest -> {"none", "dir", "file", "symlink"}]
  /\ sizeFile \in [Digest -> {"none", "partial", "full"}]
  /\ entry \in [Digest -> {"absent", "getting", "inUse", "inHeap"}]
  /\ heap \in Seq(Digest)
  /\ preserve \in BOOLEAN /\ evicting \in BOOLEAN /\ faulty \in BOOLEAN

\* What has been moved to `removing' and no thread removes yet.
Pending == IF todo # <<>> /\ Head(todo).op \in {"spawn", "removeDisposed"} THEN 1 ELSE 0

\* What holds of the directory at all times, also after a crash.
DirectoryInv ==
  /\ "kind" \in dirs => "sha256" \in dirs
  /\ removing # "dir" => trash = 0
  /\ threads + Pending <= trash
  /\ \A d \in Digest :
       /\ place[d] \in IF d \in Dir THEN {"none", "dir"} ELSE {"none", "file", "symlink"}
       /\ place[d] # "none" \/ sizeFile[d] # "none" => "kind" \in dirs

\* The directories are there and the rubbish is being removed.
Clean == removing = "dir" /\ retired = 0 /\ trash = threads + Pending
Ready == Clean /\ {"sha256", "kind"} \subseteq dirs

NoMemory ==
  /\ entry = [d \in Digest |-> "absent"] /\ heap = <<>> /\ bytes = 0
  /\ doing = Nothing /\ ~evicting /\ ~faulty

HeapInv ==
  /\ \A i \in DOMAIN heap : entry[heap[i]] = "inHeap"
  /\ \A i, j \in DOMAIN heap : heap[i] = heap[j] => i = j

DownInv == todo = <<>> /\ threads = 0 /\ NoMemory /\ ~preserve

EnsureInv ==
  /\ threads = 0 /\ NoMemory
  /\ \/ todo = <<Fs("retire"), Fs("mkRemoving")>> /\ removing = "dir"
     \/ todo = <<Fs("removeRemoving"), Fs("mkRemoving")>> /\ removing = "file"
     \/ todo = <<Fs("mkRemoving")>> /\ removing = "none"
     \/ todo = <<>> /\ removing = "dir" /\ trash = 0

SweepTodo ==
  \/ todo = <<>>
  \/ todo = <<Fs("trashRetired"), Fs("spawn")>> /\ retired > 0
  \/ todo = <<Fs("trashTmp"), Fs("spawn")>> /\ "tmp" \in dirs
  \/ todo = <<Fs("trashSha256"), Fs("spawn")>> /\ "sha256" \in dirs
  \/ todo = <<Fs("removeTag")>>
  \/ todo = <<Fs("spawn")>>

SweepInv == NoMemory /\ removing = "dir" /\ trash = threads + Pending /\ SweepTodo

MakeInv ==
  /\ NoMemory /\ Clean
  /\ \/ /\ preserve
        /\ \/ /\ todo = <<Fs("mkTmp"), Fs("mkSha256IfNone"), Fs("mkKindIfNone")>>
              /\ "tmp" \notin dirs
           \/ /\ todo = <<Fs("mkTmp"), Fs("mkSha256IfNone"), Fs("trashOther"), Fs("spawn"),
                         Fs("mkKindIfNone")>>
              /\ "tmp" \notin dirs /\ "other" \in dirs
           \/ todo = <<Fs("mkSha256IfNone"), Fs("mkKindIfNone")>>
           \/ /\ todo = <<Fs("mkSha256IfNone"), Fs("trashOther"), Fs("spawn"), Fs("mkKindIfNone")>>
              /\ "other" \in dirs
           \/ /\ todo = <<Fs("trashOther"), Fs("spawn"), Fs("mkKindIfNone")>>
              /\ "sha256" \in dirs /\ "other" \in dirs
           \/ todo = <<Fs("spawn"), Fs("mkKindIfNone")>> /\ "sha256" \in dirs
           \/ todo = <<Fs("mkKindIfNone")>> /\ "sha256" \in dirs
           \/ todo = <<>> /\ {"sha256", "kind"} \subseteq dirs
     \/ /\ ~preserve
        /\ \A d \in Digest : place[d] = "none" /\ sizeFile[d] = "none"
        /\ \/ /\ todo = <<Fs("createTag"), Fs("writeTag"), Fs("mkTmp"), Fs("mkSha256"), Fs("mkKind")>>
              /\ tag = "none" /\ "tmp" \notin dirs /\ "sha256" \notin dirs
           \/ /\ todo = <<Fs("writeTag"), Fs("mkTmp"), Fs("mkSha256"), Fs("mkKind")>>
              /\ "tmp" \notin dirs /\ "sha256" \notin dirs
           \/ /\ todo = <<Fs("mkTmp"), Fs("mkSha256"), Fs("mkKind")>>
              /\ "tmp" \notin dirs /\ "sha256" \notin dirs
           \/ todo = <<Fs("mkSha256"), Fs("mkKind")>> /\ "sha256" \notin dirs
           \/ todo = <<Fs("mkKind")>> /\ "sha256" \in dirs /\ "kind" \notin dirs
           \/ todo = <<>> /\ {"sha256", "kind"} \subseteq dirs

\* The reading of a preserved directory.
ReadInv ==
  /\ Ready /\ doing = Nothing /\ ~evicting /\ ~faulty
  /\ \A d \in Digest : entry[d] \in {"absent", "inHeap"}
  /\ bytes = TotalSize(Tracked)

FilesInv ==
  /\ ReadInv
  /\ \A d \in Tracked : place[d] = "file"
  /\ \/ todo = <<>>
     \/ \E d \in Digest :
          \/ todo = <<FsOn("remove", d)>> /\ place[d] = "symlink"
          \/ todo = <<FsOn("removeSize", d)>> /\ sizeFile[d] # "none"

SizesInv ==
  /\ ReadInv
  /\ \A d \in Digest :
       /\ place[d] # "symlink" /\ sizeFile[d] # "partial"
       /\ place[d] = "file" => d \in Tracked
       /\ d \in Tracked => place[d] = "file" \/ (place[d] = "dir" /\ sizeFile[d] = "full")
  /\ \/ todo \in {<<>>, <<Fs("spawn")>>}
     \/ \E d \in Digest :
          \/ todo = <<FsOn("trashDir", d), Fs("spawn")>> /\ place[d] = "dir" /\ sizeFile[d] = "none"
          \/ todo = <<FsOn("removeSize", d)>> /\ place[d] # "dir" /\ sizeFile[d] = "full"

\* What the disk has of an artifact that nothing is being done to.
Whole(d) ==
  IF d \in Dir THEN place[d] = "dir" /\ sizeFile[d] = "full"
  ELSE place[d] \in {"file", "symlink"}
Settled(d) ==
  /\ place[d] # "none" <=> d \in Tracked
  /\ sizeFile[d] = IF place[d] = "dir" THEN "full" ELSE "none"

Charged == Tracked \cup {d \in Digest : doing = [kind |-> "evict", d |-> d]}

RestInv ==
  /\ \/ todo \in {<<>>, <<Fs("spawn")>>, <<Fs("removeDisposed")>>}
     \/ todo = <<Fs("dispose"), Fs("spawn")>>
     \/ todo = <<Fs("dispose"), Fs("removeDisposed")>>
  /\ ~faulty => \A d \in Digest : Settled(d)

StoreTodo(d) ==
  \/ /\ d \in Dir
     /\ \/ /\ todo = <<FsOn("createSize", d), FsOn("writeSize", d), FsOn("moveIn", d)>>
           /\ ~faulty => place[d] = "none" /\ sizeFile[d] = "none"
        \/ /\ todo = <<FsOn("writeSize", d), FsOn("moveIn", d)>> /\ sizeFile[d] = "partial"
           /\ ~faulty => place[d] = "none"
        \/ /\ todo = <<FsOn("moveIn", d)>> /\ sizeFile[d] = "full"
           /\ ~faulty => place[d] = "none"
        \/ todo = <<>> /\ Whole(d)
  \/ /\ d \notin Dir /\ (~faulty => sizeFile[d] = "none")
     /\ \/ /\ \/ todo = <<FsOn("putFile", d), Fs("metadata")>>
              \/ todo = <<FsOn("putSymlink", d), Fs("metadata")>>
           /\ ~faulty => place[d] = "none"
        \/ todo \in {<<Fs("metadata")>>, <<>>} /\ Whole(d)

StoreInv(d) ==
  /\ entry[d] = "getting" /\ StoreTodo(d)
  /\ ~faulty => \A e \in Digest \ {d} : Settled(e)

EvictTodo(d) ==
  \/ /\ todo = <<FsOn("trashDir", d), Fs("spawn"), FsOn("removeSize", d)>>
     /\ place[d] = "dir" /\ sizeFile[d] = "full"
  \/ /\ todo \in {<<Fs("spawn"), FsOn("removeSize", d)>>, <<FsOn("removeSize", d)>>}
     /\ place[d] = "none" /\ sizeFile[d] = "full"
  \/ /\ todo = <<FsOn("remove", d)>> /\ place[d] \in {"file", "symlink"}
     /\ ~faulty => sizeFile[d] = "none"
  \/ todo = <<>> /\ (~faulty => place[d] = "none" /\ sizeFile[d] = "none")

EvictInv(d) ==
  /\ entry[d] = "absent" /\ evicting /\ EvictTodo(d)
  /\ ~faulty => \A e \in Digest \ {d} : Settled(e)

Accounts ==
  /\ ~faulty => Ready
  /\ \A d \in Tracked : Whole(d)
  /\ TotalSize(Charged) <= bytes
  /\ ~faulty => bytes = TotalSize(Charged)

OpenInv ==
  /\ Accounts
  /\ \/ doing = Nothing /\ RestInv
     \/ phase = "up" /\ \E d \in Digest : doing = [kind |-> "store", d |-> d] /\ StoreInv(d)
     \/ \E d \in Digest : doing = [kind |-> "evict", d |-> d] /\ EvictInv(d)

PhaseInv ==
  \/ phase = "down" /\ DownInv
  \/ phase = "ensure" /\ EnsureInv
  \/ phase = "sweep" /\ SweepInv
  \/ phase = "make" /\ MakeInv
  \/ phase = "files" /\ FilesInv
  \/ phase = "sizes" /\ SizesInv
  \/ phase \in {"shrink", "up"} /\ OpenInv

IInv == Types /\ DirectoryInv /\ HeapInv /\ PhaseInv

LEMMA InitIInv == Init => IInv
<1> SUFFICES ASSUME Init PROVE IInv
  OBVIOUS
<1>1. Types
  <2>1. /\ place \in [Digest -> {"none", "dir", "file", "symlink"}]
        /\ sizeFile \in [Digest -> {"none", "partial", "full"}]
        /\ entry \in [Digest -> {"absent", "getting", "inUse", "inHeap"}]
    BY DEF Init
  <2>2. heap \in Seq(Digest)
    BY DEF Init
  <2>3. QED
    BY <2>1, <2>2 DEF Init, Types
<1>2. Pending = 0
  BY DEF Init, Pending
<1>3. DirectoryInv
  BY <1>2 DEF Init, DirectoryInv
<1>4. HeapInv
  BY DEF Init, HeapInv
<1>5. PhaseInv
  BY DEF Init, PhaseInv, DownInv, NoMemory
<1>6. QED
  BY <1>1, <1>3, <1>4, <1>5 DEF IInv

(***************************************************************************)
(* The operations of the file system, one by one.                          *)
(***************************************************************************)
LEMMA DoFacts ==
  ASSUME Do
  PROVE  /\ todo # <<>> /\ todo' = Tail(todo) /\ Fits(Head(todo))
         /\ SetDisk(After(Head(todo)))
         /\ threads' = IF Head(todo).op = "spawn" THEN threads + 1 ELSE threads
         /\ UNCHANGED <<phase, preserve, entry, heap, bytes, doing, evicting, faulty>>
BY DEF Do, memVars

LEMMA DoEnsure == IInv /\ phase = "ensure" /\ Do => IInv'
<1> SUFFICES ASSUME IInv, phase = "ensure", Do PROVE IInv'
  OBVIOUS
<1>1. Types /\ DirectoryInv /\ HeapInv /\ EnsureInv
  BY DEF IInv, PhaseInv
<1>2. /\ todo # <<>> /\ todo' = Tail(todo) /\ NoMemory' /\ phase' = "ensure"
      /\ UNCHANGED <<phase, preserve, entry, heap, bytes, doing, evicting, faulty>>
      /\ Head(todo).op # "spawn" => threads' = threads
  BY <1>1, DoFacts DEF EnsureInv, NoMemory
<1>3. SetDisk(After(Head(todo)))
  BY DoFacts
<1>4. CASE todo = <<Fs("retire"), Fs("mkRemoving")>>
  <2>1. Head(todo).op = "retire" /\ todo' = <<Fs("mkRemoving")>>
    BY <1>2, <1>4, Rests DEF Fs
  <2>2. /\ removing' = "none" /\ trash' = 0 /\ retired' = retired + 1
        /\ UNCHANGED <<tag, dirs, place, sizeFile>>
    BY <1>3, <2>1 DEF SetDisk, After, Disk
  <2>3. Pending' = 0
    BY <2>1, Rests DEF Pending, Fs
  <2>4. Types' /\ DirectoryInv' /\ HeapInv'
    BY <1>1, <1>2, <2>1, <2>2, <2>3 DEF Types, DirectoryInv, HeapInv, EnsureInv
  <2>5. EnsureInv'
    BY <1>1, <1>2, <2>1, <2>2 DEF EnsureInv, Fs
  <2>6. QED
    BY <1>2, <2>4, <2>5 DEF IInv, PhaseInv
<1>5. CASE todo = <<Fs("removeRemoving"), Fs("mkRemoving")>>
  <2>1. Head(todo).op = "removeRemoving" /\ todo' = <<Fs("mkRemoving")>>
    BY <1>2, <1>5, Rests DEF Fs
  <2>2. removing' = "none" /\ UNCHANGED <<tag, trash, retired, dirs, place, sizeFile>>
    BY <1>3, <2>1 DEF SetDisk, After, Disk
  <2>3. Pending' = 0
    BY <2>1, Rests DEF Pending, Fs
  <2>4. removing = "file"
    BY <1>1, <1>5, Rests DEF EnsureInv, Fs
  <2>5. Types' /\ DirectoryInv' /\ HeapInv'
    BY <1>1, <1>2, <2>1, <2>2, <2>3, <2>4 DEF Types, DirectoryInv, HeapInv, EnsureInv
  <2>6. EnsureInv'
    BY <1>1, <1>2, <2>1, <2>2 DEF EnsureInv, Fs
  <2>7. QED
    BY <1>2, <2>5, <2>6 DEF IInv, PhaseInv
<1>6. CASE todo = <<Fs("mkRemoving")>>
  <2>1. Head(todo).op = "mkRemoving" /\ todo' = <<>>
    BY <1>2, <1>6, Rests DEF Fs
  <2>2. removing' = "dir" /\ UNCHANGED <<tag, trash, retired, dirs, place, sizeFile>>
    BY <1>3, <2>1 DEF SetDisk, After, Disk
  <2>3. Pending' = 0
    BY <2>1 DEF Pending
  <2>4. removing = "none"
    BY <1>1, <1>6, Rests DEF EnsureInv, Fs
  <2>5. Types' /\ DirectoryInv' /\ HeapInv'
    BY <1>1, <1>2, <2>1, <2>2, <2>3, <2>4 DEF Types, DirectoryInv, HeapInv, EnsureInv
  <2>6. EnsureInv'
    BY <1>1, <1>2, <2>1, <2>2, <2>4 DEF EnsureInv, DirectoryInv, Fs
  <2>7. QED
    BY <1>2, <2>5, <2>6 DEF IInv, PhaseInv
<1>7. QED
  BY <1>1, <1>2, <1>4, <1>5, <1>6 DEF EnsureInv

LEMMA DoSweep == IInv /\ phase = "sweep" /\ Do => IInv'
<1> SUFFICES ASSUME IInv, phase = "sweep", Do PROVE IInv'
  OBVIOUS
<1>1. Types /\ DirectoryInv /\ HeapInv /\ SweepInv
  BY DEF IInv, PhaseInv
<1>2. /\ todo # <<>> /\ todo' = Tail(todo) /\ NoMemory' /\ phase' = "sweep" /\ HeapInv'
      /\ UNCHANGED <<phase, preserve, entry, heap, bytes, doing, evicting, faulty>>
      /\ threads' = IF Head(todo).op = "spawn" THEN threads + 1 ELSE threads
  BY <1>1, DoFacts DEF SweepInv, NoMemory, HeapInv
<1>3. SetDisk(After(Head(todo)))
  BY DoFacts
<1>4. SUFFICES Types' /\ DirectoryInv' /\ SweepInv'
  BY <1>2 DEF IInv, PhaseInv
<1>5. CASE \/ todo = <<Fs("trashRetired"), Fs("spawn")>>
           \/ todo = <<Fs("trashTmp"), Fs("spawn")>>
           \/ todo = <<Fs("trashSha256"), Fs("spawn")>>
  <2> DEFINE Trashing == {"trashRetired", "trashTmp", "trashSha256"}
  <2>1. /\ Head(todo).op \in Trashing
        /\ todo' = <<Fs("spawn")>>
    <3>1. PICK op \in Trashing : todo = <<Fs(op), Fs("spawn")>>
      BY <1>5
    <3>2. Head(todo) = Fs(op) /\ todo' = <<Fs("spawn")>>
      BY <1>2, <3>1, Rests
    <3>3. QED
      BY <3>2 DEF Fs
  <2>2. Pending = 0 /\ Pending' = 1
    BY <1>5, <2>1, Rests DEF Pending, Fs
  <2>3. SweepTodo'
    BY <2>1 DEF SweepTodo, Fs
  <2>4. CASE Head(todo).op = "trashRetired"
    <3>1. retired > 0
      BY <1>1, <1>5, <2>4, Rests DEF SweepInv, SweepTodo, Fs
    <3>2. /\ retired' = retired - 1 /\ trash' = trash + 1
          /\ UNCHANGED <<tag, removing, dirs, place, sizeFile>>
      BY <1>3, <2>4 DEF SetDisk, After, Disk
    <3>3. Types' /\ DirectoryInv'
      BY <1>1, <1>2, <2>2, <2>4, <3>1, <3>2 DEF Types, DirectoryInv, SweepInv
    <3>4. SweepInv'
      BY <1>1, <1>2, <2>2, <2>3, <2>4, <3>1, <3>2 DEF Types, SweepInv
    <3>5. QED
      BY <3>3, <3>4
  <2>5. CASE Head(todo).op = "trashTmp"
    <3>1. /\ dirs' = dirs \ {"tmp"} /\ trash' = trash + 1
          /\ UNCHANGED <<tag, removing, retired, place, sizeFile>>
      BY <1>3, <2>5 DEF SetDisk, After, Disk
    <3>2. Types' /\ DirectoryInv'
      BY <1>1, <1>2, <2>2, <2>5, <3>1 DEF Types, DirectoryInv, SweepInv
    <3>3. SweepInv'
      BY <1>1, <1>2, <2>2, <2>3, <2>5, <3>1 DEF Types, SweepInv
    <3>4. QED
      BY <3>2, <3>3
  <2>6. CASE Head(todo).op = "trashSha256"
    <3>1. /\ dirs' = dirs \ {"sha256", "kind", "other"} /\ trash' = trash + 1
          /\ place' = [d \in Digest |-> "none"] /\ sizeFile' = [d \in Digest |-> "none"]
          /\ UNCHANGED <<tag, removing, retired>>
      BY <1>3, <2>6 DEF SetDisk, After, Disk
    <3>2. Types' /\ DirectoryInv'
      BY <1>1, <1>2, <2>2, <2>6, <3>1 DEF Types, DirectoryInv, SweepInv
    <3>3. SweepInv'
      BY <1>1, <1>2, <2>2, <2>3, <2>6, <3>1 DEF Types, SweepInv
    <3>4. QED
      BY <3>2, <3>3
  <2>7. QED
    BY <2>1, <2>4, <2>5, <2>6
<1>6. CASE todo = <<Fs("removeTag")>>
  <2>1. Head(todo).op = "removeTag" /\ todo' = <<>>
    BY <1>2, <1>6, Rests DEF Fs
  <2>2. Pending = 0 /\ Pending' = 0
    BY <1>6, <2>1, Rests DEF Pending, Fs
  <2>3. tag' = "none" /\ UNCHANGED <<removing, trash, retired, dirs, place, sizeFile>>
    BY <1>3, <2>1 DEF SetDisk, After, Disk
  <2>4. QED
    BY <1>1, <1>2, <2>1, <2>2, <2>3 DEF Types, DirectoryInv, SweepInv, SweepTodo
<1>7. CASE todo = <<Fs("spawn")>>
  <2>1. Head(todo).op = "spawn" /\ todo' = <<>>
    BY <1>2, <1>7, Rests DEF Fs
  <2>2. Pending = 1 /\ Pending' = 0
    BY <1>7, <2>1, Rests DEF Pending, Fs
  <2>3. UNCHANGED <<tag, removing, trash, retired, dirs, place, sizeFile>>
    BY <1>3, <2>1 DEF SetDisk, After, Disk
  <2>4. QED
    BY <1>1, <1>2, <2>1, <2>2, <2>3 DEF Types, DirectoryInv, SweepInv, SweepTodo
<1>8. QED
  BY <1>1, <1>2, <1>5, <1>6, <1>7 DEF SweepInv, SweepTodo

LEMMA DoMake == IInv /\ phase = "make" /\ Do => IInv'
<1> SUFFICES ASSUME IInv, phase = "make", Do PROVE IInv'
  OBVIOUS
<1>1. Types /\ DirectoryInv /\ HeapInv /\ MakeInv
  BY DEF IInv, PhaseInv
<1>2. /\ todo # <<>> /\ todo' = Tail(todo) /\ NoMemory' /\ phase' = "make" /\ HeapInv'
      /\ UNCHANGED <<phase, preserve, entry, heap, bytes, doing, evicting, faulty>>
      /\ threads' = IF Head(todo).op = "spawn" THEN threads + 1 ELSE threads
  BY <1>1, DoFacts DEF MakeInv, NoMemory, HeapInv
<1>3. SetDisk(After(Head(todo)))
  BY DoFacts
<1>4. SUFFICES Types' /\ DirectoryInv' /\ MakeInv'
  BY <1>2 DEF IInv, PhaseInv
<1>5. CASE /\ ~preserve
           /\ \/ todo = <<Fs("createTag"), Fs("writeTag"), Fs("mkTmp"), Fs("mkSha256"), Fs("mkKind")>>
              \/ todo = <<Fs("writeTag"), Fs("mkTmp"), Fs("mkSha256"), Fs("mkKind")>>
  <2>1. /\ \/ /\ Head(todo) = Fs("createTag")
              /\ todo' = <<Fs("writeTag"), Fs("mkTmp"), Fs("mkSha256"), Fs("mkKind")>>
           \/ /\ Head(todo) = Fs("writeTag")
              /\ todo' = <<Fs("mkTmp"), Fs("mkSha256"), Fs("mkKind")>>
        /\ Head(todo).op \in {"createTag", "writeTag"} /\ Pending = 0
    <3>1. \/ /\ Head(todo) = Fs("createTag")
             /\ todo' = <<Fs("writeTag"), Fs("mkTmp"), Fs("mkSha256"), Fs("mkKind")>>
          \/ /\ Head(todo) = Fs("writeTag")
             /\ todo' = <<Fs("mkTmp"), Fs("mkSha256"), Fs("mkKind")>>
      <4>1. CASE todo = <<Fs("createTag"), Fs("writeTag"), Fs("mkTmp"), Fs("mkSha256"), Fs("mkKind")>>
        BY <1>2, <4>1, Rests
      <4>2. CASE todo = <<Fs("writeTag"), Fs("mkTmp"), Fs("mkSha256"), Fs("mkKind")>>
        BY <1>2, <4>2, Rests
      <4>3. QED
        BY <1>5, <4>1, <4>2
    <3>2. QED
      BY <1>2, <3>1 DEF Fs, Pending
  <2>2. Pending' = 0
    BY <2>1, Rests DEF Pending, Fs
  <2>3. "tmp" \notin dirs /\ "sha256" \notin dirs
    <3>1. \/ "tmp" \notin dirs /\ "sha256" \notin dirs
          \/ todo = <<Fs("mkSha256"), Fs("mkKind")>>
          \/ todo = <<Fs("mkKind")>>
          \/ todo = <<>>
      BY <1>1, <1>5, Zenon DEF MakeInv
    <3>2. QED
      BY <1>5, <3>1
  <2>4. tag' \in {"partial", "full"} /\ UNCHANGED <<removing, trash, retired, dirs, place, sizeFile>>
    BY <1>3, <2>1 DEF SetDisk, After, Disk
  <2>5. QED
    BY <1>1, <1>2, <1>5, <2>1, <2>2, <2>3, <2>4 DEF Types, DirectoryInv, MakeInv, Clean, Fs
<1>6. CASE \/ preserve /\ todo = <<Fs("mkTmp"), Fs("mkSha256IfNone"), Fs("mkKindIfNone")>>
           \/ /\ preserve
              /\ todo = <<Fs("mkTmp"), Fs("mkSha256IfNone"), Fs("trashOther"), Fs("spawn"),
                          Fs("mkKindIfNone")>>
           \/ ~preserve /\ todo = <<Fs("mkTmp"), Fs("mkSha256"), Fs("mkKind")>>
  <2>1. /\ Head(todo).op = "mkTmp" /\ Pending = 0
        /\ \/ preserve /\ todo' = <<Fs("mkSha256IfNone"), Fs("mkKindIfNone")>>
           \/ /\ preserve /\ "other" \in dirs
              /\ todo' = <<Fs("mkSha256IfNone"), Fs("trashOther"), Fs("spawn"), Fs("mkKindIfNone")>>
           \/ ~preserve /\ todo' = <<Fs("mkSha256"), Fs("mkKind")>>
    <3>1. /\ Head(todo) = Fs("mkTmp")
          /\ \/ preserve /\ todo' = <<Fs("mkSha256IfNone"), Fs("mkKindIfNone")>>
             \/ /\ preserve /\ "other" \in dirs
                /\ todo' = <<Fs("mkSha256IfNone"), Fs("trashOther"), Fs("spawn"), Fs("mkKindIfNone")>>
             \/ ~preserve /\ todo' = <<Fs("mkSha256"), Fs("mkKind")>>
      <4>1. CASE preserve /\ todo = <<Fs("mkTmp"), Fs("mkSha256IfNone"), Fs("mkKindIfNone")>>
        BY <1>2, <4>1, Rests
      <4>2. CASE ~preserve /\ todo = <<Fs("mkTmp"), Fs("mkSha256"), Fs("mkKind")>>
        BY <1>2, <4>2, Rests
      <4>3. CASE /\ preserve
                 /\ todo = <<Fs("mkTmp"), Fs("mkSha256IfNone"), Fs("trashOther"), Fs("spawn"),
                             Fs("mkKindIfNone")>>
        <5>1. "other" \in dirs
          BY <1>1, <4>3, Rests DEF MakeInv, Fs
        <5>2. QED
          BY <1>2, <4>3, <5>1, Rests
      <4>4. QED
        BY <1>6, <4>1, <4>2, <4>3
    <3>2. QED
      BY <1>2, <3>1 DEF Fs, Pending
  <2>2. Pending' = 0
    BY <2>1, Rests DEF Pending, Fs
  <2>3. ~preserve => "sha256" \notin dirs
    BY <1>1, <1>6, Rests DEF MakeInv, Fs
  <2>4. dirs' = dirs \cup {"tmp"} /\ UNCHANGED <<tag, removing, trash, retired, place, sizeFile>>
    BY <1>3, <2>1 DEF SetDisk, After, Disk
  <2>5. QED
    BY <1>1, <1>2, <1>6, <2>1, <2>2, <2>3, <2>4 DEF Types, DirectoryInv, MakeInv, Clean, Fs
<1>7. CASE \/ preserve /\ todo = <<Fs("mkSha256IfNone"), Fs("mkKindIfNone")>>
           \/ /\ preserve
              /\ todo = <<Fs("mkSha256IfNone"), Fs("trashOther"), Fs("spawn"), Fs("mkKindIfNone")>>
           \/ ~preserve /\ todo = <<Fs("mkSha256"), Fs("mkKind")>>
  <2>1. /\ Head(todo).op = IF preserve THEN "mkSha256IfNone" ELSE "mkSha256"
        /\ Pending = 0
        /\ \/ preserve /\ todo' = <<Fs("mkKindIfNone")>>
           \/ /\ preserve /\ "other" \in dirs
              /\ todo' = <<Fs("trashOther"), Fs("spawn"), Fs("mkKindIfNone")>>
           \/ ~preserve /\ todo' = <<Fs("mkKind")>>
    <3>1. /\ Head(todo) = IF preserve THEN Fs("mkSha256IfNone") ELSE Fs("mkSha256")
          /\ \/ preserve /\ todo' = <<Fs("mkKindIfNone")>>
             \/ /\ preserve /\ "other" \in dirs
                /\ todo' = <<Fs("trashOther"), Fs("spawn"), Fs("mkKindIfNone")>>
             \/ ~preserve /\ todo' = <<Fs("mkKind")>>
      <4>1. CASE preserve /\ todo = <<Fs("mkSha256IfNone"), Fs("mkKindIfNone")>>
        BY <1>2, <4>1, Rests
      <4>2. CASE ~preserve /\ todo = <<Fs("mkSha256"), Fs("mkKind")>>
        BY <1>2, <4>2, Rests
      <4>3. CASE /\ preserve
                 /\ todo = <<Fs("mkSha256IfNone"), Fs("trashOther"), Fs("spawn"), Fs("mkKindIfNone")>>
        <5>1. "other" \in dirs
          BY <1>1, <4>3, Rests DEF MakeInv, Fs
        <5>2. QED
          BY <1>2, <4>3, <5>1, Rests
      <4>4. QED
        BY <1>7, <4>1, <4>2, <4>3
    <3>2. QED
      BY <1>2, <3>1 DEF Fs, Pending
  <2>2. Pending' = 0
    BY <2>1, Rests DEF Pending, Fs
  <2>3. ~preserve => "kind" \notin dirs
    BY <1>1, <1>7, Rests DEF MakeInv, DirectoryInv, Fs
  <2>4. dirs' = dirs \cup {"sha256"} /\ UNCHANGED <<tag, removing, trash, retired, place, sizeFile>>
    BY <1>3, <2>1 DEF SetDisk, After, Disk
  <2>5. QED
    BY <1>1, <1>2, <1>7, <2>1, <2>2, <2>3, <2>4 DEF Types, DirectoryInv, MakeInv, Clean, Fs
<1>8. CASE \/ preserve /\ todo = <<Fs("mkKindIfNone")>>
           \/ ~preserve /\ todo = <<Fs("mkKind")>>
  <2>1. /\ Head(todo).op = IF preserve THEN "mkKindIfNone" ELSE "mkKind"
        /\ Pending = 0 /\ todo' = <<>>
    BY <1>2, <1>8, Rests DEF Fs, Pending
  <2>2. Pending' = 0
    BY <2>1 DEF Pending
  <2>3. "sha256" \in dirs
    BY <1>1, <1>8, Rests DEF MakeInv, Fs
  <2>4. dirs' = dirs \cup {"kind"} /\ UNCHANGED <<tag, removing, trash, retired, place, sizeFile>>
    BY <1>3, <2>1 DEF SetDisk, After, Disk
  <2>5. QED
    BY <1>1, <1>2, <1>8, <2>1, <2>2, <2>3, <2>4 DEF Types, DirectoryInv, MakeInv, Clean
<1>9. CASE preserve /\ todo = <<Fs("trashOther"), Fs("spawn"), Fs("mkKindIfNone")>>
  <2>1. /\ Head(todo).op = "trashOther" /\ Pending = 0
        /\ todo' = <<Fs("spawn"), Fs("mkKindIfNone")>>
    BY <1>2, <1>9, Rests DEF Fs, Pending
  <2>2. Pending' = 1
    BY <2>1, Rests DEF Pending, Fs
  <2>3. "sha256" \in dirs
    BY <1>1, <1>9, Rests DEF MakeInv, Fs
  <2>4. /\ dirs' = dirs \ {"other"} /\ trash' = trash + 1
        /\ UNCHANGED <<tag, removing, retired, place, sizeFile>>
    BY <1>3, <2>1 DEF SetDisk, After, Disk
  <2>5. QED
    BY <1>1, <1>2, <1>9, <2>1, <2>2, <2>3, <2>4 DEF Types, DirectoryInv, MakeInv, Clean
<1>10. CASE preserve /\ todo = <<Fs("spawn"), Fs("mkKindIfNone")>>
  <2>1. Head(todo).op = "spawn" /\ Pending = 1 /\ todo' = <<Fs("mkKindIfNone")>>
    BY <1>2, <1>10, Rests DEF Fs, Pending
  <2>2. Pending' = 0
    BY <2>1, Rests DEF Pending, Fs
  <2>3. "sha256" \in dirs
    BY <1>1, <1>10, Rests DEF MakeInv, Fs
  <2>4. UNCHANGED <<tag, removing, trash, retired, dirs, place, sizeFile>>
    BY <1>3, <2>1 DEF SetDisk, After, Disk
  <2>5. QED
    BY <1>1, <1>2, <1>10, <2>1, <2>2, <2>3, <2>4 DEF Types, DirectoryInv, MakeInv, Clean
<1>11. QED
  BY <1>1, <1>2, <1>5, <1>6, <1>7, <1>8, <1>9, <1>10 DEF MakeInv

LEMMA DoFiles == IInv /\ phase = "files" /\ Do => IInv'
<1> SUFFICES ASSUME IInv, phase = "files", Do PROVE IInv'
  OBVIOUS
<1>1. Types /\ DirectoryInv /\ HeapInv /\ FilesInv /\ ReadInv
  BY DEF IInv, PhaseInv, FilesInv
<1>2. /\ todo # <<>> /\ todo' = Tail(todo) /\ HeapInv'
      /\ UNCHANGED <<phase, preserve, entry, heap, bytes, doing, evicting, faulty>>
      /\ threads' = IF Head(todo).op = "spawn" THEN threads + 1 ELSE threads
  BY <1>1, DoFacts DEF HeapInv
<1>3. SetDisk(After(Head(todo)))
  BY DoFacts
<1>4. Tracked' = Tracked
  BY <1>2 DEF Tracked
<1>5. SUFFICES Types' /\ DirectoryInv' /\ FilesInv'
  BY <1>2 DEF IInv, PhaseInv
<1>6. PICK d \in Digest : \/ todo = <<FsOn("remove", d)>> /\ place[d] = "symlink"
                          \/ todo = <<FsOn("removeSize", d)>> /\ sizeFile[d] # "none"
  BY <1>1, <1>2 DEF FilesInv
<1>7. /\ todo' = <<>> /\ Pending = 0 /\ Pending' = 0
      /\ Head(todo).op \in {"remove", "removeSize"} /\ Head(todo).d = d
  BY <1>2, <1>6, Rests DEF Pending, FsOn
<1>8. CASE todo = <<FsOn("remove", d)>> /\ place[d] = "symlink"
  <2>1. Head(todo).op = "remove"
    BY <1>8, Rests DEF FsOn
  <2>2. place' = [place EXCEPT ![d] = "none"]
        /\ UNCHANGED <<tag, removing, trash, retired, dirs, sizeFile>>
    BY <1>3, <1>7, <2>1 DEF SetDisk, After, Disk
  <2>3. d \notin Tracked
    BY <1>1, <1>8 DEF FilesInv
  <2>4. Types' /\ DirectoryInv'
    BY <1>1, <1>2, <1>7, <2>2 DEF Types, DirectoryInv
  <2>5. ReadInv'
    BY <1>1, <1>2, <1>4, <1>7, <2>2 DEF ReadInv, Ready, Clean, Types
  <2>6. QED
    BY <1>1, <1>4, <1>7, <2>2, <2>3, <2>4, <2>5 DEF FilesInv, Types, Tracked
<1>9. CASE todo = <<FsOn("removeSize", d)>> /\ sizeFile[d] # "none"
  <2>1. Head(todo).op = "removeSize"
    BY <1>9, Rests DEF FsOn
  <2>2. sizeFile' = [sizeFile EXCEPT ![d] = "none"]
        /\ UNCHANGED <<tag, removing, trash, retired, dirs, place>>
    BY <1>3, <1>7, <2>1 DEF SetDisk, After, Disk
  <2>3. Types' /\ DirectoryInv'
    BY <1>1, <1>2, <1>7, <2>2 DEF Types, DirectoryInv
  <2>4. ReadInv'
    BY <1>1, <1>2, <1>4, <1>7, <2>2 DEF ReadInv, Ready, Clean, Types
  <2>5. QED
    BY <1>1, <1>4, <1>7, <2>2, <2>3, <2>4 DEF FilesInv, Types, Tracked
<1>10. QED
  BY <1>6, <1>8, <1>9

LEMMA DoSizes == IInv /\ phase = "sizes" /\ Do => IInv'
<1> SUFFICES ASSUME IInv, phase = "sizes", Do PROVE IInv'
  OBVIOUS
<1>1. Types /\ DirectoryInv /\ HeapInv /\ SizesInv /\ ReadInv
  BY DEF IInv, PhaseInv, SizesInv
<1>2. /\ todo # <<>> /\ todo' = Tail(todo) /\ HeapInv'
      /\ UNCHANGED <<phase, preserve, entry, heap, bytes, doing, evicting, faulty>>
      /\ threads' = IF Head(todo).op = "spawn" THEN threads + 1 ELSE threads
  BY <1>1, DoFacts DEF HeapInv
<1>3. SetDisk(After(Head(todo)))
  BY DoFacts
<1>4. Tracked' = Tracked
  BY <1>2 DEF Tracked
<1>5. SUFFICES Types' /\ DirectoryInv' /\ SizesInv'
  BY <1>2 DEF IInv, PhaseInv
<1>6. CASE todo = <<Fs("spawn")>>
  <2>1. /\ todo' = <<>> /\ Head(todo).op = "spawn"
        /\ Pending = 1 /\ Pending' = 0
    BY <1>2, <1>6, Rests DEF Pending, Fs
  <2>2. UNCHANGED <<tag, removing, trash, retired, dirs, place, sizeFile>>
    BY <1>3, <2>1 DEF SetDisk, After, Disk
  <2>3. Types' /\ DirectoryInv'
    BY <1>1, <1>2, <2>1, <2>2 DEF Types, DirectoryInv
  <2>4. ReadInv'
    BY <1>1, <1>2, <1>4, <2>1, <2>2 DEF ReadInv, Ready, Clean, Types
  <2>5. QED
    BY <1>1, <1>4, <2>1, <2>2, <2>3, <2>4 DEF SizesInv
<1>7. ASSUME NEW d \in Digest,
             todo = <<FsOn("trashDir", d), Fs("spawn")>>, place[d] = "dir", sizeFile[d] = "none"
      PROVE  Types' /\ DirectoryInv' /\ SizesInv'
  <2>1. /\ todo' = <<Fs("spawn")>> /\ Head(todo).op = "trashDir" /\ Head(todo).d = d
        /\ Pending = 0 /\ Pending' = 1
    BY <1>2, <1>7, Rests DEF Pending, Fs, FsOn
  <2>2. /\ place' = [place EXCEPT ![d] = "none"] /\ trash' = trash + 1
        /\ UNCHANGED <<tag, removing, retired, dirs, sizeFile>>
    BY <1>3, <2>1 DEF SetDisk, After, Disk
  <2>3. Types' /\ DirectoryInv'
    BY <1>1, <1>2, <2>1, <2>2 DEF Types, DirectoryInv, ReadInv, Ready, Clean
  <2>4. ReadInv'
    BY <1>1, <1>2, <1>4, <2>1, <2>2 DEF ReadInv, Ready, Clean, Types
  <2>5. \A e \in Digest : e # d => place'[e] = place[e]
    BY <1>1, <2>2 DEF Types
  <2>6. place'[d] = "none"
    BY <1>1, <2>2 DEF Types
  <2>7. d \notin Tracked
    BY <1>1, <1>7 DEF SizesInv
  <2>8. todo' \in {<<>>, <<Fs("spawn")>>'}
    BY <2>1 DEF Fs
  <2>9. QED
    BY <1>1, <1>4, <1>7, <2>2, <2>3, <2>4, <2>5, <2>6, <2>7, <2>8 DEF SizesInv
<1>8. ASSUME NEW d \in Digest,
             todo = <<FsOn("removeSize", d)>>, place[d] # "dir", sizeFile[d] = "full"
      PROVE  Types' /\ DirectoryInv' /\ SizesInv'
  <2>1. /\ todo' = <<>> /\ Head(todo).op = "removeSize" /\ Head(todo).d = d
        /\ Pending = 0 /\ Pending' = 0
    BY <1>2, <1>8, Rests DEF Pending, FsOn
  <2>2. /\ sizeFile' = [sizeFile EXCEPT ![d] = "none"]
        /\ UNCHANGED <<tag, removing, trash, retired, dirs, place>>
    BY <1>3, <2>1 DEF SetDisk, After, Disk
  <2>3. Types' /\ DirectoryInv'
    BY <1>1, <1>2, <2>1, <2>2 DEF Types, DirectoryInv
  <2>4. ReadInv'
    BY <1>1, <1>2, <1>4, <2>1, <2>2 DEF ReadInv, Ready, Clean, Types
  <2>5. \A e \in Digest : e # d => sizeFile'[e] = sizeFile[e]
    BY <1>1, <2>2 DEF Types
  <2>6. sizeFile'[d] = "none"
    BY <1>1, <2>2 DEF Types
  <2>7. QED
    BY <1>1, <1>4, <1>8, <2>1, <2>2, <2>3, <2>4, <2>5, <2>6 DEF SizesInv
<1>9. QED
  BY <1>1, <1>2, <1>6, <1>7, <1>8 DEF SizesInv

(***************************************************************************)
(* In an open cache an operation is about one artifact at most, which the  *)
(* cache does not track then.                                              *)
(***************************************************************************)
LEMMA OthersKept ==
  ASSUME NEW d \in Digest, d \notin Tracked, entry' = entry,
         \A e \in Digest \ {d} : place'[e] = place[e] /\ sizeFile'[e] = sizeFile[e]
  PROVE  /\ (\A e \in Tracked : Whole(e)) => (\A e \in Tracked : Whole(e))'
         /\ (\A e \in Digest \ {d} : Settled(e)) => (\A e \in Digest \ {d} : Settled(e))'
<1>1. Tracked' = Tracked
  BY DEF Tracked
<1>2. QED
  BY <1>1 DEF Whole, Settled, Tracked

LEMMA DoRest ==
  ASSUME IInv, phase \in {"shrink", "up"}, Do, doing = Nothing, RestInv
  PROVE  IInv'
<1>1. Types /\ DirectoryInv /\ HeapInv /\ Accounts
  BY DEF IInv, PhaseInv, OpenInv
<1>2. /\ todo # <<>> /\ todo' = Tail(todo) /\ HeapInv' /\ phase' \in {"shrink", "up"}
      /\ UNCHANGED <<phase, preserve, entry, heap, bytes, doing, evicting, faulty>>
      /\ threads' = IF Head(todo).op = "spawn" THEN threads + 1 ELSE threads
  BY <1>1, DoFacts DEF HeapInv
<1>3. SetDisk(After(Head(todo)))
  BY DoFacts
<1>4. Tracked' = Tracked /\ Charged' = Charged
  BY <1>2 DEF Tracked, Charged
<1>5. PICK op \in {"spawn", "removeDisposed"} :
        todo = <<Fs(op)>> \/ todo = <<Fs("dispose"), Fs(op)>>
  BY <1>2 DEF RestInv
<1>6. SUFFICES /\ Types' /\ DirectoryInv' /\ UNCHANGED <<removing, retired, dirs, place, sizeFile>>
               /\ trash = threads + Pending => trash' = threads' + Pending'
               /\ todo' \in {<<>>, <<Fs(op)>>}
  <2>1. Accounts'
    <3>1. (~faulty => Ready)'
      BY <1>1, <1>2, <1>6 DEF Accounts, Ready, Clean
    <3>2. (\A d \in Tracked : Whole(d))'
      <4>1. \A d \in Digest : Whole(d) => Whole(d)'
        BY <1>6 DEF Whole
      <4>2. \A d \in Tracked : d \in Digest /\ Whole(d)
        BY <1>1 DEF Accounts, Tracked
      <4>3. QED
        BY <1>4, <4>1, <4>2
    <3>3. QED
      BY <1>1, <1>2, <1>4, <3>1, <3>2 DEF Accounts
  <2>2. \A d \in Digest : Settled(d) => Settled(d)'
    BY <1>4, <1>6 DEF Settled
  <2>3. RestInv'
    <3>1. todo' \in {<<>>, <<Fs("spawn")>>, <<Fs("removeDisposed")>>}
      BY <1>5, <1>6
    <3>2. ~faulty => \A d \in Digest : Settled(d)'
      BY <2>2 DEF RestInv
    <3>3. QED
      BY <1>2, <3>1, <3>2 DEF RestInv, Fs
  <2>4. QED
    BY <1>2, <1>6, <2>1, <2>3 DEF IInv, PhaseInv, OpenInv
<1>7. CASE todo = <<Fs("dispose"), Fs(op)>>
  <2>1. /\ Head(todo).op = "dispose" /\ todo' = <<Fs(op)>>
        /\ Pending = 0 /\ Pending' = 1
    BY <1>2, <1>5, <1>7, Rests DEF Pending, Fs
  <2>2. trash' = trash + 1 /\ UNCHANGED <<tag, removing, retired, dirs, place, sizeFile>>
    BY <1>3, <2>1 DEF SetDisk, After, Disk
  <2>3. removing = "dir"
    <3>1. Fits(Head(todo))
      BY DoFacts
    <3>2. QED
      BY <2>1, <3>1 DEF Fits
  <2>4. Types' /\ DirectoryInv'
    BY <1>1, <1>2, <2>1, <2>2, <2>3 DEF Types, DirectoryInv
  <2>5. trash = threads + Pending => trash' = threads' + Pending'
    BY <1>1, <1>2, <2>1, <2>2 DEF Types
  <2>6. QED
    BY <2>1, <2>2, <2>4, <2>5
<1>8. CASE todo = <<Fs(op)>>
  <2>1. /\ Head(todo).op = op /\ todo' = <<>>
        /\ Pending = 1 /\ Pending' = 0
    BY <1>2, <1>5, <1>8, Rests DEF Pending, Fs
  <2>2. /\ trash' = IF op = "spawn" THEN trash ELSE trash - 1
        /\ UNCHANGED <<tag, removing, retired, dirs, place, sizeFile>>
    <3>1. CASE op = "spawn"
      BY <1>3, <2>1, <3>1 DEF SetDisk, After, Disk
    <3>2. CASE op = "removeDisposed"
      BY <1>3, <2>1, <3>2 DEF SetDisk, After, Disk
    <3>3. QED
      BY <1>5, <3>1, <3>2
  <2>3. QED
    BY <1>1, <1>2, <1>5, <2>1, <2>2 DEF Types, DirectoryInv
<1>9. QED
  BY <1>5, <1>7, <1>8

LEMMA DoStore ==
  ASSUME IInv, phase = "up", Do, NEW d \in Digest,
         doing = [kind |-> "store", d |-> d], StoreInv(d)
  PROVE  IInv'
<1>1. Types /\ DirectoryInv /\ HeapInv /\ Accounts
  BY DEF IInv, PhaseInv, OpenInv
<1>2. /\ todo # <<>> /\ todo' = Tail(todo) /\ HeapInv' /\ phase' = "up"
      /\ UNCHANGED <<phase, preserve, entry, heap, bytes, doing, evicting, faulty>>
      /\ threads' = IF Head(todo).op = "spawn" THEN threads + 1 ELSE threads
  BY <1>1, DoFacts DEF HeapInv
<1>3. SetDisk(After(Head(todo))) /\ Fits(Head(todo))
  BY DoFacts
<1>4. Tracked' = Tracked /\ Charged' = Charged /\ d \notin Tracked
  BY <1>2 DEF Tracked, Charged, StoreInv
<1>5. SUFFICES /\ Types' /\ UNCHANGED <<removing, trash, retired, dirs, threads>>
               /\ \A e \in Digest \ {d} : place'[e] = place[e] /\ sizeFile'[e] = sizeFile[e]
               /\ place'[d] \in IF d \in Dir THEN {"none", "dir"} ELSE {"none", "file", "symlink"}
               /\ place'[d] # "none" \/ sizeFile'[d] # "none" => "kind" \in dirs
               /\ Pending = 0 /\ Pending' = 0 /\ StoreTodo(d)'
  <2>1. DirectoryInv'
    BY <1>1, <1>5 DEF DirectoryInv
  <2>2. Accounts'
    BY <1>1, <1>2, <1>4, <1>5, OthersKept DEF Accounts, Ready, Clean
  <2>3. StoreInv(d)'
    BY <1>2, <1>4, <1>5, OthersKept DEF StoreInv
  <2>4. QED
    BY <1>2, <1>5, <2>1, <2>2, <2>3 DEF IInv, PhaseInv, OpenInv
<1>6. CASE todo = <<FsOn("createSize", d), FsOn("writeSize", d), FsOn("moveIn", d)>>
  <2>1. /\ Head(todo).op = "createSize" /\ Head(todo).d = d
        /\ todo' = <<FsOn("writeSize", d), FsOn("moveIn", d)>> /\ Pending = 0
    BY <1>2, <1>6, Rests DEF Pending, FsOn
  <2>2. Pending' = 0
    BY <2>1, Rests DEF Pending, FsOn
  <2>3. /\ sizeFile' = [sizeFile EXCEPT ![d] = "partial"]
        /\ UNCHANGED <<tag, removing, trash, retired, dirs, place>>
    BY <1>3, <2>1 DEF SetDisk, After, Disk
  <2>4. "kind" \in dirs
    BY <1>3, <2>1 DEF Fits
  <2>5. d \in Dir /\ (~faulty => place[d] = "none")
    BY <1>6, Rests DEF StoreInv, StoreTodo, FsOn
  <2>6. Types' /\ sizeFile'[d] = "partial"
    BY <1>1, <1>2, <2>1, <2>3 DEF Types
  <2>7. StoreTodo(d)'
    BY <1>2, <2>1, <2>3, <2>5, <2>6 DEF StoreTodo, FsOn
  <2>8. QED
    BY <1>1, <1>2, <2>1, <2>2, <2>3, <2>4, <2>6, <2>7 DEF DirectoryInv, Types
<1>7. CASE todo = <<FsOn("writeSize", d), FsOn("moveIn", d)>>
  <2>1. /\ Head(todo).op = "writeSize" /\ Head(todo).d = d
        /\ todo' = <<FsOn("moveIn", d)>> /\ Pending = 0
    BY <1>2, <1>7, Rests DEF Pending, FsOn
  <2>2. Pending' = 0
    BY <2>1, Rests DEF Pending, FsOn
  <2>3. /\ sizeFile' = [sizeFile EXCEPT ![d] = "full"]
        /\ UNCHANGED <<tag, removing, trash, retired, dirs, place>>
    BY <1>3, <2>1 DEF SetDisk, After, Disk
  <2>4. d \in Dir /\ sizeFile[d] = "partial" /\ (~faulty => place[d] = "none")
    BY <1>7, Rests DEF StoreInv, StoreTodo, FsOn
  <2>5. Types' /\ sizeFile'[d] = "full"
    BY <1>1, <1>2, <2>1, <2>3 DEF Types
  <2>6. StoreTodo(d)'
    BY <1>2, <2>1, <2>3, <2>4, <2>5 DEF StoreTodo, FsOn
  <2>7. QED
    BY <1>1, <1>2, <2>1, <2>2, <2>3, <2>4, <2>5, <2>6 DEF DirectoryInv, Types
<1>8. CASE todo = <<FsOn("moveIn", d)>>
  <2>1. /\ Head(todo).op = "moveIn" /\ Head(todo).d = d
        /\ todo' = <<>> /\ Pending = 0 /\ Pending' = 0
    BY <1>2, <1>8, Rests DEF Pending, FsOn
  <2>2. /\ place' = [place EXCEPT ![d] = "dir"]
        /\ UNCHANGED <<tag, removing, trash, retired, dirs, sizeFile>>
    BY <1>3, <2>1 DEF SetDisk, After, Disk
  <2>3. "kind" \in dirs
    <3>1. Fits(Head(todo))
      BY <1>3
    <3>2. QED
      BY <2>1, <3>1 DEF Fits
  <2>4. d \in Dir /\ sizeFile[d] = "full"
    BY <1>8, Rests DEF StoreInv, StoreTodo, FsOn, Fs
  <2>5. Types' /\ place'[d] = "dir"
    BY <1>1, <1>2, <2>1, <2>2 DEF Types
  <2>6. StoreTodo(d)'
    BY <2>1, <2>2, <2>4, <2>5 DEF StoreTodo, Whole
  <2>7. QED
    BY <1>1, <1>2, <2>1, <2>2, <2>3, <2>4, <2>5, <2>6 DEF DirectoryInv, Types
<1>9. CASE \/ todo = <<FsOn("putFile", d), Fs("metadata")>>
           \/ todo = <<FsOn("putSymlink", d), Fs("metadata")>>
  <2>1. PICK op \in {"putFile", "putSymlink"} : todo = <<FsOn(op, d), Fs("metadata")>>
    BY <1>9
  <2>2. /\ Head(todo).op = op /\ Head(todo).d = d
        /\ todo' = <<Fs("metadata")>> /\ Pending = 0
    BY <1>2, <2>1, Rests DEF Pending, FsOn
  <2>3. Pending' = 0
    BY <2>2, Rests DEF Pending, Fs
  <2>4. /\ place' = [place EXCEPT ![d] = IF op = "putFile" THEN "file" ELSE "symlink"]
        /\ UNCHANGED <<tag, removing, trash, retired, dirs, sizeFile>>
    <3>1. CASE op = "putFile"
      BY <1>3, <2>2, <3>1 DEF SetDisk, After, Disk
    <3>2. CASE op = "putSymlink"
      BY <1>3, <2>2, <3>2 DEF SetDisk, After, Disk
    <3>3. QED
      BY <3>1, <3>2
  <2>5. "kind" \in dirs
    <3>1. CASE op = "putFile"
      BY <1>3, <2>2, <3>1 DEF Fits
    <3>2. CASE op = "putSymlink"
      BY <1>3, <2>2, <3>2 DEF Fits
    <3>3. QED
      BY <3>1, <3>2
  <2>6. d \notin Dir /\ (~faulty => sizeFile[d] = "none")
    BY <2>1, Rests DEF StoreInv, StoreTodo, FsOn, Fs
  <2>7. Types' /\ place'[d] \in {"file", "symlink"}
    BY <1>1, <1>2, <2>2, <2>4 DEF Types
  <2>8. StoreTodo(d)'
    BY <1>2, <2>2, <2>4, <2>6, <2>7 DEF StoreTodo, Whole, Fs
  <2>9. QED
    BY <1>1, <1>2, <2>2, <2>3, <2>4, <2>5, <2>6, <2>7, <2>8 DEF DirectoryInv, Types
<1>10. CASE todo = <<Fs("metadata")>>
  <2>1. /\ Head(todo).op = "metadata" /\ todo' = <<>> /\ Pending = 0 /\ Pending' = 0
    BY <1>2, <1>10, Rests DEF Pending, Fs
  <2>2. UNCHANGED <<tag, removing, trash, retired, dirs, place, sizeFile>>
    BY <1>3, <2>1 DEF SetDisk, After, Disk
  <2>3. d \notin Dir /\ (~faulty => sizeFile[d] = "none") /\ Whole(d)
    BY <1>10, Rests DEF StoreInv, StoreTodo, FsOn, Fs
  <2>4. Types'
    BY <1>1, <1>2, <2>1, <2>2 DEF Types
  <2>5. StoreTodo(d)'
    BY <1>2, <2>1, <2>2, <2>3 DEF StoreTodo, Whole
  <2>6. QED
    BY <1>1, <1>2, <2>1, <2>2, <2>4, <2>5 DEF DirectoryInv
<1>11. QED
  BY <1>2, <1>6, <1>7, <1>8, <1>9, <1>10 DEF StoreInv, StoreTodo

LEMMA DoEvict ==
  ASSUME IInv, phase \in {"shrink", "up"}, Do, NEW d \in Digest,
         doing = [kind |-> "evict", d |-> d], EvictInv(d)
  PROVE  IInv'
<1>1. Types /\ DirectoryInv /\ HeapInv /\ Accounts
  BY DEF IInv, PhaseInv, OpenInv
<1>2. /\ todo # <<>> /\ todo' = Tail(todo) /\ HeapInv' /\ phase' \in {"shrink", "up"}
      /\ UNCHANGED <<phase, preserve, entry, heap, bytes, doing, evicting, faulty>>
      /\ threads' = IF Head(todo).op = "spawn" THEN threads + 1 ELSE threads
  BY <1>1, DoFacts DEF HeapInv
<1>3. SetDisk(After(Head(todo)))
  BY DoFacts
<1>4. Tracked' = Tracked /\ Charged' = Charged /\ d \notin Tracked
  BY <1>2 DEF Tracked, Charged, EvictInv
<1>5. SUFFICES /\ Types' /\ UNCHANGED <<removing, retired, dirs>>
               /\ \A e \in Digest \ {d} : place'[e] = place[e] /\ sizeFile'[e] = sizeFile[e]
               /\ place'[d] \in {"none", place[d]} /\ sizeFile'[d] \in {"none", sizeFile[d]}
               /\ removing # "dir" => trash' = 0
               /\ threads' + Pending' <= trash'
               /\ trash = threads + Pending => trash' = threads' + Pending'
               /\ EvictTodo(d)'
  <2>1. DirectoryInv'
    BY <1>1, <1>5 DEF DirectoryInv
  <2>2. Accounts'
    BY <1>1, <1>2, <1>4, <1>5, OthersKept DEF Accounts, Ready, Clean
  <2>3. EvictInv(d)'
    BY <1>2, <1>4, <1>5, OthersKept DEF EvictInv
  <2>4. QED
    BY <1>2, <1>5, <2>1, <2>2, <2>3 DEF IInv, PhaseInv, OpenInv
<1>6. CASE todo = <<FsOn("trashDir", d), Fs("spawn"), FsOn("removeSize", d)>>
  <2>1. /\ Head(todo).op = "trashDir" /\ Head(todo).d = d
        /\ todo' = <<Fs("spawn"), FsOn("removeSize", d)>> /\ Pending = 0
    BY <1>2, <1>6, Rests DEF Pending, FsOn
  <2>2. Pending' = 1
    BY <2>1, Rests DEF Pending, Fs
  <2>3. /\ place' = [place EXCEPT ![d] = "none"] /\ trash' = trash + 1
        /\ UNCHANGED <<tag, removing, retired, dirs, sizeFile>>
    BY <1>3, <2>1 DEF SetDisk, After, Disk
  <2>4. removing = "dir"
    <3>1. Fits(Head(todo))
      BY DoFacts
    <3>2. QED
      BY <2>1, <3>1 DEF Fits
  <2>5. sizeFile[d] = "full"
    BY <1>6, Rests DEF EvictInv, EvictTodo, Fs, FsOn
  <2>6. Types' /\ place'[d] = "none"
    BY <1>1, <1>2, <2>1, <2>3 DEF Types
  <2>7. EvictTodo(d)'
    BY <2>1, <2>3, <2>5, <2>6 DEF EvictTodo, Fs, FsOn
  <2>8. QED
    BY <1>1, <1>2, <2>1, <2>2, <2>3, <2>4, <2>6, <2>7 DEF DirectoryInv, Types
<1>7. CASE todo = <<Fs("spawn"), FsOn("removeSize", d)>>
  <2>1. /\ Head(todo).op = "spawn"
        /\ todo' = <<FsOn("removeSize", d)>> /\ Pending = 1
    BY <1>2, <1>7, Rests DEF Pending, Fs
  <2>2. Pending' = 0
    BY <2>1, Rests DEF Pending, FsOn
  <2>3. UNCHANGED <<tag, removing, trash, retired, dirs, place, sizeFile>>
    BY <1>3, <2>1 DEF SetDisk, After, Disk
  <2>4. place[d] = "none" /\ sizeFile[d] = "full"
    BY <1>7, Rests DEF EvictInv, EvictTodo, Fs, FsOn
  <2>5. Types'
    BY <1>1, <1>2, <2>1, <2>3 DEF Types
  <2>6. EvictTodo(d)'
    BY <2>1, <2>3, <2>4 DEF EvictTodo, Fs, FsOn
  <2>7. QED
    BY <1>1, <1>2, <2>1, <2>2, <2>3, <2>5, <2>6 DEF DirectoryInv, Types
<1>8. CASE todo = <<FsOn("removeSize", d)>>
  <2>1. /\ Head(todo).op = "removeSize" /\ Head(todo).d = d
        /\ todo' = <<>> /\ Pending = 0 /\ Pending' = 0
    BY <1>2, <1>8, Rests DEF Pending, FsOn
  <2>2. /\ sizeFile' = [sizeFile EXCEPT ![d] = "none"]
        /\ UNCHANGED <<tag, removing, trash, retired, dirs, place>>
    BY <1>3, <2>1 DEF SetDisk, After, Disk
  <2>3. place[d] = "none"
    BY <1>8, Rests DEF EvictInv, EvictTodo, Fs, FsOn
  <2>4. Types' /\ sizeFile'[d] = "none"
    BY <1>1, <1>2, <2>1, <2>2 DEF Types
  <2>5. EvictTodo(d)'
    BY <2>1, <2>2, <2>3, <2>4 DEF EvictTodo
  <2>6. QED
    BY <1>1, <1>2, <2>1, <2>2, <2>4, <2>5 DEF DirectoryInv, Types
<1>9. CASE todo = <<FsOn("remove", d)>>
  <2>1. /\ Head(todo).op = "remove" /\ Head(todo).d = d
        /\ todo' = <<>> /\ Pending = 0 /\ Pending' = 0
    BY <1>2, <1>9, Rests DEF Pending, FsOn
  <2>2. /\ place' = [place EXCEPT ![d] = "none"]
        /\ UNCHANGED <<tag, removing, trash, retired, dirs, sizeFile>>
    BY <1>3, <2>1 DEF SetDisk, After, Disk
  <2>3. ~faulty => sizeFile[d] = "none"
    BY <1>9, Rests DEF EvictInv, EvictTodo, Fs, FsOn
  <2>4. Types' /\ place'[d] = "none"
    BY <1>1, <1>2, <2>1, <2>2 DEF Types
  <2>5. EvictTodo(d)'
    BY <1>2, <2>1, <2>2, <2>3, <2>4 DEF EvictTodo
  <2>6. QED
    BY <1>1, <1>2, <2>1, <2>2, <2>4, <2>5 DEF DirectoryInv, Types
<1>10. QED
  BY <1>2, <1>6, <1>7, <1>8, <1>9 DEF EvictInv, EvictTodo

LEMMA DoIInv == IInv /\ Do => IInv'
<1> SUFFICES ASSUME IInv, Do PROVE IInv'
  OBVIOUS
<1>1. PhaseInv /\ todo # <<>>
  BY DoFacts DEF IInv
<1>2. CASE phase \in {"shrink", "up"} /\ OpenInv
  <2>1. CASE doing = Nothing /\ RestInv
    BY <1>2, <2>1, DoRest
  <2>2. ASSUME phase = "up", NEW d \in Digest,
               doing = [kind |-> "store", d |-> d], StoreInv(d)
        PROVE  IInv'
    BY <2>2, DoStore
  <2>3. ASSUME NEW d \in Digest, doing = [kind |-> "evict", d |-> d], EvictInv(d)
        PROVE  IInv'
    BY <1>2, <2>3, DoEvict
  <2>4. QED
    BY <1>2, <2>1, <2>2, <2>3 DEF OpenInv
<1>3. QED
  BY <1>1, <1>2, DoEnsure, DoSweep, DoMake, DoFiles, DoSizes DEF PhaseInv, DownInv

(***************************************************************************)
(* The opening of the cache, step by step.                                 *)
(***************************************************************************)
LEMMA OpenIInv == IInv /\ Open => IInv'
<1> SUFFICES ASSUME IInv, Open PROVE IInv'
  OBVIOUS
<1>1. Types /\ DirectoryInv /\ HeapInv /\ DownInv
  BY DEF IInv, PhaseInv, Open
<1>2. UNCHANGED <<diskVars, memVars, threads, faulty>> /\ phase' = "ensure"
      /\ preserve' \in BOOLEAN /\ todo' = EnsureRemoving
  BY DEF Open
<1>3. /\ EnsureInv' /\ Pending' = 0 /\ Pending = 0
  <2>1. Pending = 0
    BY <1>1 DEF DownInv, Pending
  <2>2. CASE removing = "dir"
    <3>1. todo' = <<Fs("retire"), Fs("mkRemoving")>>
      BY <1>2, <2>2 DEF EnsureRemoving
    <3>2. QED
      BY <1>1, <1>2, <2>1, <2>2, <3>1, Rests
      DEF EnsureInv, DownInv, NoMemory, Pending, Fs, diskVars, memVars
  <2>3. CASE removing = "file"
    <3>1. todo' = <<Fs("removeRemoving"), Fs("mkRemoving")>>
      BY <1>2, <2>3 DEF EnsureRemoving
    <3>2. QED
      BY <1>1, <1>2, <2>1, <2>3, <3>1, Rests
      DEF EnsureInv, DownInv, NoMemory, Pending, Fs, diskVars, memVars
  <2>4. CASE removing = "none"
    <3>1. todo' = <<Fs("mkRemoving")>>
      BY <1>2, <2>4 DEF EnsureRemoving
    <3>2. QED
      BY <1>1, <1>2, <2>1, <2>4, <3>1, Rests
      DEF EnsureInv, DownInv, NoMemory, Pending, Fs, diskVars, memVars
  <2>5. QED
    BY <1>1, <2>2, <2>3, <2>4 DEF Types
<1>4. Types' /\ DirectoryInv' /\ HeapInv'
  BY <1>1, <1>2, <1>3 DEF Types, DirectoryInv, HeapInv, diskVars, memVars
<1>5. QED
  BY <1>2, <1>3, <1>4 DEF IInv, PhaseInv

LEMMA SweepingIInv == IInv /\ (Ensured \/ Swept \/ \E e \in ToSweep : Sweep(e)) => IInv'
<1> SUFFICES ASSUME IInv, Ensured \/ Swept \/ \E e \in ToSweep : Sweep(e) PROVE IInv'
  OBVIOUS
<1>1. /\ UNCHANGED diskVars /\ UNCHANGED memVars /\ UNCHANGED <<preserve, threads, faulty>>
      /\ todo = <<>> /\ Pending = 0
  BY DEF Ensured, Swept, Sweep, Pending
<1>2. Types /\ DirectoryInv /\ HeapInv
  BY DEF IInv
<1>3. Types' /\ HeapInv'
  BY <1>1, <1>2 DEF Types, HeapInv, diskVars, memVars
<1>4. SUFFICES Pending' = 0 /\ PhaseInv'
  BY <1>1, <1>2, <1>3 DEF IInv, DirectoryInv, diskVars
<1>5. CASE Ensured
  <2>1. todo' = <<>> /\ Pending' = 0 /\ phase' = "sweep" /\ EnsureInv
    BY <1>1, <1>5 DEF Ensured, IInv, PhaseInv, Pending
  <2>2. SweepInv'
    BY <1>1, <2>1 DEF SweepInv, SweepTodo, EnsureInv, NoMemory, diskVars, memVars, Fs
  <2>3. QED
    BY <2>1, <2>2 DEF PhaseInv
<1>6. ASSUME NEW e \in ToSweep, Sweep(e)
      PROVE  Pending' = 0 /\ PhaseInv'
  <2>1. phase' = "sweep" /\ todo' = SweepSteps(e) /\ SweepInv
    BY <1>6 DEF Sweep, IInv, PhaseInv
  <2>2. SweepTodo' /\ Pending' = 0
    <3>1. CASE e = "retired"
      <4>1. todo' = <<Fs("trashRetired"), Fs("spawn")>> /\ retired > 0
        BY <1>6, <2>1, <3>1 DEF SweepSteps, InBackground, ToSweep
      <4>2. QED
        BY <1>1, <4>1, Rests DEF SweepTodo, Pending, Fs, diskVars
    <3>2. CASE e = "tmp"
      <4>1. todo' = <<Fs("trashTmp"), Fs("spawn")>> /\ "tmp" \in dirs
        BY <1>6, <2>1, <3>2 DEF SweepSteps, InBackground, ToSweep
      <4>2. QED
        BY <1>1, <4>1, Rests DEF SweepTodo, Pending, Fs, diskVars
    <3>3. CASE e = "sha256"
      <4>1. todo' = <<Fs("trashSha256"), Fs("spawn")>> /\ "sha256" \in dirs
        BY <1>6, <2>1, <3>3 DEF SweepSteps, InBackground, ToSweep
      <4>2. QED
        BY <1>1, <4>1, Rests DEF SweepTodo, Pending, Fs, diskVars
    <3>4. CASE e = "tag"
      <4>1. todo' = <<Fs("removeTag")>>
        BY <2>1, <3>4 DEF SweepSteps
      <4>2. QED
        BY <1>1, <4>1, Rests DEF SweepTodo, Pending, Fs, diskVars
    <3>5. QED
      BY <1>6, <3>1, <3>2, <3>3, <3>4 DEF ToSweep
  <2>3. SweepInv'
    BY <1>1, <2>1, <2>2 DEF SweepInv, NoMemory, diskVars, memVars
  <2>4. QED
    BY <2>1, <2>2, <2>3 DEF PhaseInv
<1>7. CASE Swept
  <2>1. phase' = "make" /\ todo' = MakeSteps /\ SweepInv /\ ToSweep = {}
    BY <1>7 DEF Swept, IInv, PhaseInv
  <2>2. /\ "tmp" \notin dirs /\ ~(retired > 0)
        /\ ~preserve => "sha256" \notin dirs /\ tag = "none"
    BY <2>1 DEF ToSweep
  <2>3. ~preserve => \A d \in Digest : place[d] = "none" /\ sizeFile[d] = "none"
    BY <1>2, <2>2 DEF DirectoryInv
  <2>4. retired = 0
    BY <1>2, <2>2 DEF Types
  <2>5. CASE preserve
    <3>1. \/ todo' = <<Fs("mkTmp"), Fs("mkSha256IfNone"), Fs("mkKindIfNone")>>
          \/ /\ "other" \in dirs
             /\ todo' = <<Fs("mkTmp"), Fs("mkSha256IfNone"), Fs("trashOther"), Fs("spawn"),
                          Fs("mkKindIfNone")>>
      <4>1. todo' = (<<Fs("mkTmp"), Fs("mkSha256IfNone")>> \o SweepKinds) \o <<Fs("mkKindIfNone")>>
        BY <2>1, <2>5 DEF MakeSteps
      <4>2. CASE "other" \in dirs
        <5>1. SweepKinds = <<Fs("trashOther"), Fs("spawn")>>
          BY <4>2 DEF SweepKinds, InBackground
        <5>2. QED
          BY <4>1, <4>2, <5>1, Joins
      <4>3. CASE "other" \notin dirs
        <5>1. SweepKinds = <<>>
          BY <4>3 DEF SweepKinds
        <5>2. QED
          BY <4>1, <5>1, Joins
      <4>4. QED
        BY <4>2, <4>3
    <3>2. Pending' = 0
      BY <3>1, Rests DEF Pending, Fs
    <3>3. MakeInv'
      BY <1>1, <2>1, <2>2, <2>4, <2>5, <3>1, <3>2
      DEF SweepInv, MakeInv, NoMemory, Clean, Fs, diskVars, memVars
    <3>4. QED
      BY <2>1, <3>2, <3>3 DEF PhaseInv
  <2>6. CASE ~preserve
    <3>1. todo' = <<Fs("createTag"), Fs("writeTag"), Fs("mkTmp"), Fs("mkSha256"), Fs("mkKind")>>
      BY <2>1, <2>6 DEF MakeSteps
    <3>2. Pending' = 0
      BY <3>1, Rests DEF Pending, Fs
    <3>3. MakeInv'
      BY <1>1, <2>1, <2>2, <2>3, <2>4, <2>6, <3>1, <3>2
      DEF SweepInv, MakeInv, NoMemory, Clean, Fs, diskVars, memVars
    <3>4. QED
      BY <2>1, <3>2, <3>3 DEF PhaseInv
  <2>7. QED
    BY <2>5, <2>6
<1>8. QED
  BY <1>5, <1>6, <1>7

LEMMA MadeIInv == IInv /\ Made => IInv'
<1> SUFFICES ASSUME IInv, Made PROVE IInv'
  OBVIOUS
<1>1. /\ UNCHANGED diskVars /\ UNCHANGED memVars /\ UNCHANGED <<preserve, todo, threads, faulty>>
      /\ todo = <<>> /\ phase' = IF preserve THEN "files" ELSE "up"
  BY DEF Made
<1>2. Types /\ DirectoryInv /\ HeapInv /\ MakeInv
  BY DEF IInv, PhaseInv, Made
<1>3. Pending = 0 /\ Pending' = 0
  BY <1>1 DEF Pending
<1>4. Types' /\ DirectoryInv' /\ HeapInv'
  BY <1>1, <1>2, <1>3 DEF Types, DirectoryInv, HeapInv, diskVars, memVars
<1>5. Ready' /\ NoMemory /\ NoMemory'
  BY <1>1, <1>2, <1>3 DEF MakeInv, Ready, Clean, NoMemory, Fs, diskVars, memVars
<1>6. Tracked' = {} /\ Charged' = {} /\ bytes' = 0
  BY <1>5 DEF NoMemory, Tracked, Charged, Nothing
<1>7. (bytes = TotalSize(Tracked))' /\ (bytes = TotalSize(Charged))'
  BY <1>6, TotalSizeFacts
<1>8. CASE preserve
  <2>1. ReadInv'
    BY <1>5, <1>7 DEF ReadInv, NoMemory
  <2>2. FilesInv'
    BY <1>1, <1>6, <2>1 DEF FilesInv
  <2>3. QED
    BY <1>1, <1>4, <1>8, <2>2 DEF IInv, PhaseInv
<1>9. CASE ~preserve
  <2>1. \A d \in Digest : place[d] = "none" /\ sizeFile[d] = "none"
    BY <1>2, <1>9 DEF MakeInv
  <2>2. \A d \in Digest : Settled(d)'
    BY <1>1, <1>6, <2>1 DEF Settled, diskVars
  <2>3. Accounts'
    BY <1>4, <1>5, <1>6, <1>7 DEF Accounts, Types
  <2>4. RestInv'
    BY <1>1, <2>2 DEF RestInv
  <2>5. QED
    BY <1>1, <1>4, <1>5, <1>9, <2>3, <2>4 DEF IInv, PhaseInv, OpenInv, NoMemory
<1>10. QED
  BY <1>8, <1>9

LEMMA HeapGrows ==
  ASSUME Types, HeapInv, NEW d \in Digest, entry[d] # "inHeap",
         entry' = [entry EXCEPT ![d] = "inHeap"], heap' = Append(heap, d)
  PROVE  HeapInv' /\ heap' \in Seq(Digest)
<1>1. /\ heap \in Seq(Digest)
      /\ entry \in [Digest -> {"absent", "getting", "inUse", "inHeap"}]
  BY DEF Types
<1>2. /\ Len(heap') = Len(heap) + 1 /\ heap'[Len(heap) + 1] = d
      /\ \A i \in 1 .. Len(heap) : heap'[i] = heap[i]
      /\ DOMAIN heap = 1 .. Len(heap) /\ DOMAIN heap' = 1 .. Len(heap) + 1
      /\ Len(heap) \in Nat
  BY <1>1
<1>3. \A i \in 1 .. Len(heap) : heap[i] \in Digest /\ heap[i] # d /\ entry'[heap[i]] = "inHeap"
  BY <1>1, <1>2 DEF HeapInv
<1>4. entry'[d] = "inHeap"
  BY <1>1
<1>5. \A i \in 1 .. Len(heap) + 1 : i \in 1 .. Len(heap) \/ i = Len(heap) + 1
  BY <1>2
<1>6. QED
  BY <1>1, <1>2, <1>3, <1>4, <1>5 DEF HeapInv

LEMMA TrackFacts ==
  ASSUME Types, HeapInv, NEW d \in Digest, entry[d] = "absent", Track(d),
         bytes = TotalSize(Tracked)
  PROVE  /\ HeapInv' /\ heap' \in Seq(Digest)
         /\ entry' \in [Digest -> {"absent", "getting", "inUse", "inHeap"}] /\ bytes' \in Nat
         /\ Tracked' = Tracked \cup {d} /\ d \notin Tracked
         /\ (bytes = TotalSize(Tracked))'
         /\ \A e \in Digest : entry'[e] \in {entry[e], "inHeap"}
<1>1. /\ entry' = [entry EXCEPT ![d] = "inHeap"] /\ heap' = Append(heap, d)
      /\ bytes' = bytes + Size[d] /\ Size[d] \in Nat
  BY FilesAssumption DEF Track
<1>2. /\ heap \in Seq(Digest) /\ bytes \in Nat
      /\ entry \in [Digest -> {"absent", "getting", "inUse", "inHeap"}]
  BY DEF Types
<1>3. Tracked' = Tracked \cup {d} /\ d \notin Tracked /\ Tracked \subseteq Digest
  BY <1>1, <1>2 DEF Tracked
<1>4. TotalSize(Tracked \cup {d}) = bytes'
  BY <1>1, <1>3, TotalSizeFacts
<1>5. HeapInv' /\ heap' \in Seq(Digest)
  BY <1>1, HeapGrows
<1>6. QED
  BY <1>1, <1>2, <1>3, <1>4, <1>5

LEMMA ReadingIInv ==
  ASSUME IInv, NEW d \in Digest, ReadFile(d) \/ ReadOther(d) \/ ReadDirectory(d) \/ ReadHalf(d)
  PROVE  IInv'
<1>1. /\ UNCHANGED diskVars
      /\ UNCHANGED <<phase, preserve, doing, evicting, threads, faulty>>
      /\ todo = <<>> /\ Pending = 0 /\ phase \in {"files", "sizes"}
  BY DEF ReadFile, ReadOther, ReadDirectory, ReadHalf, memVars, Pending
<1>2. Types /\ DirectoryInv /\ HeapInv /\ ReadInv
  BY <1>1 DEF IInv, PhaseInv, FilesInv, SizesInv
<1>3. CASE ReadFile(d) \/ ReadDirectory(d)
  <2>1. todo' = <<>> /\ Pending' = 0 /\ entry[d] = "absent" /\ Track(d)
    BY <1>1, <1>3 DEF ReadFile, ReadDirectory, IsFile, IsDirectory, Pending
  <2>2. /\ HeapInv' /\ heap' \in Seq(Digest)
        /\ entry' \in [Digest -> {"absent", "getting", "inUse", "inHeap"}] /\ bytes' \in Nat
        /\ Tracked' = Tracked \cup {d} /\ d \notin Tracked
        /\ (bytes = TotalSize(Tracked))'
        /\ \A e \in Digest : entry'[e] \in {entry[e], "inHeap"}
    BY <1>2, <2>1, TrackFacts DEF ReadInv
  <2>3. Types' /\ DirectoryInv'
    BY <1>1, <1>2, <2>1, <2>2 DEF Types, DirectoryInv, diskVars
  <2>4. ReadInv'
    BY <1>1, <1>2, <2>1, <2>2 DEF ReadInv, Ready, Clean, diskVars
  <2>5. CASE ReadFile(d)
    <3>1. place[d] = "file" /\ phase = "files" /\ FilesInv
      BY <2>5 DEF ReadFile, IsFile, IInv, PhaseInv
    <3>2. FilesInv'
      BY <1>1, <2>1, <2>2, <2>4, <3>1 DEF FilesInv, diskVars
    <3>3. QED
      BY <1>1, <2>2, <2>3, <3>1, <3>2 DEF IInv, PhaseInv
  <2>6. CASE ReadDirectory(d)
    <3>1. place[d] = "dir" /\ sizeFile[d] = "full" /\ phase = "sizes" /\ SizesInv
      BY <2>6 DEF ReadDirectory, IsDirectory, IInv, PhaseInv
    <3>2. SizesInv'
      BY <1>1, <2>1, <2>2, <2>4, <3>1 DEF SizesInv, diskVars
    <3>3. QED
      BY <1>1, <2>2, <2>3, <3>1, <3>2 DEF IInv, PhaseInv
  <2>7. QED
    BY <1>3, <2>5, <2>6
<1>4. CASE ReadOther(d) \/ ReadHalf(d)
  <2>1. UNCHANGED <<entry, heap, bytes>>
    BY <1>4 DEF ReadOther, ReadHalf, memVars
  <2>2. Tracked' = Tracked
    BY <2>1 DEF Tracked
  <2>3. /\ \/ phase = "files" /\ todo' = <<FsOn("remove", d)>> /\ place[d] = "symlink"
           \/ phase = "files" /\ todo' = <<FsOn("removeSize", d)>> /\ sizeFile[d] # "none"
           \/ /\ phase = "sizes" /\ todo' = <<FsOn("trashDir", d), Fs("spawn")>>
              /\ place[d] = "dir" /\ sizeFile[d] = "none"
           \/ /\ phase = "sizes" /\ todo' = <<FsOn("removeSize", d)>>
              /\ place[d] # "dir" /\ sizeFile[d] = "full"
    BY <1>4 DEF ReadOther, Unreadable, ReadHalf, InBackground
  <2>4. Pending' = 0
    BY <2>3, Rests DEF Pending, FsOn
  <2>5. Types' /\ DirectoryInv' /\ HeapInv'
    BY <1>1, <1>2, <2>1, <2>4 DEF Types, DirectoryInv, HeapInv, diskVars
  <2>6. ReadInv'
    BY <1>1, <1>2, <2>1, <2>2, <2>4 DEF ReadInv, Ready, Clean, diskVars
  <2>7. CASE phase = "files"
    <3>1. FilesInv
      BY <2>7 DEF IInv, PhaseInv
    <3>2. FilesInv'
      BY <1>1, <2>2, <2>3, <2>6, <2>7, <3>1 DEF FilesInv, diskVars, Fs, FsOn
    <3>3. QED
      BY <1>1, <2>5, <2>7, <3>2 DEF IInv, PhaseInv
  <2>8. CASE phase = "sizes"
    <3>1. SizesInv
      BY <2>8 DEF IInv, PhaseInv
    <3>2. SizesInv'
      BY <1>1, <2>2, <2>3, <2>6, <2>8, <3>1 DEF SizesInv, diskVars, Fs, FsOn
    <3>3. QED
      BY <1>1, <2>5, <2>8, <3>2 DEF IInv, PhaseInv
  <2>9. QED
    BY <1>1, <2>7, <2>8
<1>5. QED
  BY <1>3, <1>4

LEMMA ReadIInv == IInv /\ (FilesRead \/ SizesRead) => IInv'
<1> SUFFICES ASSUME IInv, FilesRead \/ SizesRead PROVE IInv'
  OBVIOUS
<1>1. /\ UNCHANGED diskVars /\ UNCHANGED <<preserve, entry, heap, bytes, doing, threads, faulty>>
      /\ todo = <<>> /\ todo' = <<>> /\ evicting' \in BOOLEAN
  BY DEF FilesRead, SizesRead, memVars, IInv, Types
<1>2. Types /\ DirectoryInv /\ HeapInv
  BY DEF IInv
<1>3. Pending = 0 /\ Pending' = 0
  BY <1>1 DEF Pending
<1>4. Tracked' = Tracked
  BY <1>1 DEF Tracked
<1>5. Types' /\ DirectoryInv' /\ HeapInv'
  BY <1>1, <1>2, <1>3 DEF Types, DirectoryInv, HeapInv, diskVars
<1>6. CASE FilesRead
  <2>1. FilesInv /\ ReadInv /\ evicting' = evicting /\ phase' = "sizes"
    BY <1>6 DEF FilesRead, IInv, PhaseInv, FilesInv, memVars
  <2>2. ReadInv'
    BY <1>1, <1>3, <1>4, <2>1 DEF ReadInv, Ready, Clean, diskVars
  <2>3. \A d \in Digest : /\ place[d] # "symlink" /\ sizeFile[d] # "partial"
                          /\ place[d] = "file" => d \in Tracked
    BY <1>6, <2>1 DEF FilesRead, IsFile, Tracked, ReadInv
  <2>4. SizesInv'
    BY <1>1, <1>4, <2>1, <2>2, <2>3 DEF SizesInv, FilesInv, diskVars
  <2>5. QED
    BY <1>5, <2>1, <2>4 DEF IInv, PhaseInv
<1>7. CASE SizesRead
  <2>1. SizesInv /\ ReadInv /\ phase' = "shrink"
    BY <1>7 DEF SizesRead, IInv, PhaseInv, SizesInv
  <2>2. Charged' = Tracked
    BY <1>1, <1>4, <2>1 DEF Charged, ReadInv, Nothing
  <2>3. \A d \in Digest : /\ d \in Tracked => Whole(d)
                          /\ Settled(d)
    <3>1. \A d \in Digest : /\ ~IsDirectory(d) /\ (place[d] = "dir" <=> sizeFile[d] = "full")
                            /\ entry[d] \in {"absent", "inHeap"}
      BY <1>7, <2>1 DEF SizesRead, ReadInv
    <3>2. \A d \in Digest : /\ sizeFile[d] \in {"none", "partial", "full"}
                            /\ place[d] \in {"none", "dir", "file", "symlink"}
      BY <1>2 DEF Types
    <3>3. QED
      BY <1>2, <2>1, <3>1, <3>2 DEF SizesInv, IsDirectory, Tracked, Whole, Settled, DirectoryInv
  <2>4. \A d \in Digest : Settled(d)' /\ (d \in Tracked => Whole(d)')
    BY <1>1, <1>4, <2>3 DEF Settled, Whole, diskVars
  <2>5. TotalSize(Tracked) <= bytes /\ bytes = TotalSize(Tracked)
    BY <1>2, <2>1 DEF ReadInv, Types
  <2>6. Accounts'
    <3>1. Ready'
      BY <1>1, <1>3, <2>1 DEF ReadInv, Ready, Clean, diskVars
    <3>2. (TotalSize(Charged) <= bytes)' /\ (bytes = TotalSize(Charged))'
      BY <1>1, <2>2, <2>5
    <3>3. (\A d \in Tracked : Whole(d))'
      BY <1>4, <2>4 DEF Tracked
    <3>4. QED
      BY <3>1, <3>2, <3>3 DEF Accounts
  <2>7. RestInv'
    BY <1>1, <2>4 DEF RestInv
  <2>8. QED
    BY <1>1, <1>5, <2>1, <2>6, <2>7 DEF IInv, PhaseInv, OpenInv, ReadInv
<1>8. QED
  BY <1>6, <1>7

(***************************************************************************)
(* The handlers of an open cache.                                          *)
(***************************************************************************)
LEMMA HeapRemoval ==
  ASSUME Types, HeapInv, NEW i \in DOMAIN heap, heap' = RemoveAt(heap, i),
         \A d \in Digest : entry'[d] # "inHeap" => entry[d] # "inHeap" \/ d = heap[i]
  PROVE  HeapInv' /\ heap' \in Seq(Digest)
<1>1. /\ heap \in Seq(Digest) /\ Len(heap) \in Nat /\ DOMAIN heap = 1 .. Len(heap)
      /\ i \in 1 .. Len(heap)
  BY DEF Types
<1> DEFINE a == SubSeq(heap, 1, i - 1)
           b == SubSeq(heap, i + 1, Len(heap))
<1>2. /\ a \in Seq(Digest) /\ Len(a) = i - 1 /\ \A j \in 1 .. i - 1 : a[j] = heap[j]
      /\ b \in Seq(Digest) /\ Len(b) = Len(heap) - i
      /\ \A j \in 1 .. Len(heap) - i : b[j] = heap[i + j]
  <2>1. /\ a \in Seq(Digest) /\ Len(a) = IF 1 <= i - 1 THEN i - 1 - 1 + 1 ELSE 0
        /\ \A j \in 1 .. i - 1 - 1 + 1 : a[j] = heap[1 + j - 1]
    <3>1. \A j \in 1 .. i - 1 : heap[j] \in Digest
      BY <1>1
    <3>2. QED
      BY <1>1, <3>1, SubSeqProperties
  <2>2. /\ b \in Seq(Digest)
        /\ Len(b) = IF i + 1 <= Len(heap) THEN Len(heap) - (i + 1) + 1 ELSE 0
        /\ \A j \in 1 .. Len(heap) - (i + 1) + 1 : b[j] = heap[i + 1 + j - 1]
    <3>1. \A j \in i + 1 .. Len(heap) : heap[j] \in Digest
      BY <1>1
    <3>2. QED
      BY <1>1, <3>1, SubSeqProperties
  <2> HIDE DEF a, b
  <2>3. Len(a) = i - 1 /\ \A j \in 1 .. i - 1 : a[j] = heap[j]
    BY <1>1, <2>1
  <2>4. Len(b) = Len(heap) - i /\ \A j \in 1 .. Len(heap) - i : b[j] = heap[i + j]
    <3>1. Len(b) = Len(heap) - i
      BY <1>1, <2>2
    <3>2. ASSUME NEW j \in 1 .. Len(heap) - i PROVE b[j] = heap[i + j]
      <4>1. Len(heap) - (i + 1) + 1 = Len(heap) - i /\ i + 1 + j - 1 = i + j
        BY <1>1
      <4>2. QED
        BY <2>2, <4>1
    <3>3. QED
      BY <3>1, <3>2
  <2>5. QED
    BY <2>1, <2>2, <2>3, <2>4
<1>3. heap' = a \o b
  BY DEF RemoveAt
<1>4. /\ heap' \in Seq(Digest) /\ DOMAIN heap' = 1 .. Len(heap) - 1
      /\ \A j \in 1 .. Len(heap) - 1 : heap'[j] = heap[IF j < i THEN j ELSE j + 1]
  <2> HIDE DEF a, b
  <2>1. a \o b \in Seq(Digest) /\ Len(a \o b) = Len(heap) - 1
    <3>1. a \o b \in Seq(Digest) /\ Len(a \o b) = Len(a) + Len(b)
      BY <1>2, ConcatProperties
    <3>2. (i - 1) + (Len(heap) - i) = Len(heap) - 1
      BY <1>1
    <3>3. QED
      BY <1>2, <3>1, <3>2
  <2>2. ASSUME NEW j \in 1 .. Len(heap) - 1
        PROVE  (a \o b)[j] = heap[IF j < i THEN j ELSE j + 1]
    <3>1. CASE j < i
      BY <1>1, <1>2, <3>1
    <3>2. CASE j >= i
      <4>1. (a \o b)[j] = b[j - Len(a)]
        <5>1. j \in 1 .. Len(a) + Len(b) /\ ~(j <= Len(a))
          BY <1>1, <1>2, <3>2
        <5>2. QED
          BY <1>2, <5>1, ConcatProperties
      <4>2. j - (i - 1) \in 1 .. Len(heap) - i
        BY <1>1, <3>2
      <4>3. b[j - (i - 1)] = heap[i + (j - (i - 1))]
        BY <1>2, <4>2
      <4>4. i + (j - (i - 1)) = j + 1
        BY <1>1
      <4>5. QED
        BY <1>1, <1>2, <3>2, <4>1, <4>3, <4>4
    <3>3. j < i \/ j >= i
      BY <1>1
    <3>4. QED
      BY <3>1, <3>2, <3>3
  <2>3. DOMAIN (a \o b) = 1 .. Len(heap) - 1
    BY <2>1
  <2>4. QED
    BY <1>3, <2>1, <2>2, <2>3
<1>5. ASSUME NEW j \in DOMAIN heap'
      PROVE  entry'[heap'[j]] = "inHeap"
  <2>1. PICK k \in DOMAIN heap : k # i /\ heap'[j] = heap[k]
    BY <1>1, <1>4
  <2>2. heap[k] # heap[i] /\ entry[heap[k]] = "inHeap" /\ heap[k] \in Digest
    BY <1>1, <2>1 DEF HeapInv
  <2>3. QED
    BY <2>1, <2>2
<1>6. ASSUME NEW j \in DOMAIN heap', NEW k \in DOMAIN heap', heap'[j] = heap'[k]
      PROVE  j = k
  <2>1. /\ (IF j < i THEN j ELSE j + 1) \in DOMAIN heap
        /\ (IF k < i THEN k ELSE k + 1) \in DOMAIN heap
    BY <1>1, <1>4
  <2>2. (IF j < i THEN j ELSE j + 1) = (IF k < i THEN k ELSE k + 1)
    BY <1>4, <1>6, <2>1 DEF HeapInv
  <2>3. QED
    BY <1>1, <1>4, <2>2
<1>7. QED
  BY <1>4, <1>5, <1>6 DEF HeapInv

LEMMA NothingIsDone ==
  ASSUME IInv, phase \in {"shrink", "up"}, doing = Nothing
  PROVE  Types /\ DirectoryInv /\ HeapInv /\ Accounts /\ RestInv /\ Charged = Tracked
<1>1. Types /\ DirectoryInv /\ HeapInv /\ OpenInv
  BY DEF IInv, PhaseInv
<1>2. /\ \A d : doing # [kind |-> "store", d |-> d]
      /\ \A d : doing # [kind |-> "evict", d |-> d]
  BY DEF Nothing
<1>3. QED
  BY <1>1, <1>2 DEF OpenInv, Charged

\* A step that leaves the directory and what is tracked as they are.
LEMMA RestStays ==
  ASSUME IInv, phase \in {"shrink", "up"}, phase' \in {"shrink", "up"},
         todo = <<>>, doing = Nothing, UNCHANGED diskVars, UNCHANGED <<bytes, doing, threads, faulty>>,
         todo' \in {<<>>, <<Fs("dispose"), Fs("spawn")>>, <<Fs("dispose"), Fs("removeDisposed")>>},
         preserve' \in BOOLEAN, evicting' \in BOOLEAN,
         entry' \in [Digest -> {"absent", "getting", "inUse", "inHeap"}],
         HeapInv', heap' \in Seq(Digest), Tracked' = Tracked
  PROVE  IInv'
<1>1. Types /\ DirectoryInv /\ HeapInv /\ Accounts /\ RestInv /\ Charged = Tracked
  BY NothingIsDone
<1>2. Pending = 0 /\ Pending' = 0
  <2>1. Pending = 0
    BY DEF Pending
  <2>2. CASE todo' = <<>>
    BY <2>2 DEF Pending
  <2>3. ASSUME NEW op, todo' = <<Fs("dispose"), Fs(op)>>
        PROVE  Pending' = 0
    BY <2>3, Rests DEF Pending, Fs
  <2>4. QED
    BY <2>1, <2>2, <2>3
<1>3. Types' /\ DirectoryInv'
  BY <1>1, <1>2 DEF Types, DirectoryInv, diskVars
<1>4. Charged' = Charged
  BY <1>1 DEF Charged, Nothing
<1>5. \A d \in Digest : (Settled(d) => Settled(d)') /\ (Whole(d) => Whole(d)')
  BY DEF Settled, Whole, diskVars
<1>6. Accounts'
  <2>1. (~faulty => Ready)'
    BY <1>1, <1>2 DEF Accounts, Ready, Clean, diskVars
  <2>2. (\A d \in Tracked : Whole(d))'
    <3>1. \A d \in Tracked : d \in Digest /\ Whole(d)
      BY <1>1 DEF Accounts, Tracked
    <3>2. QED
      BY <1>5, <3>1
  <2>3. QED
    BY <1>1, <1>4, <2>1, <2>2 DEF Accounts
<1>7. RestInv'
  BY <1>1, <1>5 DEF RestInv, Fs
<1>8. QED
  BY <1>3, <1>6, <1>7 DEF IInv, PhaseInv, OpenInv

LEMMA RestingIInv ==
  ASSUME IInv, \/ \E d \in Digest : GetArtifact(d) \/ GiveUp(d) \/ Release(d)
               \/ Dispose \/ EvictionEnds
  PROVE  IInv'
<1>1. Types /\ HeapInv
  BY DEF IInv
<1>2. /\ phase \in {"shrink", "up"} /\ phase' \in {"shrink", "up"}
      /\ todo = <<>> /\ doing = Nothing
      /\ UNCHANGED diskVars /\ UNCHANGED <<bytes, doing, threads, faulty>>
      /\ todo' \in {<<>>, <<Fs("dispose"), Fs("spawn")>>, <<Fs("dispose"), Fs("removeDisposed")>>}
      /\ preserve' \in BOOLEAN /\ evicting' \in BOOLEAN
  <2>1. CASE \E d \in Digest : GetArtifact(d) \/ GiveUp(d) \/ Release(d)
    BY <1>1, <2>1 DEF GetArtifact, GiveUp, Release, AtRest, Types
  <2>2. CASE Dispose
    BY <1>1, <2>2 DEF Dispose, AtRest, Types, InBackground, memVars
  <2>3. CASE EvictionEnds
    BY <1>1, <2>3 DEF EvictionEnds, IInv, PhaseInv, DownInv, EnsureInv, SweepInv, MakeInv,
                      FilesInv, SizesInv, ReadInv, NoMemory
  <2>4. QED
    BY <2>1, <2>2, <2>3
<1>3. /\ entry' \in [Digest -> {"absent", "getting", "inUse", "inHeap"}]
      /\ HeapInv' /\ heap' \in Seq(Digest) /\ Tracked' = Tracked
  <2>1. ASSUME NEW d \in Digest, GetArtifact(d)
        PROVE  /\ entry' \in [Digest -> {"absent", "getting", "inUse", "inHeap"}]
               /\ HeapInv' /\ heap' \in Seq(Digest) /\ Tracked' = Tracked
    <3>1. CASE entry[d] = "absent" /\ entry' = [entry EXCEPT ![d] = "getting"] /\ heap' = heap
      BY <1>1, <3>1 DEF Types, HeapInv, Tracked
    <3>2. ASSUME entry[d] = "inHeap", entry' = [entry EXCEPT ![d] = "inUse"],
                 NEW i \in DOMAIN heap, heap[i] = d, heap' = RemoveAt(heap, i)
          PROVE  /\ entry' \in [Digest -> {"absent", "getting", "inUse", "inHeap"}]
                 /\ HeapInv' /\ heap' \in Seq(Digest) /\ Tracked' = Tracked
      BY <1>1, <3>2, HeapRemoval DEF Types, Tracked
    <3>3. QED
      BY <2>1, <3>1, <3>2 DEF GetArtifact
  <2>2. ASSUME NEW d \in Digest, GiveUp(d)
        PROVE  /\ entry' \in [Digest -> {"absent", "getting", "inUse", "inHeap"}]
               /\ HeapInv' /\ heap' \in Seq(Digest) /\ Tracked' = Tracked
    BY <1>1, <2>2 DEF GiveUp, Types, HeapInv, Tracked
  <2>3. ASSUME NEW d \in Digest, Release(d)
        PROVE  /\ entry' \in [Digest -> {"absent", "getting", "inUse", "inHeap"}]
               /\ HeapInv' /\ heap' \in Seq(Digest) /\ Tracked' = Tracked
    BY <1>1, <2>3, HeapGrows DEF Release, Types, Tracked
  <2>4. CASE Dispose \/ EvictionEnds
    BY <1>1, <2>4 DEF Dispose, EvictionEnds, memVars, Types, HeapInv, Tracked
  <2>5. QED
    BY <2>1, <2>2, <2>3, <2>4
<1>4. QED
  BY <1>2, <1>3, RestStays

LEMMA StoreIInv ==
  ASSUME IInv, NEW d \in Digest, NEW type \in {"dir", "file", "symlink"}, Store(d, type)
  PROVE  IInv'
<1>1. /\ phase = "up" /\ phase' = "up" /\ todo = <<>> /\ doing = Nothing
      /\ UNCHANGED diskVars
      /\ UNCHANGED <<preserve, entry, heap, bytes, evicting, threads, faulty>>
      /\ entry[d] = "getting" /\ (type = "dir" <=> d \in Dir)
      /\ doing' = [kind |-> "store", d |-> d] /\ todo' = StoreSteps(d, type)
  BY DEF Store, AtRest
<1>2. Types /\ DirectoryInv /\ HeapInv /\ Accounts /\ RestInv /\ Charged = Tracked
  BY <1>1, NothingIsDone
<1>3. \/ /\ d \in Dir
         /\ todo' = <<FsOn("createSize", d), FsOn("writeSize", d), FsOn("moveIn", d)>>
      \/ /\ d \notin Dir
         /\ \/ todo' = <<FsOn("putFile", d), Fs("metadata")>>
            \/ todo' = <<FsOn("putSymlink", d), Fs("metadata")>>
  <2>1. CASE type = "dir"
    BY <1>1, <2>1 DEF StoreSteps
  <2>2. CASE type = "file"
    BY <1>1, <2>2 DEF StoreSteps
  <2>3. CASE type = "symlink"
    BY <1>1, <2>3 DEF StoreSteps
  <2>4. QED
    BY <2>1, <2>2, <2>3
<1>4. Pending = 0 /\ Pending' = 0
  <2>1. Pending = 0
    BY <1>1 DEF Pending
  <2>2. todo' # <<>> /\ Head(todo').op \in {"createSize", "putFile", "putSymlink"}
    BY <1>3, Rests DEF FsOn
  <2>3. QED
    BY <2>1, <2>2 DEF Pending
<1>5. Types' /\ DirectoryInv' /\ HeapInv'
  BY <1>1, <1>2, <1>4 DEF Types, DirectoryInv, HeapInv, diskVars
<1>6. d \notin Tracked /\ Tracked' = Tracked /\ Charged' = Charged
  BY <1>1, <1>2 DEF Tracked, Charged
<1>7. Accounts'
  BY <1>1, <1>2, <1>4, <1>6, OthersKept DEF Accounts, Ready, Clean, diskVars
<1>8. ~faulty => /\ \A e \in Digest \ {d} : Settled(e)
                 /\ place[d] = "none" /\ sizeFile[d] = "none"
  BY <1>2, <1>6 DEF RestInv, Settled
<1>9. StoreTodo(d)'
  BY <1>1, <1>3, <1>8 DEF StoreTodo, Fs, FsOn, diskVars
<1>10. ~faulty => (\A e \in Digest \ {d} : Settled(e))'
  BY <1>1, <1>6, <1>8, OthersKept DEF diskVars
<1>11. StoreInv(d)'
  BY <1>1, <1>9, <1>10 DEF StoreInv
<1>12. QED
  BY <1>1, <1>5, <1>7, <1>11 DEF IInv, PhaseInv, OpenInv

LEMMA SomethingIsDone ==
  ASSUME IInv, NEW kind \in {"store", "evict"}, doing.kind = kind
  PROVE  /\ phase \in {"shrink", "up"} /\ Types /\ DirectoryInv /\ HeapInv /\ Accounts
         /\ \E d \in Digest :
              /\ doing = [kind |-> kind, d |-> d]
              /\ IF kind = "store" THEN phase = "up" /\ StoreInv(d) ELSE EvictInv(d)
<1>1. doing # Nothing
  BY DEF Nothing
<1>2. phase \in {"shrink", "up"} /\ OpenInv
  BY <1>1 DEF IInv, PhaseInv, DownInv, EnsureInv, SweepInv, MakeInv, FilesInv, SizesInv,
              ReadInv, NoMemory
<1>3. QED
  BY <1>1, <1>2 DEF IInv, OpenInv

LEMMA StoredIInv == IInv /\ Stored => IInv'
<1> SUFFICES ASSUME IInv, Stored PROVE IInv'
  OBVIOUS
<1>1. /\ Types /\ DirectoryInv /\ HeapInv /\ Accounts
  BY SomethingIsDone DEF Stored
<1>2. PICK d \in Digest : phase = "up" /\ doing = [kind |-> "store", d |-> d] /\ StoreInv(d)
  BY SomethingIsDone DEF Stored
<1>3. /\ todo = <<>> /\ todo' = <<>> /\ phase' = "up"
      /\ entry' = [entry EXCEPT ![d] = "inUse"] /\ bytes' = bytes + Size[d]
      /\ doing' = Nothing /\ evicting' = TRUE
      /\ UNCHANGED diskVars /\ UNCHANGED <<preserve, heap, threads, faulty>>
      /\ entry[d] = "getting"
  BY <1>2 DEF Stored, StoreInv
<1>4. Pending = 0 /\ Pending' = 0 /\ Size[d] \in Nat
  BY <1>3, FilesAssumption DEF Pending
<1>5. Types' /\ DirectoryInv' /\ HeapInv'
  BY <1>1, <1>3, <1>4 DEF Types, DirectoryInv, HeapInv, diskVars
<1>6. /\ d \notin Tracked /\ Tracked \subseteq Digest /\ Tracked' = Tracked \cup {d}
      /\ Charged = Tracked /\ Charged' = Tracked \cup {d}
  <2>1. d \notin Tracked /\ Tracked \subseteq Digest /\ Tracked' = Tracked \cup {d}
    BY <1>1, <1>3 DEF Tracked, Types
  <2>2. QED
    BY <1>2, <1>3, <2>1 DEF Charged, Nothing
<1>7. Whole(d) /\ (~faulty => Settled(d)')
  <2>1. Whole(d) /\ (d \notin Dir /\ ~faulty => sizeFile[d] = "none")
    BY <1>2, <1>3, Rests DEF StoreInv, StoreTodo
  <2>2. QED
    BY <1>1, <1>3, <1>6, <2>1 DEF Whole, Settled, diskVars
<1>8. Accounts'
  <2>1. (~faulty => Ready)'
    BY <1>1, <1>3, <1>4 DEF Accounts, Ready, Clean, diskVars
  <2>2. (\A e \in Tracked : Whole(e))'
    BY <1>1, <1>3, <1>6, <1>7 DEF Accounts, Whole, diskVars
  <2>3. TotalSize(Tracked \cup {d}) = TotalSize(Tracked) + Size[d] /\ TotalSize(Tracked) \in Nat
    BY <1>6, TotalSizeFacts
  <2>4. (TotalSize(Charged) <= bytes)' /\ (~faulty => bytes = TotalSize(Charged))'
    BY <1>1, <1>3, <1>4, <1>6, <2>3 DEF Accounts, Types
  <2>5. QED
    BY <2>1, <2>2, <2>4 DEF Accounts
<1>9. ~faulty => \A e \in Digest \ {d} : Settled(e)'
  BY <1>2, <1>3, <1>6 DEF StoreInv, Settled, diskVars
<1>10. RestInv'
  BY <1>3, <1>7, <1>9 DEF RestInv
<1>11. QED
  BY <1>3, <1>5, <1>8, <1>10 DEF IInv, PhaseInv, OpenInv

LEMMA EvictIInv == IInv /\ Evict => IInv'
<1> SUFFICES ASSUME IInv, Evict PROVE IInv'
  OBVIOUS
<1>1. /\ evicting /\ todo = <<>> /\ doing = Nothing /\ heap # <<>>
      /\ UNCHANGED diskVars
      /\ UNCHANGED <<phase, preserve, bytes, evicting, threads, faulty>>
  BY DEF Evict
<1>2. phase \in {"shrink", "up"}
  BY <1>1 DEF IInv, PhaseInv, DownInv, EnsureInv, SweepInv, MakeInv, FilesInv, SizesInv,
              ReadInv, NoMemory
<1>3. Types /\ DirectoryInv /\ HeapInv /\ Accounts /\ RestInv /\ Charged = Tracked
  BY <1>1, <1>2, NothingIsDone
<1>4. PICK d \in Digest :
        /\ d = Head(heap) /\ entry[d] = "inHeap"
        /\ heap' = Tail(heap) /\ entry' = [entry EXCEPT ![d] = "absent"]
        /\ doing' = [kind |-> "evict", d |-> d] /\ todo' = EvictSteps(d)
  <2>1. Head(heap) = heap[1] /\ heap[1] \in Digest /\ 1 \in DOMAIN heap
    BY <1>1, <1>3 DEF Types
  <2>2. entry[heap[1]] = "inHeap"
    BY <1>3, <2>1 DEF HeapInv
  <2>3. QED
    BY <2>1, <2>2 DEF Evict
<1>5. HeapInv' /\ heap' \in Seq(Digest)
  <2>1. /\ heap \in Seq(Digest) /\ Len(heap) \in Nat /\ d = heap[1]
        /\ DOMAIN heap = 1 .. Len(heap) /\ 1 \in DOMAIN heap
        /\ heap' \in Seq(Digest) /\ DOMAIN heap' = 1 .. Len(heap) - 1
        /\ \A i \in 1 .. Len(heap) - 1 : heap'[i] = heap[i + 1]
    BY <1>1, <1>3, <1>4 DEF Types
  <2>2. \A i \in 1 .. Len(heap) - 1 : i + 1 \in DOMAIN heap /\ i + 1 # 1 /\ heap[i + 1] \in Digest
    BY <2>1
  <2>3. \A i \in 1 .. Len(heap) - 1 : entry[heap[i + 1]] = "inHeap" /\ heap[i + 1] # d
    BY <1>3, <2>1, <2>2 DEF HeapInv
  <2>4. \A i \in DOMAIN heap' : entry'[heap'[i]] = "inHeap"
    BY <1>3, <1>4, <2>1, <2>2, <2>3 DEF Types
  <2>5. \A i, j \in DOMAIN heap' : heap'[i] = heap'[j] => i = j
    BY <1>3, <2>1, <2>2 DEF HeapInv
  <2>6. QED
    BY <2>1, <2>4, <2>5 DEF HeapInv
<1>6. \/ /\ todo' = <<FsOn("trashDir", d), Fs("spawn"), FsOn("removeSize", d)>>
         /\ place[d] = "dir"
      \/ todo' = <<FsOn("remove", d)>> /\ place[d] # "dir"
  <2>1. CASE place[d] = "dir"
    <3>1. todo' = <<FsOn("trashDir", d), Fs("spawn")>> \o <<FsOn("removeSize", d)>>
      BY <1>4, <2>1 DEF EvictSteps, InBackground
    <3>2. \A x, y, z : <<x, y>> \o <<z>> = <<x, y, z>>
      BY TwoAndOne
    <3>3. QED
      BY <2>1, <3>1, <3>2
  <2>2. CASE place[d] # "dir"
    BY <1>4, <2>2 DEF EvictSteps
  <2>3. QED
    BY <2>1, <2>2
<1>7. Pending = 0 /\ Pending' = 0
  <2>1. Pending = 0
    BY <1>1 DEF Pending
  <2>2. todo' # <<>> /\ Head(todo').op \in {"trashDir", "remove"}
    BY <1>6, Rests DEF FsOn
  <2>3. QED
    BY <2>1, <2>2 DEF Pending
<1>8. Types' /\ DirectoryInv'
  BY <1>1, <1>3, <1>4, <1>5, <1>7 DEF Types, DirectoryInv, diskVars
<1>9. d \in Tracked /\ Tracked' = Tracked \ {d} /\ Charged' = Charged
  <2>1. d \in Tracked /\ Tracked' = Tracked \ {d}
    BY <1>1, <1>3, <1>4 DEF Tracked, Types
  <2>2. {e \in Digest : doing' = [kind |-> "evict", d |-> e]} = {d}
    BY <1>1, <1>4
  <2>3. QED
    BY <1>3, <2>1, <2>2 DEF Charged
<1>10. Accounts'
  <2>1. (~faulty => Ready)'
    BY <1>1, <1>3, <1>7 DEF Accounts, Ready, Clean, diskVars
  <2>2. (\A e \in Tracked : Whole(e))'
    BY <1>1, <1>3, <1>9 DEF Accounts, Whole, diskVars
  <2>3. QED
    BY <1>1, <1>3, <1>9, <2>1, <2>2 DEF Accounts
<1>11. ~faulty => \A e \in Digest \ {d} : Settled(e)'
  BY <1>1, <1>3, <1>9 DEF RestInv, Settled, diskVars
<1>12. Whole(d) /\ (~faulty => Settled(d))
  BY <1>3, <1>4, <1>9 DEF Accounts, RestInv
<1>13. EvictTodo(d)'
  <2>1. /\ place[d] = "dir" => sizeFile[d] = "full"
        /\ place[d] # "dir" => place[d] \in {"file", "symlink"} /\ (~faulty => sizeFile[d] = "none")
    BY <1>12 DEF Whole, Settled
  <2>2. QED
    BY <1>1, <1>6, <2>1 DEF EvictTodo, Fs, FsOn, diskVars
<1>14. EvictInv(d)'
  BY <1>1, <1>3, <1>4, <1>11, <1>13 DEF EvictInv, Types
<1>15. QED
  BY <1>1, <1>2, <1>4, <1>5, <1>8, <1>10, <1>14 DEF IInv, PhaseInv, OpenInv

LEMMA EvictedIInv == IInv /\ Evicted => IInv'
<1> SUFFICES ASSUME IInv, Evicted PROVE IInv'
  OBVIOUS
<1>1. phase \in {"shrink", "up"} /\ Types /\ DirectoryInv /\ HeapInv /\ Accounts
  BY SomethingIsDone DEF Evicted
<1>2. PICK d \in Digest : doing = [kind |-> "evict", d |-> d] /\ EvictInv(d)
  BY SomethingIsDone DEF Evicted
<1>3. /\ todo = <<>> /\ todo' = <<>> /\ doing' = Nothing /\ bytes' = bytes - Size[d]
      /\ UNCHANGED diskVars
      /\ UNCHANGED <<phase, preserve, entry, heap, evicting, threads, faulty>>
  BY <1>2 DEF Evicted
<1>4. Pending = 0 /\ Pending' = 0 /\ Size[d] \in Nat
  BY <1>3, FilesAssumption DEF Pending
<1>5. /\ d \notin Tracked /\ Tracked \subseteq Digest /\ Tracked' = Tracked
      /\ Charged = Tracked \cup {d} /\ Charged' = Tracked
  <2>1. d \notin Tracked /\ Tracked \subseteq Digest /\ Tracked' = Tracked
    BY <1>2, <1>3 DEF Tracked, EvictInv
  <2>2. {e \in Digest : doing = [kind |-> "evict", d |-> e]} = {d}
    BY <1>2
  <2>3. QED
    BY <1>3, <2>1, <2>2 DEF Charged, Nothing
<1>6. TotalSize(Charged) = TotalSize(Tracked) + Size[d] /\ TotalSize(Tracked) \in Nat
  BY <1>5, TotalSizeFacts
<1>7. /\ bytes' \in Nat /\ TotalSize(Tracked) <= bytes'
      /\ ~faulty => bytes' = TotalSize(Tracked)
  BY <1>1, <1>3, <1>4, <1>6 DEF Accounts, Types
<1>8. Types' /\ DirectoryInv' /\ HeapInv'
  BY <1>1, <1>3, <1>4, <1>7 DEF Types, DirectoryInv, HeapInv, diskVars
<1>9. Accounts'
  <2>1. (~faulty => Ready)'
    BY <1>1, <1>3, <1>4 DEF Accounts, Ready, Clean, diskVars
  <2>2. (\A e \in Tracked : Whole(e))'
    BY <1>1, <1>3, <1>5 DEF Accounts, Whole, diskVars
  <2>3. QED
    BY <1>3, <1>5, <1>7, <2>1, <2>2 DEF Accounts
<1>10. ~faulty => \A e \in Digest : Settled(e)'
  <2>1. ~faulty => place[d] = "none" /\ sizeFile[d] = "none"
    BY <1>2, <1>3, Rests DEF EvictInv, EvictTodo
  <2>2. QED
    BY <1>2, <1>3, <1>5, <2>1 DEF EvictInv, Settled, diskVars
<1>11. RestInv'
  BY <1>3, <1>10 DEF RestInv
<1>12. QED
  BY <1>1, <1>3, <1>8, <1>9, <1>11 DEF IInv, PhaseInv, OpenInv

(***************************************************************************)
(* What goes wrong, and the threads.                                       *)
(***************************************************************************)
LEMMA FailIInv == IInv /\ Fail => IInv'
<1> SUFFICES ASSUME IInv, Fail PROVE IInv'
  OBVIOUS
<1>1. /\ phase = "up" /\ phase' = "up" /\ faulty' = TRUE
      /\ todo' = <<>> /\ doing' = Nothing /\ evicting' = FALSE
      /\ entry' = IF doing.kind = "store" THEN [entry EXCEPT ![doing.d] = "absent"] ELSE entry
      /\ UNCHANGED diskVars /\ UNCHANGED <<preserve, heap, bytes, threads>>
  BY DEF Fail
<1>2. Types /\ DirectoryInv /\ HeapInv /\ OpenInv /\ Accounts
  BY <1>1 DEF IInv, PhaseInv, OpenInv
<1>3. /\ entry' \in [Digest -> {"absent", "getting", "inUse", "inHeap"}]
      /\ Tracked' = Tracked /\ HeapInv'
  <2>1. CASE doing.kind = "store"
    <3>1. PICK d \in Digest : doing = [kind |-> "store", d |-> d] /\ entry[d] = "getting"
      BY <2>1, SomethingIsDone DEF StoreInv
    <3>2. entry' = [entry EXCEPT ![d] = "absent"]
      BY <1>1, <3>1
    <3>3. QED
      BY <1>1, <1>2, <3>1, <3>2 DEF Types, Tracked, HeapInv
  <2>2. CASE doing.kind # "store"
    BY <1>1, <1>2, <2>2 DEF Types, Tracked, HeapInv
  <2>3. QED
    BY <2>1, <2>2
<1>4. Pending' = 0 /\ Pending \in Nat
  BY <1>1 DEF Pending
<1>5. Types' /\ DirectoryInv'
  <2>1. Types'
    BY <1>1, <1>2, <1>3, <1>4 DEF Types, diskVars
  <2>2. threads' + Pending' <= trash'
    BY <1>1, <1>2, <1>3, <1>4 DEF Types, DirectoryInv, diskVars
  <2>3. QED
    BY <1>1, <1>2, <2>1, <2>2 DEF DirectoryInv, diskVars
<1>6. Charged' = Tracked /\ Tracked \subseteq Charged /\ Charged \in SUBSET Digest
  <2>1. Charged' = Tracked
    BY <1>1, <1>3 DEF Charged, Nothing
  <2>2. QED
    BY <2>1 DEF Charged, Tracked
<1>7. TotalSize(Tracked) <= bytes
  <2>1. /\ TotalSize(Tracked) \in Nat /\ TotalSize(Charged) \in Nat
        /\ TotalSize(Tracked) <= TotalSize(Charged)
    BY <1>6, TotalSizeFacts
  <2>2. QED
    BY <1>2, <2>1 DEF Accounts, Types
<1>8. Accounts'
  <2>1. (\A d \in Tracked : Whole(d))'
    BY <1>1, <1>2, <1>3 DEF Accounts, Whole, diskVars
  <2>2. QED
    BY <1>1, <1>6, <1>7, <2>1 DEF Accounts
<1>9. RestInv'
  BY <1>1 DEF RestInv
<1>10. QED
  BY <1>1, <1>3, <1>5, <1>8, <1>9 DEF IInv, PhaseInv, OpenInv

LEMMA CrashIInv == IInv /\ Crash => IInv'
<1> SUFFICES ASSUME IInv, Crash PROVE IInv'
  OBVIOUS
<1>1. /\ phase' = "down" /\ preserve' = FALSE /\ threads' = 0 /\ todo' = <<>>
      /\ entry' = [d \in Digest |-> "absent"] /\ heap' = <<>> /\ bytes' = 0
      /\ doing' = Nothing /\ evicting' = FALSE /\ faulty' = FALSE /\ UNCHANGED diskVars
  BY DEF Crash, Stop
<1>2. Types /\ DirectoryInv
  BY DEF IInv
<1>3. Pending' = 0
  BY <1>1 DEF Pending
<1>4. heap' \in Seq(Digest) /\ entry' \in [Digest -> {"absent", "getting", "inUse", "inHeap"}]
  BY <1>1
<1>5. Types' /\ DirectoryInv'
  <2>1. Types'
    BY <1>1, <1>2, <1>3, <1>4 DEF Types, diskVars
  <2>2. threads' + Pending' <= trash'
    BY <1>1, <1>2, <1>3, <1>4 DEF Types, DirectoryInv, diskVars
  <2>3. QED
    BY <1>1, <1>2, <2>1, <2>2 DEF DirectoryInv, diskVars
<1>6. HeapInv' /\ DownInv'
  BY <1>1 DEF HeapInv, DownInv, NoMemory
<1>7. QED
  BY <1>1, <1>5, <1>6 DEF IInv, PhaseInv

LEMMA ThreadEndsIInv == IInv /\ ThreadEnds => IInv'
<1> SUFFICES ASSUME IInv, ThreadEnds PROVE IInv'
  OBVIOUS
<1>1. /\ threads > 0 /\ threads' = threads - 1 /\ trash' = trash - 1
      /\ UNCHANGED <<tag, removing, retired, dirs, place, sizeFile>>
      /\ UNCHANGED <<phase, preserve, entry, heap, bytes, doing, evicting, todo, faulty>>
  BY DEF ThreadEnds, memVars
<1>2. Types /\ DirectoryInv /\ HeapInv /\ PhaseInv
  BY DEF IInv
<1>3. Pending' = Pending /\ Pending \in Nat
  BY <1>1 DEF Pending
<1>4. Types' /\ DirectoryInv' /\ HeapInv'
  BY <1>1, <1>2, <1>3 DEF Types, DirectoryInv, HeapInv
<1>5. Tracked' = Tracked /\ Charged' = Charged
  BY <1>1 DEF Tracked, Charged
<1>6. (Clean => Clean') /\ (Ready => Ready')
  BY <1>1, <1>2, <1>3 DEF Clean, Ready, Types
<1>7. PhaseInv'
  <2>1. phase # "down" /\ phase # "ensure"
    BY <1>1, <1>2 DEF PhaseInv, DownInv, EnsureInv
  <2>2. CASE phase = "sweep"
    BY <1>1, <1>2, <1>3, <2>2 DEF PhaseInv, SweepInv, SweepTodo, NoMemory, Fs, Types
  <2>3. CASE phase = "make"
    BY <1>1, <1>2, <1>6, <2>3 DEF PhaseInv, MakeInv, NoMemory, Fs
  <2>4. CASE phase \in {"files", "sizes"}
    <3>1. ReadInv'
      BY <1>1, <1>2, <1>5, <1>6, <2>4 DEF PhaseInv, FilesInv, SizesInv, ReadInv
    <3>2. QED
      BY <1>1, <1>2, <1>5, <2>4, <3>1 DEF PhaseInv, FilesInv, SizesInv, Fs, FsOn
  <2>5. CASE phase \in {"shrink", "up"}
    <3>1. \A d \in Digest : (Whole(d) => Whole(d)') /\ (Settled(d) => Settled(d)')
      BY <1>1, <1>5 DEF Whole, Settled
    <3>2. OpenInv
      BY <1>2, <2>5 DEF PhaseInv
    <3>3. Accounts'
      <4>1. (\A d \in Tracked : Whole(d))'
        BY <1>5, <3>1, <3>2 DEF OpenInv, Accounts, Tracked
      <4>2. QED
        BY <1>1, <1>5, <1>6, <3>2, <4>1 DEF OpenInv, Accounts
    <3>4. CASE doing = Nothing /\ RestInv
      <4>1. RestInv'
        BY <1>1, <3>1, <3>4 DEF RestInv, Fs
      <4>2. QED
        BY <1>1, <2>5, <3>3, <3>4, <4>1 DEF PhaseInv, OpenInv
    <3>5. ASSUME NEW d \in Digest, phase = "up", doing = [kind |-> "store", d |-> d], StoreInv(d)
          PROVE  PhaseInv'
      <4>1. StoreTodo(d)'
        BY <1>1, <3>1, <3>5 DEF StoreInv, StoreTodo, Fs, FsOn
      <4>2. StoreInv(d)'
        BY <1>1, <3>1, <3>5, <4>1 DEF StoreInv
      <4>3. QED
        BY <1>1, <3>3, <3>5, <4>2 DEF PhaseInv, OpenInv
    <3>6. ASSUME NEW d \in Digest, doing = [kind |-> "evict", d |-> d], EvictInv(d)
          PROVE  PhaseInv'
      <4>1. EvictTodo(d)'
        BY <1>1, <3>6 DEF EvictInv, EvictTodo, Fs, FsOn
      <4>2. EvictInv(d)'
        BY <1>1, <3>1, <3>6, <4>1 DEF EvictInv
      <4>3. QED
        BY <1>1, <2>5, <3>3, <3>6, <4>2 DEF PhaseInv, OpenInv
    <3>7. QED
      BY <3>2, <3>4, <3>5, <3>6 DEF OpenInv
  <2>6. QED
    BY <1>2, <2>1, <2>2, <2>3, <2>4, <2>5 DEF PhaseInv
<1>8. QED
  BY <1>4, <1>7 DEF IInv

LEMMA NextIInv == IInv /\ [Next]_vars => IInv'
<1> SUFFICES ASSUME IInv, [Next]_vars PROVE IInv'
  OBVIOUS
<1>1. CASE UNCHANGED vars
  BY <1>1 DEF vars, diskVars, memVars, IInv, Types, Pending, DirectoryInv, HeapInv, PhaseInv,
     DownInv, EnsureInv, SweepInv, SweepTodo, MakeInv, FilesInv, SizesInv, OpenInv, ReadInv,
     Accounts, RestInv, StoreInv, StoreTodo, EvictInv, EvictTodo, Clean, Ready, NoMemory,
     Whole, Settled, Charged, Tracked
<1>2. CASE Next
  <2>1. ASSUME NEW e \in {"retired", "tmp", "sha256", "tag"}, Sweep(e)
        PROVE  IInv'
    BY <2>1, SweepingIInv DEF Sweep
  <2>2. ASSUME NEW d \in Digest,
               ReadFile(d) \/ ReadOther(d) \/ ReadDirectory(d) \/ ReadHalf(d)
        PROVE  IInv'
    BY <2>2, ReadingIInv
  <2>3. ASSUME NEW d \in Digest, GetArtifact(d) \/ GiveUp(d) \/ Release(d)
        PROVE  IInv'
    BY <2>3, RestingIInv
  <2>4. CASE Dispose \/ EvictionEnds
    BY <2>4, RestingIInv
  <2>5. ASSUME NEW d \in Digest, NEW type \in {"dir", "file", "symlink"}, Store(d, type)
        PROVE  IInv'
    BY <2>5, StoreIInv
  <2>6. QED
    BY <1>2, <2>1, <2>2, <2>3, <2>4, <2>5, OpenIInv, DoIInv, SweepingIInv, MadeIInv, ReadIInv,
       StoredIInv, EvictIInv, EvictedIInv, FailIInv, CrashIInv, ThreadEndsIInv DEF Next
<1>3. QED
  BY <1>1, <1>2

\* What the invariant says is all that the operations that are left need: for
\* each, that it fits.
LEMMA OpeningFits ==
  ASSUME IInv, todo # <<>>, phase \in {"ensure", "sweep", "make", "files", "sizes"}
  PROVE  Fits(Head(todo))
<1>1. CASE phase = "ensure"
  <2>1. EnsureInv
    BY <1>1 DEF IInv, PhaseInv
  <2>2. CASE todo = <<Fs("retire"), Fs("mkRemoving")>> /\ removing = "dir"
    <3>1. Head(todo).op = "retire"
      BY <2>2, Rests DEF Fs
    <3>2. QED
      BY <2>2, <3>1 DEF Fits
  <2>3. CASE todo = <<Fs("removeRemoving"), Fs("mkRemoving")>>
    <3>1. Head(todo).op = "removeRemoving"
      BY <2>3, Rests DEF Fs
    <3>2. QED
      BY <3>1 DEF Fits
  <2>4. CASE todo = <<Fs("mkRemoving")>> /\ removing = "none"
    <3>1. Head(todo).op = "mkRemoving"
      BY <2>4, Rests DEF Fs
    <3>2. QED
      BY <2>4, <3>1 DEF Fits
  <2>5. QED
    BY <2>1, <2>2, <2>3, <2>4 DEF EnsureInv
<1>2. CASE phase = "sweep"
  <2>1. SweepInv
    BY <1>2 DEF IInv, PhaseInv
  <2>2. CASE todo = <<Fs("trashRetired"), Fs("spawn")>> /\ retired > 0
    <3>1. Head(todo).op = "trashRetired"
      BY <2>2, Rests DEF Fs
    <3>2. QED
      BY <2>1, <2>2, <3>1 DEF Fits, SweepInv
  <2>3. CASE todo = <<Fs("trashTmp"), Fs("spawn")>> /\ "tmp" \in dirs
    <3>1. Head(todo).op = "trashTmp"
      BY <2>3, Rests DEF Fs
    <3>2. QED
      BY <2>1, <2>3, <3>1 DEF Fits, SweepInv
  <2>4. CASE todo = <<Fs("trashSha256"), Fs("spawn")>> /\ "sha256" \in dirs
    <3>1. Head(todo).op = "trashSha256"
      BY <2>4, Rests DEF Fs
    <3>2. QED
      BY <2>1, <2>4, <3>1 DEF Fits, SweepInv
  <2>5. CASE todo = <<Fs("removeTag")>> \/ todo = <<Fs("spawn")>>
    <3>1. Head(todo).op \in {"removeTag", "spawn"}
      BY <2>5, Rests DEF Fs
    <3>2. QED
      BY <3>1 DEF Fits
  <2>6. QED
    BY <2>1, <2>2, <2>3, <2>4, <2>5 DEF SweepInv, SweepTodo
<1>3. CASE phase = "make"
  <2>1. MakeInv
    BY <1>3 DEF IInv, PhaseInv
  <2>2. \/ Head(todo).op \in {"writeTag", "mkSha256IfNone", "spawn"}
        \/ Head(todo).op = "trashOther" /\ "other" \in dirs /\ removing = "dir"
        \/ Head(todo).op = "createTag" /\ tag = "none"
        \/ Head(todo).op = "mkTmp" /\ "tmp" \notin dirs
        \/ Head(todo).op = "mkSha256" /\ "sha256" \notin dirs
        \/ Head(todo).op = "mkKind" /\ "sha256" \in dirs /\ "kind" \notin dirs
        \/ Head(todo).op = "mkKindIfNone" /\ "sha256" \in dirs
    <3>1. CASE preserve
      BY <2>1, <3>1, Rests DEF MakeInv, Clean, Fs
    <3>2. CASE ~preserve
      BY <2>1, <3>2, Rests DEF MakeInv, Fs
    <3>3. QED
      BY <3>1, <3>2
  <2>3. QED
    BY <2>2 DEF Fits
<1>4. CASE phase = "files"
  <2>1. PICK d \in Digest : \/ todo = <<FsOn("remove", d)>> /\ place[d] = "symlink"
                            \/ todo = <<FsOn("removeSize", d)>> /\ sizeFile[d] # "none"
    BY <1>4 DEF IInv, PhaseInv, FilesInv
  <2>2. \/ Head(todo).op = "remove" /\ Head(todo).d = d /\ place[d] = "symlink"
        \/ Head(todo).op = "removeSize" /\ Head(todo).d = d /\ sizeFile[d] # "none"
    BY <2>1, Rests DEF FsOn
  <2>3. QED
    BY <2>2 DEF Fits
<1>5. CASE phase = "sizes"
  <2>1. SizesInv /\ removing = "dir"
    BY <1>5 DEF IInv, PhaseInv, SizesInv, ReadInv, Ready, Clean
  <2>2. CASE todo = <<Fs("spawn")>>
    <3>1. Head(todo).op = "spawn"
      BY <2>2, Rests DEF Fs
    <3>2. QED
      BY <3>1 DEF Fits
  <2>3. ASSUME NEW d \in Digest,
               todo = <<FsOn("trashDir", d), Fs("spawn")>>, place[d] = "dir"
        PROVE  Fits(Head(todo))
    <3>1. Head(todo).op = "trashDir" /\ Head(todo).d = d
      BY <2>3, Rests DEF FsOn
    <3>2. QED
      BY <2>1, <2>3, <3>1 DEF Fits
  <2>4. ASSUME NEW d \in Digest, todo = <<FsOn("removeSize", d)>>, sizeFile[d] = "full"
        PROVE  Fits(Head(todo))
    <3>1. Head(todo).op = "removeSize" /\ Head(todo).d = d
      BY <2>4, Rests DEF FsOn
    <3>2. QED
      BY <2>4, <3>1 DEF Fits
  <2>5. QED
    BY <2>1, <2>2, <2>3, <2>4 DEF SizesInv
<1>6. QED
  BY <1>1, <1>2, <1>3, <1>4, <1>5

LEMMA OpenFits ==
  ASSUME IInv, todo # <<>>, phase \in {"shrink", "up"}, ~faulty
  PROVE  Fits(Head(todo))
<1>1. OpenInv /\ removing = "dir" /\ "kind" \in dirs
  BY DEF IInv, PhaseInv, OpenInv, Accounts, Ready, Clean
<1>2. CASE doing = Nothing /\ RestInv
  <2>1. Head(todo).op \in {"spawn", "removeDisposed", "dispose"}
    BY <1>2, Rests DEF RestInv, Fs
  <2>2. QED
    BY <1>1, <2>1 DEF Fits
<1>3. ASSUME NEW d \in Digest, StoreInv(d)
      PROVE  Fits(Head(todo))
  <2>1. \/ /\ Head(todo).op = "createSize" /\ Head(todo).d = d
           /\ sizeFile[d] = "none"
        \/ Head(todo).op \in {"writeSize", "metadata"}
        \/ /\ Head(todo).op \in {"moveIn", "putFile", "putSymlink"} /\ Head(todo).d = d
           /\ place[d] = "none"
    <3>1. CASE d \in Dir
      BY <1>3, <3>1, Rests DEF StoreInv, StoreTodo, FsOn
    <3>2. CASE d \notin Dir
      BY <1>3, <3>2, Rests DEF StoreInv, StoreTodo, Fs, FsOn
    <3>3. QED
      BY <3>1, <3>2
  <2>2. QED
    BY <1>1, <2>1 DEF Fits
<1>4. ASSUME NEW d \in Digest, EvictInv(d)
      PROVE  Fits(Head(todo))
  <2>1. \/ Head(todo).op = "trashDir" /\ Head(todo).d = d /\ place[d] = "dir"
        \/ Head(todo).op = "spawn"
        \/ Head(todo).op = "removeSize" /\ Head(todo).d = d /\ sizeFile[d] = "full"
        \/ Head(todo).op = "remove" /\ Head(todo).d = d /\ place[d] \in {"file", "symlink"}
    BY <1>4, Rests DEF EvictInv, EvictTodo, Fs, FsOn
  <2>2. QED
    BY <1>1, <2>1 DEF Fits
<1>5. QED
  BY <1>1, <1>2, <1>3, <1>4 DEF OpenInv

-----------------------------------------------------------------------------
\* The invariant holds of every state of the cache and its directory.
THEOREM CacheFilesInvariant == Spec => []IInv
<1>1. Init => IInv
  BY InitIInv
<1>2. IInv /\ [Next]_vars => IInv'
  BY NextIInv
<1>3. QED
  BY <1>1, <1>2, PTL DEF Spec

\* Wherever an earlier process stopped, no operation of a later one, while it
\* opens, stores or evicts, finds the directory other than it needs it.
THEOREM DiskStaysReady == Spec => []DiskIsReady
<1>1. IInv => DiskIsReady
  BY OpeningFits, OpenFits DEF DiskIsReady, IInv, PhaseInv, DownInv
<1>2. QED
  BY <1>1, CacheFilesInvariant, PTL

\* What the cache believes to have is whole on the disk, also after any number
\* of crashes and failures.
THEOREM TrackedStaysThere == Spec => []TrackedIsThere
<1>1. IInv => TrackedIsThere
  <2> SUFFICES ASSUME IInv PROVE \A d \in Tracked : Whole(d)
    BY DEF TrackedIsThere, Tracked, Whole
  <2>1. CASE phase \in {"down", "ensure", "sweep", "make"}
    BY <2>1 DEF IInv, PhaseInv, DownInv, EnsureInv, SweepInv, MakeInv, NoMemory, Tracked
  <2>2. CASE phase = "files"
    BY <2>2 DEF IInv, PhaseInv, FilesInv, DirectoryInv, Tracked, Whole
  <2>3. CASE phase = "sizes"
    BY <2>3 DEF IInv, PhaseInv, SizesInv, DirectoryInv, Tracked, Whole
  <2>4. CASE phase \in {"shrink", "up"}
    BY <2>4 DEF IInv, PhaseInv, OpenInv, Accounts
  <2>5. QED
    BY <2>1, <2>2, <2>3, <2>4 DEF IInv, PhaseInv
<1>2. QED
  BY <1>1, CacheFilesInvariant, PTL

\* The bytes the cache counts cover what it tracks and evicts, whatever fails;
\* without a failure they are those of what is on the disk.
THEOREM DiskStaysAccounted == Spec => []DiskAccounted
<1>1. IInv => DiskAccounted
  <2> SUFFICES ASSUME IInv PROVE DiskAccounted
    OBVIOUS
  <2>1. TotalSize(Charged) <= bytes
    <3>1. CASE phase \in {"down", "ensure", "sweep", "make"}
      <4>1. NoMemory
        BY <3>1 DEF IInv, PhaseInv, DownInv, EnsureInv, SweepInv, MakeInv
      <4>2. Charged = {} /\ bytes = 0
        BY <4>1 DEF NoMemory, Charged, Tracked, Nothing
      <4>3. QED
        BY <4>2, TotalSizeFacts
    <3>2. CASE phase \in {"files", "sizes"}
      <4>1. ReadInv /\ bytes \in Nat
        BY <3>2 DEF IInv, PhaseInv, FilesInv, SizesInv, Types
      <4>2. Charged = Tracked
        BY <4>1 DEF ReadInv, Charged, Nothing
      <4>3. QED
        BY <4>1, <4>2 DEF ReadInv
    <3>3. CASE phase \in {"shrink", "up"}
      BY <3>3 DEF IInv, PhaseInv, OpenInv, Accounts
    <3>4. QED
      BY <3>1, <3>2, <3>3 DEF IInv, PhaseInv
  <2>2. ASSUME phase = "up", todo = <<>>, doing = Nothing, ~faulty
        PROVE  /\ {d \in Digest : place[d] # "none"} = Tracked
               /\ bytes = TotalSize(Tracked)
               /\ \A d \in Digest : sizeFile[d] = IF place[d] = "dir" THEN "full" ELSE "none"
    BY <2>2, NothingIsDone DEF Accounts, RestInv, Settled, Tracked
  <2>3. QED
    BY <2>1, <2>2 DEF DiskAccounted, Charged
<1>2. QED
  BY <1>1, CacheFilesInvariant, PTL

\* What was retired or moved to `removing' by this process or an earlier one is
\* being removed once the cache is open.
THEOREM NoGarbageIsForgotten == Spec => []NoGarbageForgotten
<1>1. IInv => NoGarbageForgotten
  BY DEF IInv, PhaseInv, OpenInv, Accounts, Ready, Clean, Pending, NoGarbageForgotten
<1>2. QED
  BY <1>1, CacheFilesInvariant, PTL
=============================================================================
