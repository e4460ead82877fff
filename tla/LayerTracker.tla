---------------------------- MODULE LayerTracker ----------------------------
(***************************************************************************)
(* How a worker gets the layers of one job into its cache:                 *)
(*   crates/maelstrom-worker/src/dispatcher/tracker.rs (LayerTracker),     *)
(*   dispatcher.rs (Fetcher), types.rs (CacheKey).                         *)
(*                                                                         *)
(* For every layer its artifact (a blob) is fetched; if it is a manifest,  *)
(* its entries are read and their blobs fetched; then a bottom file system *)
(* layer is built of it.  When all bottom layers are there they are        *)
(* stacked one by one: an upper layer is built for each prefix of length   *)
(* at least two.                                                           *)
(*                                                                         *)
(* The operators work on a record s of the dispatcher's state, with        *)
(*   cache    the worker's cache (CacheOps),                               *)
(*   tasks    the keys being fetched or built,                             *)
(*   digests  the manifests being read (ManifestDigestCache),              *)
(*   job      for each job that awaits its layers, its tracker.            *)
(***************************************************************************)
EXTENDS Integers, Sequences, FiniteSets, SequencesExt

CONSTANTS
  Job,       \* job ids
  Digest,    \* artifacts
  Layers,    \* the digests of JobSpec::layers, for each job
  Manifest,  \* the artifacts that are manifests
  Entries,   \* the set of digests that a manifest lists
  Size,      \* the bytes of an artifact or a layer
  Target,    \* Cache::bytes_used_target
  MaxKnown   \* MANIFEST_DIGEST_CACHE_SIZE

\* The keys whose artifacts or layers the file system would not remove now.
VARIABLE stuck

ASSUME LayersAssumption ==
  /\ Layers \in [Job -> Seq(Digest) \ {<<>>}]
  /\ Manifest \subseteq Digest /\ Entries \in [Manifest -> SUBSET Digest]
  /\ \A m \in Manifest : IsFiniteSet(Entries[m])

\* CacheKey.  The digest of an upper layer is a hash of the chain of digests
\* under it: it stands for that prefix of the layers.
Blob(d) == <<"blob", d>>
Bottom(d) == <<"bottom", d>>
Upper(layers) == <<"upper", layers>>

Prefix(j, n) == SubSeq(Layers[j], 1, n)

Key ==
  {Blob(d) : d \in Digest} \cup {Bottom(d) : d \in Digest} \cup
  UNION {{Upper(Prefix(j, n)) : n \in 2 .. Len(Layers[j])} : j \in Job}

\* There is one getter, the worker itself (CacheGetStrategy).
Cache == INSTANCE CacheOps WITH Digest <- Key, Size <- [k \in Key |-> Size],
                                Getter <- [j \in Job |-> "worker"]
Digests == INSTANCE ManifestDigestCache WITH Capacity <- MaxKnown

\* PendingBottomLayer
WaitingForArtifact == [st |-> "artifact"]
WaitingForDigests == [st |-> "digests"]
WaitingForArtifacts(n) == [st |-> "artifacts", left |-> n]
WaitingForFsLayer == [st |-> "fsLayer"]
Ready == [st |-> "ready"]

\* LayerTracker.  stacked is the index of PendingTopLayer, deps is
\* pending_manifest_dependencies.
EmptyTracker(j) ==
  [st |-> "awaiting", keys |-> {}, stacked |-> 1,
   bottom |-> [d \in ToSet(Layers[j]) |-> WaitingForArtifact],
   deps |-> [d \in Digest |-> <<>>]]

AllReady(t) == \A d \in DOMAIN t.bottom : t.bottom[d] = Ready

\* is_complete
IsComplete(t, j) ==
  IF Len(Layers[j]) < 2 THEN AllReady(t) ELSE t.stacked >= Len(Layers[j])

Panic(s) == [s EXCEPT !.cache = Cache!Panicked(@)]

-----------------------------------------------------------------------------
\* Fetcher: ask the cache for a key; if nobody is getting it yet, start to.
Fetch(s, j, k) ==
  LET got == Cache!GetArtifact(s.cache, k, j) IN
  [s EXCEPT !.cache = got.cache,
            !.tasks = IF got.result = "get" THEN @ \cup {k} ELSE @]

Got(s, j, k) == Cache!GetArtifact(s.cache, k, j).result = "success"

Keep(s, j, k) == [s EXCEPT !.job[j].keys = @ \cup {k}]

\* Stack the n-th layer on those below, if they are all there.
StackUpper(s, j, n) ==
  LET k == Upper(Prefix(j, n)) IN
  IF s.job[j].stacked # n - 1 THEN s
  ELSE IF ~Got(s, j, k) THEN Fetch(s, j, k)
  ELSE Keep([Fetch(s, j, k) EXCEPT !.job[j].stacked = n], j, k)

\* fetch_upper_layers: stack until a layer has to be waited for.
FetchUpperLayers(s, j) ==
  FoldLeft(LAMBDA h, n : StackUpper(h, j, n), s,
           [i \in 1 .. Len(Layers[j]) - 1 |-> i + 1])

\* got_bottom_fs_layer
GotBottomFsLayer(s, j, d) ==
  LET h == Keep([s EXCEPT !.job[j].bottom[d] = Ready], j, Bottom(d)) IN
  IF s.job[j].bottom[d] # WaitingForFsLayer THEN Panic(s)
  ELSE IF AllReady(h.job[j]) THEN FetchUpperLayers(h, j) ELSE h

\* got_upper_fs_layer
GotUpperFsLayer(s, j, k) ==
  FetchUpperLayers(Keep([s EXCEPT !.job[j].stacked = @ + 1], j, k), j)

\* fetch_bottom_fs_layer
FetchBottomFsLayer(s, j, d) ==
  LET h == [Fetch(s, j, Bottom(d)) EXCEPT !.job[j].bottom[d] = WaitingForFsLayer]
  IN  IF Got(s, j, Bottom(d)) THEN GotBottomFsLayer(h, j, d) ELSE h

\* The manifest m waits for one artifact less.
OneLess(s, j, m) ==
  LET left == s.job[j].bottom[m].left IN
  IF s.job[j].bottom[m].st # "artifacts" THEN Panic(s)
  ELSE IF left = 1 THEN FetchBottomFsLayer(s, j, m)
  ELSE [s EXCEPT !.job[j].bottom[m] = WaitingForArtifacts(left - 1)]

\* got_manifest_artifact
GotManifestArtifact(s, j, d) ==
  FoldLeft(LAMBDA h, m : OneLess(h, j, m),
           [s EXCEPT !.job[j].deps[d] = <<>>], s.job[j].deps[d])

GotArtifact_LayerOnly(s, j, d) ==
  LET h == Keep(s, j, Blob(d)) IN
  IF d \notin DOMAIN h.job[j].bottom THEN GotManifestArtifact(h, j, d)
  ELSE IF d \in Manifest
  THEN [h EXCEPT !.digests = Digests!Get(@, d, j),
                 !.job[j].bottom[d] = WaitingForDigests]
  ELSE FetchBottomFsLayer(h, j, d)

\* got_artifact
GotArtifact(s, j, d) ==
  LET h == GotManifestArtifact(Keep(s, j, Blob(d)), j, d) IN
  IF d \notin DOMAIN h.job[j].bottom
  THEN IF s.job[j].deps[d] = <<>> THEN Panic(h) ELSE h
  ELSE IF h.job[j].bottom[d] # WaitingForArtifact THEN Panic(h)
  ELSE IF d \in Manifest
  THEN [h EXCEPT !.digests = Digests!Get(@, d, j),
                 !.job[j].bottom[d] = WaitingForDigests]
  ELSE FetchBottomFsLayer(h, j, d)

Depend(s, j, m, d) == [s EXCEPT !.job[j].deps[d] = Append(@, m)]

FetchEntry(s, j, m, d) ==
  IF Got(s, j, Blob(d)) THEN Keep(Fetch(s, j, Blob(d)), j, Blob(d))
  ELSE Depend(Fetch(s, j, Blob(d)), j, m, d)

NeedEntry_Layers(s, j, m, d) ==
  IF Blob(d) \in s.job[j].keys THEN s
  ELSE IF s.job[j].deps[d] # <<>> THEN Depend(s, j, m, d)
  ELSE FetchEntry(s, j, m, d)

NeedEntry_NoKey(s, j, m, d) ==
  IF Blob(d) \in s.job[j].keys THEN s
  ELSE IF s.job[j].deps[d] # <<>> \/ d \in DOMAIN s.job[j].bottom
  THEN Depend(s, j, m, d)
  ELSE IF Got(s, j, Blob(d)) THEN Fetch(s, j, Blob(d))
  ELSE FetchEntry(s, j, m, d)

\* The manifest m lists d: fetch it, unless the job has it or waits for it.
NeedEntry(s, j, m, d) ==
  IF Blob(d) \in s.job[j].keys THEN s
  ELSE IF s.job[j].deps[d] # <<>> \/ d \in DOMAIN s.job[j].bottom
  THEN Depend(s, j, m, d)
  ELSE FetchEntry(s, j, m, d)

\* got_manifest_digests, in one order of the digests: they are independent, too.
GotManifestDigests(s, j, m) ==
  LET g == FoldLeft(LAMBDA h, d : NeedEntry(h, j, m, d), s, SetToSeq(Entries[m]))
      left == Cardinality({d \in Entries[m] : m \in ToSet(g.job[j].deps[d])})
  IN
  IF s.job[j].bottom[m] # WaitingForDigests THEN Panic(s)
  ELSE IF left > 0
  THEN [g EXCEPT !.job[j].bottom[m] = WaitingForArtifacts(left)]
  ELSE FetchBottomFsLayer(g, j, m)

FetchBlob(s, j, d) ==
  IF Got(s, j, Blob(d)) THEN GotArtifact(Fetch(s, j, Blob(d)), j, d)
  ELSE Fetch(s, j, Blob(d))

\* new.  What one layer fetches does not depend on the others until the last is
\* ready, so the order in which the hash map gives them makes no difference.
NewTracker(s, j) ==
  FoldLeft(LAMBDA h, d : FetchBlob(h, j, d), [s EXCEPT !.job[j] = EmptyTracker(j)],
           SetToSeq(ToSet(Layers[j])))
=============================================================================
