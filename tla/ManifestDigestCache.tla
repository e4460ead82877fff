------------------------- MODULE ManifestDigestCache -------------------------
(***************************************************************************)
(* What a worker knows of the entries of manifests:                        *)
(*   crates/maelstrom-worker/src/manifest_digest_cache.rs.                 *)
(*                                                                         *)
(* A manifest is read once for all the jobs that ask for it while it is,   *)
(* and not at all for those that ask later, until it is forgotten.  The    *)
(* cache is shared by the dispatcher and its readers behind a lock; both   *)
(* of its operations hold the lock throughout.  They work on a record c    *)
(*   pending  the jobs that wait for the read of each manifest,            *)
(*   cached   the manifests that are known, least recently used first,     *)
(*   sent     the ReadManifestDigests messages that the dispatcher has not *)
(*            received: <<manifest, job, whether it could be read>>.       *)
(* A manifest's path has its digest in it, and stands for what it lists.   *)
(***************************************************************************)
EXTENDS Integers, Sequences, SequencesExt

CONSTANTS
  Manifest,  \* the paths of manifests
  Capacity   \* MANIFEST_DIGEST_CACHE_SIZE

EmptyDigestCache ==
  [pending |-> [m \in Manifest |-> {}], cached |-> <<>>, sent |-> {}]

\* LruCache::push and get: m is the most recently used.
Used(cached, m) ==
  LET all == Append(RemoveFirst(cached, m), m) IN
  IF Len(all) > Capacity THEN Tail(all) ELSE all

Get_Alone(c, m, j) ==
  IF m \in ToSet(c.cached)
  THEN [c EXCEPT !.cached = Used(@, m), !.sent = @ \cup {<<m, j, TRUE>>}]
  ELSE [c EXCEPT !.pending[m] = {j}]

\* get: join the read in progress, or be told at once, or start a read.
Get(c, m, j) ==
  IF c.pending[m] = {} /\ m \in ToSet(c.cached)
  THEN [c EXCEPT !.cached = Used(@, m), !.sent = @ \cup {<<m, j, TRUE>>}]
  ELSE [c EXCEPT !.pending[m] = @ \cup {j}]

\* fill_cache: the read of m has ended; ok says how.
FillCache(c, m, ok) ==
  [c EXCEPT !.pending[m] = {},
            !.sent = @ \cup {<<m, j, ok>> : j \in c.pending[m]},
            !.cached = IF ok THEN Used(@, m) ELSE @]

Received(c, message) == [c EXCEPT !.sent = @ \ {message}]

\* The reads whose end their job has not been told: <<manifest, job>>.
Reads(c) ==
  (UNION {{<<m, j>> : j \in c.pending[m]} : m \in Manifest})
    \cup {<<message[1], message[2]>> : message \in c.sent}
=============================================================================
