---------------------------- MODULE MCDispatcher ----------------------------
(***************************************************************************)
(* Instances of Dispatcher for TLC.                                        *)
(***************************************************************************)
EXTENDS Dispatcher

CONSTANTS j1, j2, j3, j4, j5, j6, m, n, lib, a, b

\* Three jobs of tar layers, or three of manifests.
MCBatches == {{j1, j2, j3} \cap Job, {j4, j5, j6} \cap Job}

\* The keys in some order; the orders in which every key comes first
\* and every key comes last.
OneOrder == FoldSet(LAMBDA k, s : Append(s, k), <<>>, Key)
MCOneOrder == {OneOrder}
SomeOrders ==
  {SubSeq(OneOrder, i + 1, Len(OneOrder)) \o SubSeq(OneOrder, 1, i) :
     i \in DOMAIN OneOrder}

\* All that concerns tar layers may fail, and one job's only read of a manifest.
\* (A job that fails while another of its manifests is read meets what
\* DispatcherCancelledRead.cfg finds.)
MCMayFail == {k \in Key : k[2] \notin Manifest \cup {lib} /\ k[2] \notin {Prefix(j4, 2), Prefix(j5, 2)}}
             \cup {<<m, j4>>}

\* The layer that two of the jobs have cannot always be removed.
MCMayStick == {Bottom(b)} \cap Key

MCRank == [j \in Job |-> IF j \in {j1, j4} THEN 1 ELSE 0]

\* Tar layers: the jobs share a layer, and two a stack, which one builds on with
\* a layer it has below already.
\* Manifests: one lists the other's file, and both list an artifact that is
\* also a layer of its own.
MCLayers ==
  [j \in Job |-> CASE j = j1 -> <<a>> [] j = j2 -> <<a, b>> [] j = j3 -> <<a, b, a>>
                   [] j = j4 -> <<m, lib>> [] OTHER -> <<n, m>>]
MCEntries == [x \in Manifest |-> IF x = m THEN {lib} ELSE {lib, m}]
=============================================================================
