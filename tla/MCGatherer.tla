----------------------------- MODULE MCGatherer -----------------------------
(***************************************************************************)
(* Instances of ArtifactGatherer for TLC.                                  *)
(***************************************************************************)
EXTENDS ArtifactGatherer

CONSTANTS c1, c2, j1, j2, j3, j4, m, n, a

UnitSize == [d \in Digest |-> 1]

OneGetter == [j \in Job |-> c1]
TwoGetters == [j \in Job |-> IF j = j4 THEN c2 ELSE c1]

\* One client with three jobs, or two clients with one each.
MCBatches == {{c1, j1, j2, j3}, {c1, c2, j1, j4}}
Everything == {Client \cup Job}

\* Two manifests that list the same artifact, one of them twice: the artifact
\* comes to a job by either manifest, or as a layer of its own that is also
\* listed.
MCEntries == [d \in Digest |-> CASE d = m -> <<a, a>> [] d = n -> <<a>>
                                 [] OTHER -> <<>>]
MCLayers ==
  [j \in Job |-> CASE j = j1 -> <<<<m, TRUE>>>>
                   [] j \in {j2, j4} -> <<<<a, FALSE>>, <<m, TRUE>>>>
                   [] OTHER -> <<<<n, TRUE>>>>]

\* A manifest that lists another manifest's file, which the job also has as a
\* layer of its own.
NestedEntries == [d \in Digest |-> CASE d = n -> <<m>> [] d = m -> <<a>>
                                     [] OTHER -> <<>>]
NestedLayers == [j \in Job |-> IF j = j1 THEN <<<<n, TRUE>>>>
                               ELSE <<<<n, TRUE>>, <<m, TRUE>>>>]

\* A single file.
OneFile == [j \in Job |-> <<<<a, FALSE>>>>]
=============================================================================
