------------------------------ MODULE MCClient ------------------------------
(***************************************************************************)
(* Instances of Client for TLC.                                            *)
(***************************************************************************)
EXTENDS Client

CONSTANTS
  j1, j2, j3,          \* jobs
  k1, k2, k3,             \* names of containers
  tar, stubs,          \* a tar layer, which is also its digest, and a stubs layer
  paths, prefixed,     \* two paths layers, both of the tar layer's file
  image, bad,          \* an image, and one with an invalid environment
  mPaths, mPrefixed, mStubs  \* the digests of the manifests

All == ContainerUse

Values(ls, env, dir, net) ==
  [u \in All |-> CASE u = "layers" -> ls [] u = "environment" -> env
                   [] u = "working_directory" -> dir [] u = "network" -> net]

Of(parent, val) == [parent |-> parent, val |-> val]

Plain == Of(NoParent, Values(<<tar>>, <<1>>, None, "host"))
FromA == Of(ParentContainer(k1, All), Values(<<>>, <<2>>, "/x", None))
FromB == Of(ParentContainer(k2, {"layers", "network"}), Values(<<stubs>>, <<>>, None, None))
DirFromC == Of(ParentContainer(k3, {"working_directory"}), Values(<<>>, <<3>>, None, "none"))
NothingOfA == Of(ParentContainer(k1, {}), Values(<<>>, <<>>, None, None))
FromImage ==
  Of(ParentImage(image, {"layers", "working_directory"}), Values(<<stubs>>, <<4>>, None, None))
FromBad == Of(ParentImage(bad, {"environment"}), Values(<<stubs>>, <<>>, "/y", None))

MCContainer == {Plain, FromA, FromB, DirFromC, NothingOfA, FromImage, FromBad}

Named(x, y) == [k \in Name |-> CASE k = k1 -> x [] k = k2 -> y [] OTHER -> None]

\* k2 has the image, or the bad one by way of k1; or k1 is missing.
MCSettings == {Named(FromB, FromImage), Named(FromBad, FromA), Named(None, FromA)}

MCSpecOf ==
  [j \in Job |->
     CASE j = j1 -> Of(NoParent, Values(<<tar, paths>>, <<>>, None, None))
       [] j = j2 -> Of(ParentContainer(k2, All), Values(<<paths>>, <<>>, None, None))
       [] j = j3 -> Of(ParentImage(image, All), Values(<<prefixed>>, <<>>, None, None))]

MCFiles ==
  [p \in Path |-> IF p = "tar" THEN tar ELSE None]

\* The layers' builds, if the prefixed layer's manifest is at path p.
StepsWith(p) ==
  [l \in Layer |->
     CASE l = tar -> <<Upload("tar")>>
       [] l = stubs -> <<Write("stubs", mStubs), Upload("stubs")>>
       [] l = paths -> <<Upload("tar"), Write("paths", mPaths), Upload("paths")>>
       [] l = prefixed -> <<Upload("tar"), Write(p, mPrefixed), Upload(p)>>]

MCSteps == StepsWith("prefixed")
SharedSteps == StepsWith("paths")

MCContents ==
  [i \in Image |->
     [invalid |-> IF i = bad THEN {"environment"} ELSE {},
      val |-> [u \in ImageUse |-> CASE u = "layers" -> <<stubs, tar>>
                                    [] u = "environment" -> <<5>>
                                    [] OTHER -> "/image"]]]
=============================================================================
