SPECIFICATION Spec
CONSTANTS
  j1 = j1  j2 = j2  j3 = j3  k1 = k1  k2 = k2  k3 = k3
  paths = paths  prefixed = prefixed  tar = tar  stubs = stubs
  image = image  bad = bad
  mPaths = mPaths  mPrefixed = mPrefixed  mStubs = mStubs
  ListUse = {"layers", "environment"}
  SingleUse = {"working_directory", "network"}
  ImageUse = {"layers", "environment", "working_directory"}
  Name = {k1, k2, k3}
  None = None
  Job = {j1, j2, j3}
  SpecOf <- MCSpecOf
  Rejected = {}
  Local = {j1}
  Container <- MCContainer
  Settings <- MCSettings
  Layer = {paths, prefixed, tar, stubs}
  Steps <- SharedSteps
  Image = {image, bad}
  Contents <- MCContents
  Path = {"tar", "paths", "prefixed", "stubs"}
  Digest = {tar, mPaths, mPrefixed, mStubs}
  Files <- MCFiles
  Standalone = FALSE
  MaxPendingLayerBuilds = 2
  MaxFailures = 1
INVARIANT PreparedAsSpecified
CHECK_DEADLOCK FALSE
