SPECIFICATION FairSpec
CONSTANTS
  c1 = c1  c2 = c2  j1 = j1  j2 = j2  j3 = j3  j4 = j4  m = m  n = n  a = a
  Client = {c1, c2}
  Job = {j1, j2, j3, j4}
  Digest = {m, n, a}
  Size <- UnitSize
  Target = 2
  Getter <- TwoGetters
  Layers <- MCLayers
  Entries <- MCEntries
  MaxReads = 1
  MaxKnown = 1
  Batches <- MCBatches
  MaxFetches = 1
  MaxAborts = 1
  Overlap = FALSE
  MayStick = {n}
INVARIANTS TypeOK HeldStaysCached NoPanic CacheSound
  WaitedFor ReadsMatch GoneIsForgotten
PROPERTIES KeepsContract EveryJobSettles
CHECK_DEADLOCK FALSE
