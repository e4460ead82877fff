SPECIFICATION Spec
CONSTANTS
  c1 = c1  c2 = c2  j1 = j1  j2 = j2  j3 = j3  j4 = j4  m = m  n = n  a = a
  Client = {c1}
  Job = {j1, j2}
  Digest = {m, n, a}
  Size <- UnitSize
  Target = 3
  Getter <- OneGetter
  Layers <- NestedLayers
  Entries <- NestedEntries
  MaxReads = 1
  MaxKnown = 1
  Batches <- Everything
  MaxFetches = 0
  MaxAborts = 0
  Overlap = FALSE
  MayStick = {}
INVARIANT ReadyHasEverything
CHECK_DEADLOCK FALSE
