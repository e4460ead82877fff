SPECIFICATION Spec
CONSTANTS
  c1 = c1  c2 = c2  j1 = j1  j2 = j2  j3 = j3  j4 = j4  m = m  n = n  a = a
  Client = {c1}
  Job = {j1}
  Digest = {m, a}
  Size <- UnitSize
  Target = 1
  Getter <- OneGetter
  Layers <- OneFile
  Entries <- MCEntries
  MaxReads = 1
  MaxKnown = 1
  Batches <- Everything
  MaxFetches = 1
  MaxAborts = 1
  Overlap = FALSE
  MayStick = {}
INVARIANT NoneHeldForNobody
CHECK_DEADLOCK FALSE
