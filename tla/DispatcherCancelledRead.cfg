SPECIFICATION Spec
CONSTANTS
  j1 = j1  j2 = j2  j3 = j3  j4 = j4  j5 = j5  j6 = j6
  m = m  n = n  lib = lib  a = a  b = b
  Job = {j4, j5}
  Digest = {m, n, lib}
  Layers <- MCLayers
  Manifest = {m, n}
  Entries <- MCEntries
  Size = 1
  Target = 9
  MaxKnown = 1
  Rank <- MCRank
  Slots = 1
  KeyOrders <- MCOneOrder
  Timeout = {j4}
  Batches <- MCBatches
  Cancellable = {j4}
  MayFail = {}
  MayStick = {}
  MayShutDown = FALSE
INVARIANT NoPanic
CHECK_DEADLOCK FALSE
