SPECIFICATION FairSpec
CONSTANTS
  j1 = j1  j2 = j2  j3 = j3  j4 = j4  j5 = j5  j6 = j6
  m = m  n = n  lib = lib  a = a  b = b
  Job = {j1, j2, j3, j4, j5, j6}
  Digest = {m, n, lib, a, b}
  Layers <- MCLayers
  Manifest = {m, n}
  Entries <- MCEntries
  Size = 1
  Target = 2
  MaxKnown = 1
  Rank <- MCRank
  Slots = 1
  KeyOrders <- SomeOrders
  Timeout = {j1, j4}
  Batches <- MCBatches
  Cancellable = {j1, j2}
  MayFail <- MCMayFail
  MayStick <- MCMayStick
  MayShutDown = TRUE
INVARIANTS TypeOK RefsExact NoPanic CompleteWhenAvailable AwaitingIsWaiting
  SlotsUsed
PROPERTIES ServesJobs ShutDownIsFinal EveryJobAnswered
CHECK_DEADLOCK FALSE
