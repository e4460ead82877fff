SPECIFICATION Spec
CONSTANTS
  d1 = d1  d2 = d2  f = f
  Digest = {d1, d2, f}
  Dir = {d1, d2}
  Size <- MCSize
  Target = 2
  MayFail = TRUE
  MaxTrash = 3
  MaxBytes = 5
INVARIANTS DiskIsReady TrackedIsThere DiskAccounted NoGarbageForgotten
