SPECIFICATION Spec
CONSTANTS
  j1 = j1  j2 = j2  j3 = j3  j4 = j4
  Worker = {1, 2, 3, 4, 5, 6, 7}
  Slots <- SomeSlots
  Job = {j1, j2, j3, j4}
  Priority <- SomePriority
  EstimatedDuration <- SomeDuration
  None = None
  MaxJobs = 5
  FewUnits = 5
INVARIANTS HeapOrdered StartsAtTheLeastLoaded StartsLikeTheLoop
