SPECIFICATION FairSpec
CONSTANTS
  c1 = c1  c2 = c2  j1 = j1  j2 = j2  j3 = j3  j4 = j4  j5 = j5
  Client = {c1, c2}
  Worker = {1, 2, 3}
  Job = {j1, j2, j3, j4, j5}
  None = None
  Owner <- MCOwner
  Priority <- MCPriority
  EstimatedDuration <- MCDuration
  Slots <- MCSlots
  Arrivals <- MCArrivals
  Detailed <- MCDetailed
INVARIANTS TypeOK JobInOnePlace NoJobLost NoDanglingJob CountsMatch
  WorkConserving WorkerAgrees
PROPERTIES ServesJobs EveryJobAnswered
CHECK_DEADLOCK FALSE
