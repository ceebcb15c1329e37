CONSTANTS
  Jobs = {j1, j2}
  Callbacks = {cb, cc}
  NoJob = NoJob
  NoCallback = NoCallback
  HalfRange = 3
  MaxAhead = 1
  MaxLate = 1
  CmpWraps = TRUE
SPECIFICATION FairSpec
INVARIANTS TypeOK QueuedOnce SortedSchedule
PROPERTIES ServiceSpec RunnableServed
CHECK_DEADLOCK TRUE
