CONSTANTS
  Frames <- MCFewFrames
  HalfRange = 2
  MaxAhead = 1
  MaxLate = 0
  Interval = 1
SPECIFICATION Spec
INVARIANTS NoAssertFailure
CHECK_DEADLOCK FALSE
