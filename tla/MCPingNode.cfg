CONSTANTS
  Frames <- MCFrames
  HalfRange = 2
  MaxAhead = 1
  MaxLate = 0
  Interval = 1
SPECIFICATION FairSpec
PROPERTIES ReplyUntouched ListensAgain SolicitsAgain EchoAnswered
CHECK_DEADLOCK FALSE
