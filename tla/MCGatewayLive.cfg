CONSTANTS
  Devices = {d1, d2}
  Hosts = {h1}
  Packets <- MCMorePackets
  Frames <- MCFrames
  MaxBurst = 1
SPECIFICATION FairSpec
PROPERTIES LockReleased FrameFinished
CHECK_DEADLOCK FALSE
