CONSTANTS
  Devices = {d1}
  Hosts = {h1, h2}
  Packets <- MCPackets
  Frames <- MCFrames
  MaxBurst = 1
SPECIFICATION Spec
INVARIANTS RepliesReachTheirHost
CHECK_DEADLOCK FALSE
