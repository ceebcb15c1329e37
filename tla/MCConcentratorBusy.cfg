CONSTANTS
  Senders = {"send_package"}
  Packets = {p1, p2}
  MaxPkt = 2
  FifoSize = 2
  FrameIds = 5
SPECIFICATION Spec
PROPERTIES EmittedWhole
CHECK_DEADLOCK FALSE
