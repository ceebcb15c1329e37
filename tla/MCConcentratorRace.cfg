CONSTANTS
  Senders = {"send_package", "recive_package"}
  Packets = {p1, p2}
  MaxPkt = 2
  FifoSize = 2
  FrameIds = 5
SPECIFICATION Spec
INVARIANTS StartsOwnPacket
CHECK_DEADLOCK FALSE
