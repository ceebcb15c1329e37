CONSTANTS
  Senders = {"send_package", "recive_package"}
  Packets = {p1, p2}
  MaxPkt = 2
  FifoSize = 2
  FrameIds = 3
SPECIFICATION FairSpec
INVARIANTS TypeOK RightRegister OwnPacket FetchedInOrder
PROPERTIES SendStarts FullFifoServed

