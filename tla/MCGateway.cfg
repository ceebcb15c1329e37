CONSTANTS
  Devices = {d1, d2}
  Hosts = {h1, h2}
  Packets <- MCPackets
  Frames <- MCFrames
  MaxBurst = 2
SYMMETRY Stations
SPECIFICATION Spec
INVARIANTS OneEntryPerMac HeardIsListed LookupsAgree DevicesNotConfused ReplyHasRequest
PROPERTIES EntriesKept
CHECK_DEADLOCK FALSE
