SPECIFICATION Spec
CONSTANTS
  B = 32
  Size = 32
  Addresses <- MCAddresses
  Macs <- MCMacs
  Datas <- MCDatas
  Garbage <- MCGarbage
  MaxPackets = 3
INVARIANTS
  ChecksumVerifies
  Understood
CHECK_DEADLOCK FALSE
