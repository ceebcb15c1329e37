CONSTANTS
  W = 256
  Hours8 = 107
  RampUp = 1
  Airtime <- MCAirtime
  TxCap <- MCTxCap
  Channels = 4
  MaxDR = 1
  Attempts = 3
  Adjust <- MCAdjust
  Window = 1
  Delays = {0, 2}
  Zone = 1
  RndChannels = {1}
  Extras <- MCExtras
  Maps <- MCMaps
  Rates = {0, 2}
  Boots = {0}
  Late = 1
  Sleeps = TRUE
  Withdrawn = FALSE
  MaxClock = 30
  MaxCalls = 2
SPECIFICATION Spec
INVARIANTS NextTxReturns
CHECK_DEADLOCK FALSE
