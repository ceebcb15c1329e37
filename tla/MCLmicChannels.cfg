CONSTANTS
  W = 256
  Hours8 = 107
  RampUp = 1
  Airtime <- MCAirtime
  TxCap <- MCTxCap
  Channels = 4
  MaxDR = 1
  Attempts = 3
  Adjust <- MCAdjust
  Window = 1
  Delays = {0, 2}
  Zone = 1
  RndChannels = {1}
  Extras <- MCExtras
  Maps <- MCMaps
  Rates = {0, 2}
  Boots = {122, 250}
  Late = 1
  Sleeps = FALSE
  Withdrawn = FALSE
  MaxClock = 9
  MaxCalls = 4
SPECIFICATION Spec
INVARIANTS NextTxReturns
PROPERTIES DutyKept RetrySpaced GoodChannel
CHECK_DEADLOCK FALSE
