SPECIFICATION Spec
CONSTANTS
  Chains = {0, 4, 8, 9}
  LutMax = 5
  LbtChannels = 3
  StartFreq = 8630
  Fpgas = {TRUE, FALSE}
  Jsons <- MCJsons
  RxifConfs <- MCRxif
  TxgainConfs <- MCTxgain
  LbtConfs <- MCLbt
  MaxCalls = 2
  MaxStarts = 2
  GainWhileStarted = FALSE
INVARIANTS
  RunsAsConfigured
  LbtAsConfigured
CHECK_DEADLOCK FALSE
