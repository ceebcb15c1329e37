CONSTANTS
  Attempts = 3
  Adjust <- MCAdjust
  MaxDR = 1
  LinkInit <- MCLinkInit
  LinkCont = 1
  LinkDead = 1
  LinkOff <- MCLinkOff
  MaxRejoin = 1
  SeqMod = 4
  UpLimit = 2
  DnLimit = 2
  CntMod = 8
  Downlinks <- MCDownlinks
  Confirmed = {TRUE, FALSE}
  LongPayload = FALSE
  KeepsCheck = TRUE
  Prompt = TRUE
  Arms = {"EV_TXCOMPLETE", "EV_JOINED", "EV_REJOIN_FAILED"}
  Calls = {}
  MaxCalls = 0
SPECIFICATION Spec
PROPERTIES VerdictOnConfirmed
CHECK_DEADLOCK FALSE
