---------------------------- MODULE MCLmicChannels ----------------------------
(* LmicChannels with two data rates, four channels and a short clock.      *)
EXTENDS LmicChannels, TLC

MCAirtime == 0 :> 2 @@ 1 :> 1
MCTxCap == 0 :> 5 @@ 1 :> 3 @@ 2 :> 1
MCAdjust == <<0, 1, 0>>
MCExtras ==
  {[chnl |-> 3, band |-> MILLI, drs |-> {MaxDR}], [chnl |-> 3, band |-> DECI, drs |-> DataRates]}
MCMaps == {{0, 1}, {0, 3}}
=============================================================================
